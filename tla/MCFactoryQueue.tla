--------------------------- MODULE MCFactoryQueue ---------------------------
(* Model-checking instance of the store: MCFactoryQueue.cfg.               *)
EXTENDS FactoryQueue, TLC

\* Daemon ids are only compared for equality.
QueueSymmetry == Permutations(Daemons)
=============================================================================
