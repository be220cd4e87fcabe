--------------------------- MODULE MCFactoryDaemon ---------------------------
(* Model-checking instances of the daemon: MCFactoryDaemon*.cfg.           *)
EXTENDS FactoryDaemon, TLC

MCSpine == <<"plan", "implement", "deploy.production">>
MCShortSpine == <<"plan", "implement">>
MCGatedSpine == <<"plan", "implement", "merge">>
MCMergeSpine == <<"plan", "implement", "merge", "deploy.production">>

\* The dedupe key of one external issue, and those of its rejections.
CONSTANT Issue

MCKeys == {Issue} \cup (Items \X (1 .. MaxRejections))

\* Daemon ids are only compared for equality.
DaemonSymmetry == Permutations(Daemons)
=============================================================================
