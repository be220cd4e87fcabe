---------------------------- MODULE MCFactoryIntake ----------------------------
(* Model values and routes for model-checking FactoryIntake. *)
EXTENDS FactoryIntake
CONSTANTS b1, b2, b3, p, q

IntakeKeys == Issues \X Workflows

\* Every text is routed to the only workflow.
RouteAll == [r \in Revisions |-> "wf"]

\* Texts that are routed alike and pollers are interchangeable.
IntakeSymmetry == Permutations({b1, b2}) \cup Permutations({p, q})

\* Text b3 carries no label the trigger routes by.
RouteSome == [r \in Revisions |-> IF r = b3 THEN None ELSE "wf"]
=============================================================================
