----------------------------- MODULE MCPlanBatch -----------------------------
(* Plans are interchangeable.                                                *)
EXTENDS PlanBatch, TLC

PlanSymmetry == Permutations(Plans)
=============================================================================
