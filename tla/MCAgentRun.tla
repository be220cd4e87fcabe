------------------------------ MODULE MCAgentRun ------------------------------
(* Two reviewers, who are interchangeable.                                  *)
EXTENDS AgentRun, TLC

AgentSymmetry == Permutations(Reviewers)
=============================================================================
