------------------------------ MODULE MCTargetRun ------------------------------
(* Two attempts with and without retries of failed gates, or one; either   *)
(* kind of backend.                                                        *)
EXTENDS TargetRun, TLC

Retrying == [attempts |-> 2, on_gate |-> TRUE, provider |-> FALSE]
MCBachfiles == {Retrying, [Retrying EXCEPT !.on_gate = FALSE, !.provider = TRUE],
                [Retrying EXCEPT !.attempts = 1]}

\* Invocations and the contents of inputs are interchangeable.
RunSymmetry == Permutations(Runs) \cup Permutations(Versions)
=============================================================================
