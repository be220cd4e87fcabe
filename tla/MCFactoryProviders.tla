---------------------------- MODULE MCFactoryProviders ----------------------------
(* The trigger by itself, and the approval provider with items that it took in *)
(* before, each small enough for liveness.                                     *)
EXTENDS PullApprovals
CONSTANTS b1, b2, b3, p

IntakeKeys == Issues \X Workflows

\* Every text is routed to the only workflow.
RouteAll == [r \in Revisions |-> "wf"]

ServedPhases == <<"plan", "deploy.staging">>

\* Issues 1 and 2 have become items 1 and 2, which are at work on their plans.
AtWork(i) ==
  [NoItem EXCEPT !.factory = Factory, !.lifecycle = "running", !.current_phase = "plan",
     !.dedupe_key = <<i, "wf">>, !.revision = b1, !.attempt = "pending"]
TakenIn12 ==
  /\ leases = [d \in Daemons |-> NoLease] /\ approvals = {}
  /\ items = [i \in Items |-> IF i \in {1, 2} THEN AtWork(i) ELSE NoItem]
  /\ phases = [i \in Items |-> [f \in Phases |-> IF i \in {1, 2} /\ f = "plan" THEN "running" ELSE "none"]]
  /\ clock = 0 /\ cursor = 0
  /\ issues = [x \in Issues |-> [updated |-> 0, revision |-> None]]
  /\ poller = [x \in Pollers |-> Idle]

MCInit ==
  /\ PullStart
  /\ IF Configured THEN TakenIn12 ELSE IntakeInit

\* A pull request by its marker or by its branch, or by neither.
Usual(pull) ==
  <<pull.marker, pull.head>> \in {<<1, <<None, "prefixed">>>>, <<None, <<2, "plan">>>>, <<None, <<1, "merge">>>>}

\* Nobody speaks before it is ready or after it is closed.
InTheOpen(x) ==
  /\ pulls'[x].state = "draft" => pulls'[x].voices = <<>>
  /\ pulls[x].state = "closed" => pulls[x] = pulls'[x]

MCNext ==
  /\ PullNext
  /\ Configured => UNCHANGED <<issues, poller>>
  /\ \A x \in Pulls : pulls[x] = pulls'[x] \/ (Usual(pulls'[x]) /\ InTheOpen(x))

\* Each world's own poller, and the daemon's loop that takes what is pending.
MCSpec ==
  /\ MCInit /\ [][MCNext]_approvalVars /\ AsksForEver
  /\ \A q \in Pollers : WF_approvalVars(~Configured /\ Poll(q) /\ UNCHANGED pullVars)
  /\ WF_approvalVars((\E i \in Items : Take(i)) /\ UNCHANGED pullVars)
=============================================================================
