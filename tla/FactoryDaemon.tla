---------------------------- MODULE FactoryDaemon ----------------------------
(***************************************************************************)
(* The Factory daemon (internal/factorydaemon) against the store: daemons  *)
(* that hold the lease and take one Work Item at a time through the spine  *)
(* plan -> implement -> merge -> deploy -> verify, their lease renewal and *)
(* approval pollers running beside the loop, and the command line          *)
(* (submit, cancel, approve, reject) running in processes of its own.      *)
(*                                                                         *)
(* An action is one store transaction, one read of the plan file or one    *)
(* run of a target, so every interleaving the program allows is explored.  *)
(***************************************************************************)
EXTENDS FactoryQueue, Sequences

CONSTANTS
  Factory,      \* the factory every process here serves
  Workflow,     \* its spine: a sequence of phase keys beginning with "plan"
  Gated,        \* phases with requires_approval
  DeployPhases, \* the phases deploy.<name>
  AgentMerge,   \* TRUE when the merge lane names an agent template
  Operators,    \* command line invocations that may be in flight at once
  Pollers,      \* daemons configured with an approval provider
  Rejecters,    \* pollers and operators that may reject
  SubmitKeys,   \* dedupe keys (or None) that submissions carry
  EditableIn,   \* lifecycles during which somebody edits the plan file
  Mortal,       \* daemons that may crash or be stopped
  TTL,          \* LeaseTTL
  StoreMayFail  \* TRUE when a store call may return an error

Reviewers == Daemons \cup Operators
Steps == 1 .. Len(Workflow)

ASSUME DaemonAssumption ==
  /\ Factory \in Factories
  /\ Workflow \in Seq(Phases) /\ Len(Workflow) >= 2
  /\ Workflow[1] = "plan" /\ Workflow[2] = "implement"
  /\ \A j, k \in Steps : Workflow[j] = Workflow[k] => j = k
  /\ Gated \subseteq Phases /\ DeployPhases \subseteq Phases
  /\ Pollers \subseteq Daemons /\ Rejecters \subseteq Pollers \cup Operators
  /\ Mortal \subseteq Daemons
  /\ SubmitKeys \subseteq DedupeKeys \cup {None}
  /\ Items \X (1 .. MaxRejections) \subseteq DedupeKeys
  /\ TTL \in Nat
  /\ \/ \A t \in Times : t + TTL \in Times
     \/ \E last \in Times : \A t \in Times : t <= last
  /\ AgentMerge \in BOOLEAN /\ StoreMayFail \in BOOLEAN

VARIABLES
  daemon,    \* by daemon: where processOne is, with what
  lost,      \* by daemon: its renewal goroutine found the lease gone
  plan,      \* by item: hash of the plan file, None when there is none
  ledger,    \* by item: the latest plan ledger record
  reviewer   \* by poller or operator: the decision it is carrying out

daemonVars == <<daemon, lost, plan, ledger, reviewer>>
vars == <<queueVars, daemonVars>>

Working ==
  {"plan", "planning", "planned", "gate", "wait", "enter", "exec", "building",
   "report", "complete", "fail", "failagain"}

DaemonState ==
  [pc : {"off", "idle", "dead"} \cup Working, item : Items \cup {None},
   at : Steps, ok : BOOLEAN, hash : Hashes \cup {None}]

ReviewerState ==
  [pc : {"idle", "listed", "approve", "reject"}, item : Items \cup {None},
   phase : Phases \cup {None}, count : 0 .. MaxRejections, hash : Hashes \cup {None}]

LedgerState ==
  [status : {"none", "pending", "in_progress", "implemented", "failed"},
   hash : Hashes \cup {None}]

TypeOK ==
  /\ QueueTypeOK
  /\ daemon \in [Daemons -> DaemonState]
  /\ lost \in [Daemons -> BOOLEAN]
  /\ plan \in [Items -> Hashes \cup {None}]
  /\ ledger \in [Items -> LedgerState]
  /\ reviewer \in [Reviewers -> ReviewerState]

Free(pc) == [pc |-> pc, item |-> None, at |-> 1, ok |-> TRUE, hash |-> None]
NoDecision == [pc |-> "idle", item |-> None, phase |-> None, count |-> 0, hash |-> None]

Init ==
  /\ QueueInit
  /\ daemon = [d \in Daemons |-> Free("off")]
  /\ lost = [d \in Daemons |-> FALSE]
  /\ plan = [i \in Items |-> None]
  /\ ledger = [i \in Items |-> [status |-> "none", hash |-> None]]
  /\ reviewer = [r \in Reviewers |-> NoDecision]

Alive(d) == daemon[d].pc \notin {"off", "dead"}
Works(d, i) == daemon[d].pc \in Working /\ daemon[d].item = i
Phase(d) == Workflow[daemon[d].at]
At(d, pc) == daemon[d].pc = pc

\* processOne moves on to pc.
Goto(d, pc) == daemon' = [daemon EXCEPT ![d].pc = pc]

\* The statement after phase `at` succeeded: the next gate, or completion.
NextPhase(d) ==
  daemon' = IF daemon[d].at = Len(Workflow)
            THEN [daemon EXCEPT ![d].pc = "complete"]
            ELSE [daemon EXCEPT ![d].pc = "gate", ![d].at = @ + 1]

\* processOne returns to the loop of Start.
Return(d) == daemon' = [daemon EXCEPT ![d] = Free("idle")]

-----------------------------------------------------------------------------
(* The daemon process: Start, the renewal goroutine, shutdown, crash *)

\* now + LeaseTTL; a finite set of Times saturates at its last reading, which
\* every later one then stands for.
Deadline(now) ==
  IF now + TTL \in Times THEN now + TTL
  ELSE CHOOSE last \in Times : \A t \in Times : t <= last

\* A refused lease ends the process before it does anything.
Start(d) ==
  /\ At(d, "off")
  /\ \E now \in Times :
       AcquireFactoryDaemonLease(d, Factory, now, Deadline(now))
  /\ daemon' = [daemon EXCEPT ![d] = Free("idle")]
  /\ UNCHANGED <<lost, plan, ledger, reviewer>>

Renew(d) ==
  /\ Alive(d) /\ ~lost[d]
  /\ \E now \in Times : RenewFactoryDaemonLease(d, Deadline(now))
  /\ UNCHANGED daemonVars

\* The goroutine reports the loss, or the error, and ends; Start reads it once
\* processOne is back, so the daemon goes on working on its item until then.
RenewRefused(d) ==
  /\ Alive(d) /\ ~lost[d]
  /\ leases[d].status # "active" \/ StoreMayFail
  /\ lost' = [lost EXCEPT ![d] = TRUE]
  /\ UNCHANGED <<queueVars, daemon, plan, ledger, reviewer>>

\* Return of Start between two items: the deferred release touches only a
\* lease that still reads active, and the poller is stopped.
Stop(d) ==
  /\ At(d, "idle")
  /\ lost[d] \/ d \in Mortal
  /\ IF leases[d].status = "active"
     THEN ReleaseFactoryDaemonLease(d)
     ELSE UNCHANGED queueVars
  /\ daemon' = [daemon EXCEPT ![d] = Free("dead")]
  /\ reviewer' = [reviewer EXCEPT ![d] = NoDecision]
  /\ UNCHANGED <<lost, plan, ledger>>

\* The process dies; what it held in memory is gone, its rows stay.
Crash(d) ==
  /\ d \in Mortal /\ Alive(d)
  /\ daemon' = [daemon EXCEPT ![d] = Free("dead")]
  /\ reviewer' = [reviewer EXCEPT ![d] = NoDecision]
  /\ UNCHANGED <<queueVars, lost, plan, ledger>>

-----------------------------------------------------------------------------
(* processOne *)

Claim(d) ==
  /\ At(d, "idle")
  /\ \E now \in Times, i \in Items :
       /\ ClaimNextFactoryWorkItem(Factory, d, now, i)
       /\ daemon' = [daemon EXCEPT ![d] = [Free("plan") EXCEPT !.item = i]]
  /\ UNCHANGED <<lost, plan, ledger, reviewer>>

\* runPlanPhase: a plan file that is already there is kept.  Every resumption
\* after a gate comes through here again.
PlanPhase(d) ==
  /\ At(d, "plan")
  /\ LET i == daemon[d].item IN
       IF plan[i] # None
       THEN UpdateFactoryWorkItemPhase(i, "plan", "skipped") /\ Goto(d, "gate")
       ELSE UpdateFactoryWorkItemPhase(i, "plan", "running") /\ Goto(d, "planning")
  /\ UNCHANGED <<lost, plan, ledger, reviewer>>

\* The planner target writes the plan, or fails, or its output is not copied.
RunPlanner(d) ==
  /\ At(d, "planning")
  /\ \/ /\ \E hash \in Hashes : plan' = [plan EXCEPT ![daemon[d].item] = hash]
        /\ Goto(d, "planned")
     \/ plan' = plan /\ Goto(d, "fail")
  /\ UNCHANGED <<queueVars, lost, ledger, reviewer>>

PlanSucceeded(d) ==
  /\ At(d, "planned")
  /\ UpdateFactoryWorkItemPhase(daemon[d].item, "plan", "succeeded")
  /\ Goto(d, "gate")
  /\ UNCHANGED <<lost, plan, ledger, reviewer>>

\* The approval that findApproval returns for phase p of item i.
ApprovalOf(i, p) == CHOOSE a \in approvals : a.item = i /\ a.phase = p

\* The plan gate comes after the planner, every other gate before its target.
PassGate(d) ==
  IF Phase(d) = "plan" THEN NextPhase(d) ELSE Goto(d, "enter")

\* Slip: the plan gate takes any recorded approval, of whatever text.
GateWithoutHash(d) ==
  /\ At(d, "gate")
  /\ IF Phase(d) \in Gated /\ ~Approved(daemon[d].item, Phase(d))
     THEN Goto(d, "wait") ELSE PassGate(d)
  /\ UNCHANGED <<queueVars, lost, plan, ledger, reviewer>>

\* Slip: an item approved once is let through its later gates.
GateApprovedOnce(d) ==
  /\ At(d, "gate")
  /\ IF Phase(d) \in Gated /\ \A a \in approvals : a.item # daemon[d].item
     THEN Goto(d, "wait") ELSE PassGate(d)
  /\ UNCHANGED <<queueVars, lost, plan, ledger, reviewer>>

\* ensurePlanApproval, ensureImplementApproval, ensureMergeApproval and
\* ensureDeployApproval.  The plan gate compares the approved hash with the
\* file as it is now, and a mismatch fails the item twice over: once in
\* ensurePlanApproval, once more in processOne.
Gate(d) ==
  /\ At(d, "gate")
  /\ LET i == daemon[d].item
         p == Phase(d)
     IN CASE p \notin Gated -> PassGate(d)
          [] p \in Gated /\ ~Approved(i, p) -> Goto(d, "wait")
          [] p \in Gated /\ Approved(i, p) ->
               IF p = "plan" /\ ApprovalOf(i, p).plan_hash # plan[i]
               THEN Goto(d, "failagain")
               ELSE PassGate(d)
  /\ UNCHANGED <<queueVars, lost, plan, ledger, reviewer>>

\* waitForApproval: the pause is recorded and the item let go.
WaitForApproval(d) ==
  /\ At(d, "wait")
  /\ UpdateFactoryWorkItemPhase(daemon[d].item, Phase(d), "waiting_approval")
  /\ Return(d)
  /\ UNCHANGED <<lost, plan, ledger, reviewer>>

\* runMergeAgentPhase writes no phase row; the other phases begin with one.
RecordsPhase(p) == ~(p = "merge" /\ AgentMerge)

EnterPhase(d) ==
  /\ At(d, "enter")
  /\ IF RecordsPhase(Phase(d))
     THEN UpdateFactoryWorkItemPhase(daemon[d].item, Phase(d), "running")
     ELSE UNCHANGED queueVars
  /\ Goto(d, "exec")
  /\ UNCHANGED <<lost, plan, ledger, reviewer>>

\* planexecute.Implement reads the plan file anew and takes whatever text is
\* there.  It returns at once when the plan is invalid, has no template or
\* depends on unfinished plans, and, without an error, when it is already
\* implemented at this hash.  Otherwise the ledger says pending, then
\* in_progress, before the agent runs.
StartImplement(d) ==
  /\ At(d, "exec") /\ Phase(d) = "implement"
  /\ LET i == daemon[d].item
         done == ledger[i] = [status |-> "implemented", hash |-> plan[i]]
     IN \/ /\ \E ok \in BOOLEAN :
               /\ ok => done
               /\ daemon' = [daemon EXCEPT ![d].pc = "report", ![d].ok = ok]
          /\ UNCHANGED ledger
       \/ /\ ~done
          /\ daemon' = [daemon EXCEPT ![d].pc = "building", ![d].hash = plan[i]]
          /\ ledger' = [ledger EXCEPT ![i] =
                          [status |-> "in_progress", hash |-> plan[i]]]
       \/ /\ ~done /\ StoreMayFail
          /\ daemon' = [daemon EXCEPT ![d].pc = "report", ![d].ok = FALSE]
          /\ ledger' = [ledger EXCEPT ![i] = [status |-> "pending", hash |-> plan[i]]]
  /\ UNCHANGED <<queueVars, lost, plan, reviewer>>

FinishImplement(d) ==
  /\ At(d, "building")
  /\ \E ok \in BOOLEAN :
       /\ daemon' = [daemon EXCEPT ![d].pc = "report", ![d].ok = ok]
       /\ ledger' = [ledger EXCEPT ![daemon[d].item] =
                       [status |-> IF ok THEN "implemented" ELSE "failed",
                        hash |-> daemon[d].hash]]
  /\ UNCHANGED <<queueVars, lost, plan, reviewer>>

\* The merge, deploy or verify target runs and succeeds or fails.
RunTarget(d) ==
  /\ At(d, "exec") /\ Phase(d) # "implement"
  /\ \E ok \in BOOLEAN :
       IF RecordsPhase(Phase(d))
       THEN daemon' = [daemon EXCEPT ![d].pc = "report", ![d].ok = ok]
       ELSE IF ok THEN NextPhase(d) ELSE Goto(d, "fail")
  /\ UNCHANGED <<queueVars, lost, plan, ledger, reviewer>>

\* Slip: the failed phase is recorded, and processOne just returns the error.
ReportPhaseAndReturn(d) ==
  /\ At(d, "report")
  /\ UpdateFactoryWorkItemPhase(daemon[d].item, Phase(d),
       IF daemon[d].ok THEN "succeeded" ELSE "failed")
  /\ IF daemon[d].ok THEN NextPhase(d) ELSE Return(d)
  /\ UNCHANGED <<lost, plan, ledger, reviewer>>

ReportPhase(d) ==
  /\ At(d, "report")
  /\ UpdateFactoryWorkItemPhase(daemon[d].item, Phase(d),
       IF daemon[d].ok THEN "succeeded" ELSE "failed")
  /\ IF daemon[d].ok THEN NextPhase(d) ELSE Goto(d, "fail")
  /\ UNCHANGED <<lost, plan, ledger, reviewer>>

Complete(d) ==
  /\ At(d, "complete")
  /\ CompleteFactoryWorkItem(daemon[d].item)
  /\ Return(d)
  /\ UNCHANGED <<lost, plan, ledger, reviewer>>

\* failItem; its own error is dropped.
FailItem(d) ==
  /\ At(d, "fail") \/ At(d, "failagain")
  /\ FailFactoryWorkItem(daemon[d].item, "phase")
  /\ IF At(d, "failagain") THEN Goto(d, "fail") ELSE Return(d)
  /\ UNCHANGED <<lost, plan, ledger, reviewer>>

\* A store call that returns an error.  A phase write that fails sends the item
\* to failItem; an error of failItem or CompleteWorkItem itself goes nowhere.
StoreError(d) ==
  /\ StoreMayFail
  /\ \/ daemon[d].pc \in {"plan", "planned", "wait", "report"} /\ Goto(d, "fail")
     \/ At(d, "enter") /\ RecordsPhase(Phase(d)) /\ Goto(d, "fail")
     \/ At(d, "gate") /\ Phase(d) \in Gated /\ Goto(d, "failagain")
     \/ At(d, "failagain") /\ Goto(d, "fail")
     \/ daemon[d].pc \in {"fail", "complete"} /\ Return(d)
     \/ /\ At(d, "building")
        /\ daemon' = [daemon EXCEPT ![d].pc = "report", ![d].ok = FALSE]
  /\ UNCHANGED <<queueVars, lost, plan, ledger, reviewer>>

DaemonStep(d) ==
  \/ Claim(d) \/ PlanPhase(d) \/ RunPlanner(d) \/ PlanSucceeded(d)
  \/ Gate(d) \/ WaitForApproval(d) \/ EnterPhase(d)
  \/ StartImplement(d) \/ FinishImplement(d) \/ RunTarget(d) \/ ReportPhase(d)
  \/ Complete(d) \/ FailItem(d)

DaemonNext ==
  \E d \in Daemons :
    \/ Start(d) \/ Renew(d) \/ RenewRefused(d) \/ Stop(d) \/ Crash(d)
    \/ DaemonStep(d) \/ StoreError(d)

-----------------------------------------------------------------------------
(* Decisions: the approval poller of a daemon and the command line *)

Decide(r, pc) == reviewer' = [reviewer EXCEPT ![r].pc = pc]

\* A poller works through a batch with the list it read once; a command ends.
Decided(r) ==
  reviewer' = [reviewer EXCEPT ![r] =
                 IF r \in Pollers THEN [@ EXCEPT !.pc = "listed", !.hash = None]
                 ELSE NoDecision]

\* approvalPoller.poll lists the waiting items once for all records it was
\* sent, `bach factory reject` gets its item: what they keep is this copy.
ListWaiting(r) ==
  /\ reviewer[r].pc = "idle"
  /\ r \in Pollers => Alive(r)
  /\ r \in Pollers \cup (Rejecters \cap Operators)
  /\ \E i \in Items :
       /\ items[i].lifecycle = "waiting_approval"
       /\ reviewer' = [reviewer EXCEPT ![r] =
            [pc |-> "listed", item |-> i, phase |-> items[i].current_phase,
             count |-> items[i].rejection_count, hash |-> None]]
  /\ UNCHANGED <<queueVars, daemon, lost, plan, ledger>>

EndBatch(r) ==
  /\ reviewer[r].pc = "listed"
  /\ reviewer' = [reviewer EXCEPT ![r] = NoDecision]
  /\ UNCHANGED <<queueVars, daemon, lost, plan, ledger>>

\* The evidence of a plan approval is the hash of the file at this moment.
Evidence(i, p) == IF p = "plan" THEN plan[i] ELSE None

\* approveOptions, on the copy of the list.
BeginProviderApproval(r) ==
  /\ reviewer[r].pc = "listed" /\ r \in Pollers
  /\ reviewer[r].phase \in Gated
  /\ reviewer[r].phase = "plan" => plan[reviewer[r].item] # None
  /\ reviewer' = [reviewer EXCEPT ![r].pc = "approve",
                    ![r].hash = Evidence(reviewer[r].item, reviewer[r].phase)]
  /\ UNCHANGED <<queueVars, daemon, lost, plan, ledger>>

\* The gates `bach factory approve` accepts: for any other phase it answers
\* "phase %q cannot be approved".
CliApprovable == Gated \cap ({"plan"} \cup DeployPhases)

\* approveFactory: the item may be in any state when the operator types.
BeginCliApproval(r, i, p) ==
  /\ reviewer[r].pc = "idle" /\ r \in Operators
  /\ p \in CliApprovable
  /\ items[i].lifecycle # "none"
  /\ p = "plan" => plan[i] # None
  /\ reviewer' = [reviewer EXCEPT ![r] =
       [pc |-> "approve", item |-> i, phase |-> p, count |-> 0,
        hash |-> Evidence(i, p)]]
  /\ UNCHANGED <<queueVars, daemon, lost, plan, ledger>>

\* factory.Service.Approve: recorded, found already recorded, or refused.
Approve(r) ==
  /\ reviewer[r].pc = "approve"
  /\ LET i == reviewer[r].item
         p == reviewer[r].phase
     IN \/ RecordFactoryApproval(i, p, reviewer[r].hash)
        \/ /\ Approved(i, p) \/ items[i].lifecycle # "waiting_approval"
                 \/ items[i].current_phase # p
           /\ UNCHANGED queueVars
  /\ Decided(r)
  /\ UNCHANGED <<daemon, lost, plan, ledger>>

\* Slip: the retry goes in under the key of the item it retries.
RetryUnderOwnKey(i, count) == items[i].dedupe_key

\* factory|rejection-retry|workflow|rejection|<item>#<count + 1>
RetryKey(i, count) == <<i, count + 1>>

\* rejectItem and Service.Reject, first half: the retry is enqueued under a key
\* that names the rejection.  An open retry that says something else cannot be
\* refreshed (FactoryIntake shows why): the error ends the rejection here.
EnqueueRetry(r) ==
  /\ reviewer[r].pc = "listed" /\ r \in Rejecters
  /\ reviewer[r].count < MaxRejections
  /\ LET i == reviewer[r].item
         key == RetryKey(i, reviewer[r].count)
     IN \E reason \in Revisions :
          \/ /\ \E j \in Items :
                  EnqueueFactoryWorkItem(j,
                    [factory |-> Factory, dedupe_key |-> key,
                     priority |-> items[i].priority, revision |-> reason,
                     rejection_count |-> reviewer[r].count + 1, retry_of |-> i])
             /\ Decide(r, "reject")
          \/ /\ OpenWithKey(key) # {}
             /\ UNCHANGED queueVars
             /\ IF \E j \in OpenWithKey(key) :
                     items[j].lifecycle = "pending" /\ items[j].revision # reason
                THEN Decided(r)
                ELSE Decide(r, "reject")
  /\ UNCHANGED <<daemon, lost, plan, ledger>>

\* Second half, or the whole of it once the rejections are exhausted: the item
\* is failed as it is in the copy, whatever has become of it in the store.
FailRejected(r) ==
  /\ \/ reviewer[r].pc = "reject" /\ FailFactoryWorkItem(reviewer[r].item, "rejected")
     \/ /\ reviewer[r].pc = "listed" /\ r \in Rejecters
        /\ reviewer[r].count >= MaxRejections
        /\ FailFactoryWorkItem(reviewer[r].item, "exhausted")
  /\ Decided(r)
  /\ UNCHANGED <<daemon, lost, plan, ledger>>

ReviewNext ==
  \E r \in Reviewers :
    \/ ListWaiting(r) \/ EndBatch(r) \/ BeginProviderApproval(r)
    \/ \E i \in Items, p \in Phases : BeginCliApproval(r, i, p)
    \/ Approve(r) \/ EnqueueRetry(r) \/ FailRejected(r)

-----------------------------------------------------------------------------
(* Submission, cancellation, and people editing plan files *)

Submit(i) ==
  /\ \E key \in SubmitKeys, priority \in Priorities, revision \in Revisions :
       EnqueueFactoryWorkItem(i,
         [factory |-> Factory, dedupe_key |-> key, priority |-> priority,
          revision |-> revision, rejection_count |-> 0, retry_of |-> None])
  /\ UNCHANGED daemonVars

Cancel(i) == CancelFactoryWorkItem(i) /\ UNCHANGED daemonVars

EditPlan(i) ==
  /\ items[i].lifecycle \in EditableIn /\ plan[i] # None
  /\ \E hash \in Hashes \ {plan[i]} : plan' = [plan EXCEPT ![i] = hash]
  /\ UNCHANGED <<queueVars, daemon, lost, ledger, reviewer>>

UserNext == \E i \in Items : Submit(i) \/ Cancel(i) \/ EditPlan(i)

Next == DaemonNext \/ ReviewNext \/ UserNext

Spec == Init /\ [][Next]_vars

\* The daemon loop polls periodically and a target it runs returns, so a daemon
\* that can take its next step eventually takes it.
DaemonFairness == \A d \in Daemons : WF_vars(Start(d)) /\ WF_vars(DaemonStep(d))

\* An operator who keeps trying to approve whatever may be approved.
OperatorFairness ==
  \A r \in Operators :
    /\ WF_vars(Approve(r))
    /\ \A i \in Items, p \in CliApprovable : SF_vars(BeginCliApproval(r, i, p))

FairSpec == Spec /\ DaemonFairness /\ OperatorFairness

-----------------------------------------------------------------------------
\* However leases lapse and are taken over, daemons crash, approvals and
\* rejections race: two daemons never work on one item.  Nothing in the store
\* fences the calls of a daemon that lost its lease (UpdateFactoryWorkItemPhase
\* and finish look at no owner); this rests on claims alone.
OneWorkerPerItem ==
  \A d, e \in Daemons, i \in Items : Works(d, i) /\ Works(e, i) => d = e

\* The states of the queue, the daemons and the decisions are well-formed, and no item
\* has two workers (processOne, ClaimNextFactoryWorkItem).
WorkersAreApart == TypeOK /\ OneWorkerPerItem

\* An item that reads claimed or running has a daemon at work on it, the one
\* that claimed it, or that daemon died over it.  There is no reclaiming, so an
\* item left behind by any path through processOne would be stuck for good.
NoAbandonedItem ==
  \A i \in Items : items[i].lifecycle \in {"claimed", "running"} =>
    \E d \in Daemons :
      items[i].claimed_by = d /\ (Works(d, i) \/ daemon[d].pc = "dead")

\* "Dedupe must match every unfinished lifecycle" (findOpenFactoryWorkItemByDedupe):
\* at most one unfinished item per factory, workflow and dedupe key.
OneOpenItemPerKey ==
  \A i, j \in Items :
    /\ {items[i].lifecycle, items[j].lifecycle} \subseteq Open
    /\ items[i].dedupe_key = items[j].dedupe_key
    /\ items[i].dedupe_key # None
    => i = j

\* An item that completed, failed or was cancelled stays so: "stale daemons,
\* duplicate commands, or delayed approvals cannot overwrite newer state".
ClosedIsFinal ==
  [][\A i \in Items :
       items[i].lifecycle \in Closed => items'[i].lifecycle = items[i].lifecycle]_vars

\* Who works on an item, as WorkItemLifecycle sees it.
WorkerOf(i) ==
  IF \E d \in Daemons : Works(d, i) THEN CHOOSE d \in Daemons : Works(d, i) ELSE None

Lifecycle == INSTANCE WorkItemLifecycle WITH
  Workers <- Daemons, Nobody <- None,
  state <- [i \in Items |-> items[i].lifecycle],
  worker <- [i \in Items |-> WorkerOf(i)]

\* The daemons, the pollers and the command line together are a queue with
\* exclusive workers, whatever crashes or is taken over meanwhile, as long as
\* nobody rejects (processOne, ClaimNextFactoryWorkItem, finish).
ImplementsLifecycle == Lifecycle!Spec

\* With a gate on the plan, the text given to the implementer is a text that was
\* approved, however often it is edited and the item resumed (ensurePlanApproval).
ApprovedPlanOnly ==
  "plan" \in Gated =>
    \A i \in Items : ledger[i].status # "none" =>
      \E a \in approvals :
        a.item = i /\ a.phase = "plan" /\ a.plan_hash = ledger[i].hash

\* No gated phase has run without an approval of its own (processOne).
GatesHold ==
  \A i \in Items, p \in Gated \ {"plan"} :
    phases[i][p] \in {"running", "succeeded", "failed"} => Approved(i, p)

\* "completed: all configured workflow phases succeeded".
CompletedInFull ==
  \A i \in Items, k \in Steps :
    items[i].lifecycle = "completed" /\ RecordsPhase(Workflow[k]) =>
      phases[i][Workflow[k]] \in {"succeeded", "skipped"}

\* Merge, deploy and verify targets run only on a plan that the ledger says is
\* implemented, on the first pass and on every resumption after a later gate.
ShipsOnlyImplemented ==
  \A d \in Daemons :
    At(d, "exec") /\ daemon[d].at > 2 =>
      ledger[daemon[d].item].status = "implemented"

\* From gate to deployment the text stays the same: what is implemented was approved,
\* what is shipped was implemented (processOne, ensurePlanApproval, Implement).
ShipsWhatWasApproved == ApprovedPlanOnly /\ ShipsOnlyImplemented

\* An item failed by a rejection that had retries left has its retry in the
\* queue, or had: a crash between the two calls loses neither (rejectItem).
RejectedHasRetry ==
  \A i \in Items : items[i].failure = "rejected" =>
    \E j \in Items : items[j].retry_of = i

\* What is said to be over is: an item completes with every phase behind it, and one that
\* is given up for a rejection goes on as its retry (processOne, rejectItem).
EndsAreSound == CompletedInFull /\ RejectedHasRetry

\* "Rejections are idempotent and redelivery safe": one retry per rejection.
OneRetryPerRejection ==
  \A i, j \in Items :
    items[i].retry_of # None /\ items[i].retry_of = items[j].retry_of => i = j

\* "Records are applied only to Work Items currently in waiting_approval".
RejectionsHitWaitingItems ==
  [][\A i \in Items :
       items[i].failure # "rejected" /\ items'[i].failure = "rejected" =>
         items[i].lifecycle = "waiting_approval"]_vars

\* A merge, deploy or verify target that succeeded is not run again: "resume approved work item
\* from the gated phase".
SucceededPhasesStay ==
  [][\A i \in Items, p \in Phases \ {"plan", "implement"} :
       phases[i][p] = "succeeded" => phases'[i][p] # "running"]_vars

\* "ensureImplementApproval gates the transition from implement to merge".
ImplementGateFollowsImplement ==
  \A i \in Items :
    items[i].lifecycle = "waiting_approval" /\ items[i].current_phase = "implement" =>
      ledger[i].status = "implemented"

\* Every submitted item is eventually completed, failed or cancelled.
ItemsSettle ==
  \A i \in Items : items[i].lifecycle = "pending" ~> items[i].lifecycle \in Closed

\* Nobody waits at a gate for ever while an operator approves what may be
\* approved.
GatesOpen ==
  \A i \in Items :
    items[i].lifecycle = "waiting_approval" ~> items[i].lifecycle # "waiting_approval"
=============================================================================
