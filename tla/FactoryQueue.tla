---------------------------- MODULE FactoryQueue ----------------------------
(***************************************************************************)
(* The Factory tables of the local store (internal/state): daemon leases,  *)
(* Work Items with their single attempt, phase rows and approvals.  Every  *)
(* method of state.Store is one SQLite transaction on one connection, so   *)
(* each is one action here.  A method that returns an error rolls back: it *)
(* is the action not being taken.                                          *)
(*                                                                         *)
(* The store trusts its callers' clocks: every call carries its own "now", *)
(* an arbitrary member of Times, so hosts may disagree about the time.     *)
(* QueueSpec lets any client make any call at any time; FactoryDaemon      *)
(* restricts the calls to those the daemon, the approval provider and the  *)
(* command line make.                                                      *)
(***************************************************************************)
EXTENDS Naturals, FiniteSets

CONSTANTS
  Factories,     \* names of factories
  Daemons,       \* daemon ids; every start of a daemon draws a fresh one
  Items,         \* work item ids, numbered in claim order (created_at, id)
  Phases,        \* phase keys of the workflows: plan, implement, ...
  Priorities,    \* ranks of the priorities, 0 is urgent
  DedupeKeys,    \* dedupe keys, each standing for (factory, workflow, key)
  Revisions,     \* contents of a work item: title, body, labels
  Hashes,        \* hashes of plan texts
  Times,         \* readings of the clocks of the hosts
  MaxRejections, \* rejections a work item's chain of retries survives
  None           \* the empty string: no factory, daemon, phase, key or hash

ASSUME QueueAssumption ==
  /\ Items \subseteq Nat /\ Priorities \subseteq Nat /\ Times \subseteq Nat
  /\ Times # {} /\ Priorities # {}
  /\ "plan" \in Phases
  /\ MaxRejections \in Nat
  /\ None \notin Factories /\ None \notin Daemons /\ None \notin Items
  /\ None \notin DedupeKeys /\ None \notin Hashes

VARIABLES
  leases,     \* factory_daemon_leases, by daemon id
  items,      \* factory_work_items and factory_work_item_attempts, by item id
  phases,     \* factory_work_item_phases: status of each phase row
  approvals   \* factory_work_item_approvals

queueVars == <<leases, items, phases, approvals>>

LeaseStatuses == {"none", "active", "expired", "released"}
Open == {"pending", "claimed", "running", "waiting_approval"}
Closed == {"completed", "failed", "cancelled"}
AttemptStatuses == {"none", "pending", "completed", "failed", "cancelled"}
\* failure_phase and failure_message, as far as anything depends on them.
Failures == {"none", "phase", "rejected", "exhausted"}
PhaseStatuses ==
  {"none", "running", "skipped", "succeeded", "failed", "waiting_approval"}

Lease == [factory : Factories \cup {None}, status : LeaseStatuses, expires_at : Times]

WorkItem ==
  [factory         : Factories \cup {None},
   lifecycle       : {"none"} \cup Open \cup Closed,
   current_phase   : Phases \cup {None},
   dedupe_key      : DedupeKeys \cup {None},
   priority        : Priorities,
   revision        : Revisions \cup {None},
   claimed_by      : Daemons \cup {None},
   attempt         : AttemptStatuses,
   failure         : Failures,
   rejection_count : 0 .. MaxRejections,
   retry_of        : Items \cup {None}]

Approval == [item : Items, phase : Phases, plan_hash : Hashes \cup {None}]

QueueTypeOK ==
  /\ leases \in [Daemons -> Lease]
  /\ items \in [Items -> WorkItem]
  /\ phases \in [Items -> [Phases -> PhaseStatuses]]
  /\ approvals \subseteq Approval

NoLease == [factory |-> None, status |-> "none", expires_at |-> CHOOSE t \in Times : TRUE]

NoItem ==
  [factory |-> None, lifecycle |-> "none", current_phase |-> None,
   dedupe_key |-> None, priority |-> CHOOSE p \in Priorities : TRUE,
   revision |-> None, claimed_by |-> None, attempt |-> "none",
   failure |-> "none", rejection_count |-> 0, retry_of |-> None]

QueueInit ==
  /\ leases = [d \in Daemons |-> NoLease]
  /\ items = [i \in Items |-> NoItem]
  /\ phases = [i \in Items |-> [p \in Phases |-> "none"]]
  /\ approvals = {}

-----------------------------------------------------------------------------
(* Leases *)

\* A row that still reads active, whatever its expiry.
ActiveFor(d, f) == leases[d].status = "active" /\ leases[d].factory = f

\* What getActiveFactoryDaemonLease and the claim query accept at time now.
Holds(d, f, now) == ActiveFor(d, f) /\ leases[d].expires_at > now

\* expireFactoryDaemonLeases: the table once the overdue rows of f are expired.
ExpireFactoryDaemonLeases(f, now) ==
  [d \in Daemons |->
     IF ActiveFor(d, f) /\ leases[d].expires_at <= now
     THEN [leases[d] EXCEPT !.status = "expired"]
     ELSE leases[d]]

\* Start of a daemon.  Fails while another daemon's lease is in force.
AcquireFactoryDaemonLease(d, f, now, expiresAt) ==
  /\ \A other \in Daemons \ {d} : ~Holds(other, f, now)
  /\ leases' = [ExpireFactoryDaemonLeases(f, now) EXCEPT ![d] =
                  [factory |-> f, status |-> "active", expires_at |-> expiresAt]]
  /\ UNCHANGED <<items, phases, approvals>>

\* Slip: renewing any row the daemon ever had, taken over or not.
RenewAnyLease(d, expiresAt) ==
  /\ leases[d].status # "none"
  /\ leases' = [leases EXCEPT ![d] = [@ EXCEPT !.expires_at = expiresAt, !.status = "active"]]
  /\ UNCHANGED <<items, phases, approvals>>

\* Renewal looks at the status only: an overdue lease nobody took is revived.
RenewFactoryDaemonLease(d, expiresAt) ==
  /\ leases[d].status = "active"
  /\ leases' = [leases EXCEPT ![d].expires_at = expiresAt]
  /\ UNCHANGED <<items, phases, approvals>>

ReleaseFactoryDaemonLease(d) ==
  /\ leases[d].status = "active"
  /\ leases' = [leases EXCEPT ![d].status = "released"]
  /\ UNCHANGED <<items, phases, approvals>>

-----------------------------------------------------------------------------
(* Work Items *)

\* findFactoryApprovalTx and the claim query: an approval of phase p of item i.
\* A Work Item has exactly one attempt, so the item stands for the attempt.
Approved(i, p) == \E a \in approvals : a.item = i /\ a.phase = p

\* Slip: items that read claimed or running are offered too, so that those of a
\* dead daemon are resumed.
ClaimableWhoeverHasIt(i, f) ==
  /\ items[i].factory = f
  /\ items[i].lifecycle \in {"pending", "claimed", "running"}

\* Slip: an item that was approved is not offered again.
ClaimableWhenPending(i, f) ==
  items[i].factory = f /\ items[i].lifecycle = "pending"

Claimable(i, f) ==
  /\ items[i].factory = f
  /\ \/ items[i].lifecycle = "pending"
     \/ /\ items[i].lifecycle = "waiting_approval"
        /\ Approved(i, items[i].current_phase)

\* ORDER BY priority, created_at, id
Before(i, j) ==
  \/ items[i].priority < items[j].priority
  \/ items[i].priority = items[j].priority /\ i < j

ClaimNextFactoryWorkItem(f, d, now, i) ==
  /\ Holds(d, f, now)
  /\ Claimable(i, f)
  /\ \A j \in Items \ {i} : Claimable(j, f) => Before(i, j)
  /\ items' = [items EXCEPT ![i] = [@ EXCEPT !.lifecycle = "claimed", !.claimed_by = d]]
  /\ UNCHANGED <<leases, phases, approvals>>

\* Slip: a gate that forgets to clear the claim.
UpdatePhaseKeepingClaim(i, p, status) ==
  /\ items[i].lifecycle # "none"
  /\ phases' = [phases EXCEPT ![i][p] = status]
  /\ items' = IF status \in {"running", "waiting_approval"}
              THEN [items EXCEPT ![i] = [@ EXCEPT !.lifecycle = status, !.current_phase = p]]
              ELSE items
  /\ UNCHANGED <<leases, approvals>>

\* Upserts the phase row; "running" and "waiting_approval" also move the item,
\* whatever its lifecycle and whoever asks.
UpdateFactoryWorkItemPhase(i, p, status) ==
  /\ items[i].lifecycle # "none"
  /\ phases' = [phases EXCEPT ![i][p] = status]
  /\ \/ /\ status = "running"
        /\ items' = [items EXCEPT ![i] =
                       [@ EXCEPT !.lifecycle = "running", !.current_phase = p]]
     \/ /\ status = "waiting_approval"
        /\ items' = [items EXCEPT ![i] =
                       [@ EXCEPT !.lifecycle = "waiting_approval", !.current_phase = p,
                                 !.claimed_by = None]]
     \/ status \notin {"running", "waiting_approval"} /\ UNCHANGED items
  /\ UNCHANGED <<leases, approvals>>

\* Complete and Fail: neither the lifecycle nor the owner is looked at, and
\* claimed_by_daemon_id is left as it is.
FinishFactoryWorkItem(i, lifecycle, failure) ==
  /\ items[i].lifecycle # "none"
  /\ items' = [items EXCEPT ![i] = [@ EXCEPT !.lifecycle = lifecycle, !.current_phase = None,
                                             !.attempt = lifecycle, !.failure = failure]]
  /\ UNCHANGED <<leases, phases, approvals>>

CompleteFactoryWorkItem(i) == FinishFactoryWorkItem(i, "completed", "none")
FailFactoryWorkItem(i, cause) == FinishFactoryWorkItem(i, "failed", cause)

\* Slip: the lifecycle is not looked at.
CancelAnyItem(i) ==
  /\ items[i].lifecycle # "none"
  /\ items' = [items EXCEPT ![i] = [@ EXCEPT !.lifecycle = "cancelled", !.attempt = "cancelled"]]
  /\ UNCHANGED <<leases, phases, approvals>>

\* Cancelling a cancelled item changes nothing and is not an action.
CancelFactoryWorkItem(i) ==
  /\ items[i].lifecycle = "pending"
  /\ items' = [items EXCEPT ![i] = [@ EXCEPT !.lifecycle = "cancelled",
                   !.attempt = IF items[i].attempt = "pending" THEN "cancelled"
                               ELSE items[i].attempt]]
  /\ UNCHANGED <<leases, phases, approvals>>

\* Slip: only a pending item stands in the way of a new one.
PendingWithKey(key) ==
  {i \in Items : items[i].dedupe_key = key /\ items[i].lifecycle = "pending"}

\* findOpenFactoryWorkItemByDedupe
OpenWithKey(key) ==
  {i \in Items : items[i].dedupe_key = key /\ items[i].lifecycle \in Open}

\* Insertion of a new row; "new" holds the fields the caller chose.  An id is
\* any unused one: created_at is read before the transaction begins, so rows
\* need not arrive in the order of their ids.
InsertFactoryWorkItem(i, new) ==
  /\ items[i].lifecycle = "none"
  /\ items' = [items EXCEPT ![i] =
       [factory |-> new.factory, lifecycle |-> "pending", current_phase |-> "plan",
        dedupe_key |-> new.dedupe_key, priority |-> new.priority,
        revision |-> new.revision, claimed_by |-> None, attempt |-> "pending",
        failure |-> "none", rejection_count |-> new.rejection_count, retry_of |-> new.retry_of]]
  /\ UNCHANGED <<leases, phases, approvals>>

\* The transaction inserts only when no open item has the key.
EnqueueFactoryWorkItem(i, new) ==
  /\ new.dedupe_key # None => OpenWithKey(new.dedupe_key) = {}
  /\ InsertFactoryWorkItem(i, new)

\* The WHERE clause names the id, and the row must still be pending.
UpdatePendingFactoryWorkItem(i, revision, priority) ==
  /\ items[i].lifecycle = "pending"
  /\ items' = [items EXCEPT ![i] = [@ EXCEPT !.revision = revision, !.priority = priority]]
  /\ UNCHANGED <<leases, phases, approvals>>

\* Slip: no lookup of an approval already recorded.
RecordApprovalAgain(i, p, hash) ==
  /\ items[i].lifecycle = "waiting_approval"
  /\ items[i].current_phase = p
  /\ approvals' = approvals \cup {[item |-> i, phase |-> p, plan_hash |-> hash]}
  /\ UNCHANGED <<leases, items, phases>>

\* An approval already recorded is returned as it is, which changes nothing.
RecordFactoryApproval(i, p, hash) ==
  /\ ~Approved(i, p)
  /\ items[i].lifecycle = "waiting_approval"
  /\ items[i].current_phase = p
  /\ approvals' = approvals \cup {[item |-> i, phase |-> p, plan_hash |-> hash]}
  /\ UNCHANGED <<leases, items, phases>>

-----------------------------------------------------------------------------
NewItem ==
  [factory : Factories, dedupe_key : DedupeKeys \cup {None}, priority : Priorities,
   revision : Revisions, rejection_count : 0 .. MaxRejections,
   retry_of : Items \cup {None}]

LeaseNext ==
  \E d \in Daemons :
    \/ \E f \in Factories, now, expiresAt \in Times :
         AcquireFactoryDaemonLease(d, f, now, expiresAt)
    \/ \E expiresAt \in Times : RenewFactoryDaemonLease(d, expiresAt)
    \/ ReleaseFactoryDaemonLease(d)

ItemNext ==
  \E i \in Items :
    \/ \E f \in Factories, d \in Daemons, now \in Times :
         ClaimNextFactoryWorkItem(f, d, now, i)
    \/ \E p \in Phases, status \in PhaseStatuses \ {"none"} :
         UpdateFactoryWorkItemPhase(i, p, status)
    \/ CompleteFactoryWorkItem(i)
    \/ \E cause \in Failures \ {"none"} : FailFactoryWorkItem(i, cause)
    \/ CancelFactoryWorkItem(i)
    \/ \E new \in NewItem : EnqueueFactoryWorkItem(i, new)
    \/ \E revision \in Revisions, priority \in Priorities :
         UpdatePendingFactoryWorkItem(i, revision, priority)
    \/ \E p \in Phases, hash \in Hashes \cup {None} : RecordFactoryApproval(i, p, hash)

QueueNext == LeaseNext \/ ItemNext

QueueSpec == QueueInit /\ [][QueueNext]_queueVars

-----------------------------------------------------------------------------
\* A factory is leased to at most one daemon, whatever the clocks of the hosts
\* say: acquiring expires or refuses (AcquireFactoryDaemonLease), and renewing
\* cannot bring back a lease that was taken over (RenewFactoryDaemonLease).
SingleActiveLease ==
  \A f \in Factories, d, e \in Daemons :
    ActiveFor(d, f) /\ ActiveFor(e, f) => d = e

\* Approving the same phase twice never stores two decisions, whichever of the
\* command line and the provider come first (RecordFactoryApproval).
OneApprovalPerGate ==
  \A a, b \in approvals : a.item = b.item /\ a.phase = b.phase => a = b

\* Evidence never runs ahead of the gate: an approval is only ever stored for a
\* phase at which the item has been seen waiting (RecordFactoryApproval).
ApprovalFollowsGate ==
  \A a \in approvals : phases[a.item][a.phase] # "none"

\* The decisions that are stored are those of gates: one for each, and none of a gate at
\* which the item has not been seen (RecordFactoryApproval, for every caller it has).
GatesDecideOnce == QueueTypeOK /\ OneApprovalPerGate /\ ApprovalFollowsGate

\* An item waiting in the queue or at a gate is owned by nobody, so that any
\* later daemon may take it (UpdateFactoryWorkItemPhase clears the claim).
UnownedWhileQueued ==
  \A i \in Items :
    items[i].lifecycle \in {"none", "pending", "waiting_approval"} =>
      items[i].claimed_by = None

\* No call can put an item back to pending, so nothing the store offers hands a
\* started item to a second daemon from the start of its workflow
\* (ClaimNextFactoryWorkItem, UpdateFactoryWorkItemPhase, finish).
NeverPendingAgain ==
  [][\A i \in Items :
       items[i].lifecycle \notin {"none", "pending"} => items'[i].lifecycle # "pending"
    ]_queueVars
=============================================================================
