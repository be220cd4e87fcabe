------------------------ MODULE FactoryDaemon_proofs ------------------------
(***************************************************************************)
(* Theorems about the store, and about the daemon, for any number of       *)
(* daemons, items, phases, gates, pollers and operators, with crashes,     *)
(* lost leases and failing store calls: what it does to the queue and to   *)
(* the life cycle of a Work Item; and what the item goes through: its gates *)
(* hold, what is shipped was implemented and what is implemented was       *)
(* approved, what completes has every phase behind it, and no living       *)
(* daemon leaves an item behind.                                           *)
(***************************************************************************)
EXTENDS FactoryDaemon, TLAPS

-----------------------------------------------------------------------------
(* The store: whatever calls its clients make, in whatever order and with whatever
   clocks *)

\* What every action leaves well formed: the rows each method writes.
LEMMA InitTypes == QueueInit => QueueTypeOK
  <1>1. NoLease \in Lease
    BY QueueAssumption DEF NoLease, Lease, LeaseStatuses
  <1>2. NoItem \in WorkItem
    BY QueueAssumption DEF NoItem, WorkItem, AttemptStatuses, Failures
  <1> QED
    BY <1>1, <1>2 DEF QueueInit, QueueTypeOK, PhaseStatuses

\* Acquiring, renewing and releasing a lease write well-formed lease rows.
LEMMA LeaseTypes == QueueTypeOK /\ LeaseNext => QueueTypeOK'
  <1> SUFFICES ASSUME QueueTypeOK, LeaseNext PROVE QueueTypeOK'
    OBVIOUS
  <1> USE DEF QueueTypeOK, Lease, LeaseStatuses
  <1>1. PICK d \in Daemons :
          \/ \E f \in Factories, now, expiresAt \in Times :
               AcquireFactoryDaemonLease(d, f, now, expiresAt)
          \/ \E expiresAt \in Times : RenewFactoryDaemonLease(d, expiresAt)
          \/ ReleaseFactoryDaemonLease(d)
    BY DEF LeaseNext
  <1>2. ASSUME NEW f \in Factories, NEW now \in Times, NEW expiresAt \in Times,
               AcquireFactoryDaemonLease(d, f, now, expiresAt)
        PROVE  QueueTypeOK'
    BY <1>2 DEF AcquireFactoryDaemonLease, ExpireFactoryDaemonLeases
  <1>3. ASSUME NEW expiresAt \in Times, RenewFactoryDaemonLease(d, expiresAt)
        PROVE  QueueTypeOK'
    BY <1>3 DEF RenewFactoryDaemonLease
  <1>4. ASSUME ReleaseFactoryDaemonLease(d) PROVE QueueTypeOK'
    BY <1>4 DEF ReleaseFactoryDaemonLease
  <1> QED BY <1>1, <1>2, <1>3, <1>4

\* Writing one row of the right columns keeps the table of Work Items typed.
LEMMA RowTypes ==
  ASSUME NEW i \in Items, NEW row \in WorkItem, QueueTypeOK,
         items' = [items EXCEPT ![i] = row],
         leases' = leases, phases' \in [Items -> [Phases -> PhaseStatuses]],
         approvals' = approvals
  PROVE  QueueTypeOK'
  BY DEF QueueTypeOK

\* Every method that writes a Work Item, phase or approval row keeps the
\* tables well formed.
LEMMA ItemTypes == QueueTypeOK /\ ItemNext => QueueTypeOK'
  <1> SUFFICES ASSUME QueueTypeOK, ItemNext PROVE QueueTypeOK'
    OBVIOUS
  <1>0. PICK i \in Items :
        \/ \E f \in Factories, d \in Daemons, now \in Times :
             ClaimNextFactoryWorkItem(f, d, now, i)
        \/ \E p \in Phases, status \in PhaseStatuses \ {"none"} :
             UpdateFactoryWorkItemPhase(i, p, status)
        \/ CompleteFactoryWorkItem(i)
        \/ \E cause \in Failures \ {"none"} : FailFactoryWorkItem(i, cause)
        \/ CancelFactoryWorkItem(i)
        \/ \E new \in NewItem : EnqueueFactoryWorkItem(i, new)
        \/ \E revision \in Revisions, priority \in Priorities :
             UpdatePendingFactoryWorkItem(i, revision, priority)
        \/ \E p \in Phases, hash \in Hashes \cup {None} :
             RecordFactoryApproval(i, p, hash)
    BY DEF ItemNext
  <1>a. items[i] \in WorkItem /\ phases \in [Items -> [Phases -> PhaseStatuses]]
    BY DEF QueueTypeOK
  <1>1. ASSUME NEW f \in Factories, NEW d \in Daemons, NEW now \in Times,
               ClaimNextFactoryWorkItem(f, d, now, i)
        PROVE  QueueTypeOK'
    <2>1. [items[i] EXCEPT !.lifecycle = "claimed", !.claimed_by = d] \in WorkItem
      BY <1>a DEF WorkItem, Open
    <2> QED BY <1>1, <1>a, <2>1, RowTypes DEF ClaimNextFactoryWorkItem
  <1>2. ASSUME NEW p \in Phases, NEW status \in PhaseStatuses \ {"none"},
               UpdateFactoryWorkItemPhase(i, p, status)
        PROVE  QueueTypeOK'
    <2>1. phases' \in [Items -> [Phases -> PhaseStatuses]]
      BY <1>2, <1>a DEF UpdateFactoryWorkItemPhase
    <2>2. CASE status = "running"
      <3>1. [items[i] EXCEPT !.lifecycle = "running", !.current_phase = p] \in WorkItem
        BY <1>a DEF WorkItem, Open
      <3> QED BY <1>2, <2>1, <2>2, <3>1, RowTypes DEF UpdateFactoryWorkItemPhase
    <2>3. CASE status = "waiting_approval"
      <3>1. [items[i] EXCEPT !.lifecycle = "waiting_approval", !.current_phase = p,
                             !.claimed_by = None] \in WorkItem
        BY <1>a DEF WorkItem, Open
      <3> QED BY <1>2, <2>1, <2>3, <3>1, RowTypes DEF UpdateFactoryWorkItemPhase
    <2>4. CASE status \notin {"running", "waiting_approval"}
      BY <1>2, <2>1, <2>4 DEF UpdateFactoryWorkItemPhase, QueueTypeOK
    <2> QED BY <2>2, <2>3, <2>4
  <1>3. ASSUME NEW lifecycle \in {"completed", "failed"}, NEW failure \in Failures,
               FinishFactoryWorkItem(i, lifecycle, failure)
        PROVE  QueueTypeOK'
    <2>1. [items[i] EXCEPT !.lifecycle = lifecycle, !.current_phase = None,
                           !.attempt = lifecycle, !.failure = failure] \in WorkItem
      BY <1>a DEF WorkItem, Closed, AttemptStatuses
    <2> QED BY <1>3, <1>a, <2>1, RowTypes DEF FinishFactoryWorkItem
  <1>4. ASSUME CancelFactoryWorkItem(i) PROVE QueueTypeOK'
    <2> DEFINE attempt ==
                 IF items[i].attempt = "pending" THEN "cancelled" ELSE items[i].attempt
               row == [items[i] EXCEPT !.lifecycle = "cancelled", !.attempt = attempt]
    <2>1. attempt \in AttemptStatuses
      BY <1>a DEF WorkItem, AttemptStatuses
    <2>2. items' = [items EXCEPT ![i] = row]
      BY <1>4 DEF CancelFactoryWorkItem
    <2> HIDE DEF attempt
    <2>3. row \in WorkItem
      BY <1>a, <2>1 DEF WorkItem, Closed
    <2> HIDE DEF row
    <2> QED BY <1>4, <1>a, <2>2, <2>3, RowTypes DEF CancelFactoryWorkItem
  <1>5. ASSUME NEW new \in NewItem, EnqueueFactoryWorkItem(i, new)
        PROVE  QueueTypeOK'
    <2>1. [factory |-> new.factory, lifecycle |-> "pending", current_phase |-> "plan",
           dedupe_key |-> new.dedupe_key, priority |-> new.priority,
           revision |-> new.revision, claimed_by |-> None, attempt |-> "pending",
           failure |-> "none", rejection_count |-> new.rejection_count,
           retry_of |-> new.retry_of] \in WorkItem
      BY QueueAssumption DEF NewItem, WorkItem, Open, AttemptStatuses, Failures
    <2> QED
      BY <1>5, <1>a, <2>1, RowTypes DEF EnqueueFactoryWorkItem, InsertFactoryWorkItem
  <1>6. ASSUME NEW revision \in Revisions, NEW priority \in Priorities,
               UpdatePendingFactoryWorkItem(i, revision, priority)
        PROVE  QueueTypeOK'
    <2>1. [items[i] EXCEPT !.revision = revision, !.priority = priority] \in WorkItem
      BY <1>a DEF WorkItem
    <2> QED BY <1>6, <1>a, <2>1, RowTypes DEF UpdatePendingFactoryWorkItem
  <1>7. ASSUME NEW p \in Phases, NEW hash \in Hashes \cup {None},
               RecordFactoryApproval(i, p, hash)
        PROVE  QueueTypeOK'
    BY <1>7 DEF RecordFactoryApproval, Approval, QueueTypeOK
  <1>8. ASSUME CompleteFactoryWorkItem(i) PROVE QueueTypeOK'
    BY <1>3, <1>8 DEF CompleteFactoryWorkItem, Failures
  <1>9. ASSUME NEW cause \in Failures \ {"none"}, FailFactoryWorkItem(i, cause)
        PROVE  QueueTypeOK'
    BY <1>3, <1>9 DEF FailFactoryWorkItem
  <1> QED BY <1>0, <1>1, <1>2, <1>4, <1>5, <1>6, <1>7, <1>8, <1>9

\* The store's tables always hold rows of the declared columns, for any number
\* of daemons, items, phases and clocks (every method of state.Store).
THEOREM QueueTypes == QueueSpec => []QueueTypeOK
  <1>1. QueueTypeOK /\ [QueueNext]_queueVars => QueueTypeOK'
    <2> SUFFICES ASSUME QueueTypeOK, [QueueNext]_queueVars PROVE QueueTypeOK'
      OBVIOUS
    <2>1. CASE UNCHANGED queueVars
      BY <2>1 DEF queueVars, QueueTypeOK
    <2> QED BY <2>1, LeaseTypes, ItemTypes DEF QueueNext
  <1> QED BY InitTypes, <1>1, PTL DEF QueueSpec

-----------------------------------------------------------------------------
\* Item calls leave the lease table alone.
LEMMA ItemsLeaveLeases == ItemNext => UNCHANGED leases
  BY DEF ItemNext, ClaimNextFactoryWorkItem, UpdateFactoryWorkItemPhase,
         CompleteFactoryWorkItem, FailFactoryWorkItem, FinishFactoryWorkItem,
         CancelFactoryWorkItem, EnqueueFactoryWorkItem, InsertFactoryWorkItem,
         UpdatePendingFactoryWorkItem, RecordFactoryApproval

\* Lease calls leave everything but the lease table alone.
LEMMA LeasesLeaveItems == LeaseNext => UNCHANGED <<items, phases, approvals>>
  BY DEF LeaseNext, AcquireFactoryDaemonLease, RenewFactoryDaemonLease,
         ReleaseFactoryDaemonLease

\* Apart from phase writes and approvals, a call changes one row of the Work
\* Items, and makes no item wait at a gate.
LEMMA OtherCallsWriteOneRow ==
  ASSUME QueueTypeOK, ItemNext,
         \A i \in Items, p \in Phases, status \in PhaseStatuses \ {"none"} :
           ~UpdateFactoryWorkItemPhase(i, p, status),
         \A i \in Items, p \in Phases, hash \in Hashes \cup {None} :
           ~RecordFactoryApproval(i, p, hash)
  PROVE  /\ UNCHANGED <<leases, phases, approvals>>
         /\ \A j \in Items : items'[j].lifecycle = "waiting_approval" =>
              items[j].lifecycle = "waiting_approval" /\
              items'[j].current_phase = items[j].current_phase
  <1> DEFINE Claims ==
               \E i \in Items, f \in Factories, d \in Daemons, now \in Times :
                 ClaimNextFactoryWorkItem(f, d, now, i)
             Finishes ==
               \E i \in Items, lifecycle \in {"completed", "failed"}, cause \in Failures :
                 FinishFactoryWorkItem(i, lifecycle, cause)
             Cancels == \E i \in Items : CancelFactoryWorkItem(i)
             Enqueues == \E i \in Items, new \in NewItem : InsertFactoryWorkItem(i, new)
             Updates ==
               \E i \in Items, revision \in Revisions, priority \in Priorities :
                 UpdatePendingFactoryWorkItem(i, revision, priority)
  <1> USE DEF QueueTypeOK, WorkItem
  <1>1. Claims \/ Finishes \/ Cancels \/ Enqueues \/ Updates
    BY DEF ItemNext, CompleteFactoryWorkItem, FailFactoryWorkItem, EnqueueFactoryWorkItem,
           Failures
  <1>2. CASE Claims  BY <1>2 DEF ClaimNextFactoryWorkItem
  <1>3. CASE Finishes  BY <1>3 DEF FinishFactoryWorkItem
  <1>4. CASE Cancels  BY <1>4 DEF CancelFactoryWorkItem
  <1>5. CASE Enqueues  BY <1>5 DEF InsertFactoryWorkItem
  <1>6. CASE Updates  BY <1>6 DEF UpdatePendingFactoryWorkItem
  <1> QED BY <1>1, <1>2, <1>3, <1>4, <1>5, <1>6

\* A factory is leased to at most one daemon, however many there are and
\* whatever they believe the time to be (AcquireFactoryDaemonLease).
THEOREM LeaseIsExclusive == QueueSpec => []SingleActiveLease
  <1>1. QueueInit => SingleActiveLease
    BY DEF QueueInit, SingleActiveLease, ActiveFor, NoLease
  <1>2. QueueTypeOK /\ SingleActiveLease /\ [QueueNext]_queueVars
          => SingleActiveLease'
    <2> SUFFICES ASSUME QueueTypeOK, SingleActiveLease, [QueueNext]_queueVars
                 PROVE  SingleActiveLease'
      OBVIOUS
    <2> USE DEF SingleActiveLease, ActiveFor
    <2>1. CASE UNCHANGED queueVars
      BY <2>1 DEF queueVars
    <2>2. CASE ItemNext
      BY <2>2, ItemsLeaveLeases
    <2>3. CASE LeaseNext
      <3>1. PICK d \in Daemons :
              \/ \E f \in Factories, now, expiresAt \in Times :
                   AcquireFactoryDaemonLease(d, f, now, expiresAt)
              \/ \E expiresAt \in Times : RenewFactoryDaemonLease(d, expiresAt)
              \/ ReleaseFactoryDaemonLease(d)
        BY <2>3 DEF LeaseNext
      \* Acquiring: every other row of the factory is expired by now, because
      \* one that were not would have refused the lease.
      <3>2. ASSUME NEW f \in Factories, NEW now \in Times, NEW expiresAt \in Times,
                   AcquireFactoryDaemonLease(d, f, now, expiresAt)
            PROVE  SingleActiveLease'
        <4>1. \A e \in Daemons \ {d} : ~ActiveFor(e, f)'
          <5> SUFFICES ASSUME NEW e \in Daemons \ {d} PROVE ~ActiveFor(e, f)'
            OBVIOUS
          <5>1. leases'[e] = ExpireFactoryDaemonLeases(f, now)[e]
            BY <3>2 DEF AcquireFactoryDaemonLease, ExpireFactoryDaemonLeases
          <5>2. leases[e] \in Lease /\ Times \subseteq Nat
            BY QueueAssumption DEF QueueTypeOK
          <5>3. ActiveFor(e, f) => leases[e].expires_at <= now
            BY <3>2, <5>2 DEF AcquireFactoryDaemonLease, Holds, Lease
          <5> QED BY <5>1, <5>2, <5>3 DEF ExpireFactoryDaemonLeases, Lease
        <4>2. \A e \in Daemons \ {d}, g \in Factories :
                ActiveFor(e, g)' => ActiveFor(e, g)
          BY <3>2 DEF AcquireFactoryDaemonLease, ExpireFactoryDaemonLeases,
                      QueueTypeOK, Lease
        <4>3. \A g \in Factories : ActiveFor(d, g)' => g = f
          BY <3>2 DEF AcquireFactoryDaemonLease, ExpireFactoryDaemonLeases
        <4> QED BY <4>1, <4>2, <4>3
      <3>3. ASSUME NEW expiresAt \in Times, RenewFactoryDaemonLease(d, expiresAt)
            PROVE  SingleActiveLease'
        BY <3>3 DEF RenewFactoryDaemonLease, QueueTypeOK, Lease
      <3>4. ASSUME ReleaseFactoryDaemonLease(d) PROVE SingleActiveLease'
        BY <3>4 DEF ReleaseFactoryDaemonLease, QueueTypeOK, Lease
      <3> QED BY <3>1, <3>2, <3>3, <3>4
    <2> QED BY <2>1, <2>2, <2>3 DEF QueueNext
  <1> QED BY <1>1, <1>2, QueueTypes, PTL DEF QueueSpec

-----------------------------------------------------------------------------
\* What a gate has seen: the row of a waiting phase was written before the item
\* was let go.  ApprovalFollowsGate is not inductive without it.
WaitingWasRecorded ==
  \A i \in Items : items[i].lifecycle = "waiting_approval" =>
    phases[i][items[i].current_phase] # "none"

\* Approving a phase twice, from the command line and from the provider, never
\* leaves two decisions (RecordFactoryApproval).
THEOREM ApprovalsAreUnique == QueueSpec => []OneApprovalPerGate
  <1>1. QueueInit => OneApprovalPerGate
    BY DEF QueueInit, OneApprovalPerGate
  <1>2. QueueTypeOK /\ OneApprovalPerGate /\ [QueueNext]_queueVars => OneApprovalPerGate'
    <2> SUFFICES ASSUME QueueTypeOK, OneApprovalPerGate, [QueueNext]_queueVars
                 PROVE  OneApprovalPerGate'
      OBVIOUS
    <2>1. CASE LeaseNext \/ UNCHANGED queueVars
      BY <2>1, LeasesLeaveItems DEF queueVars, OneApprovalPerGate
    <2>2. ASSUME NEW i \in Items, NEW p \in Phases, NEW hash \in Hashes \cup {None},
                 RecordFactoryApproval(i, p, hash)
          PROVE  OneApprovalPerGate'
      BY <2>2 DEF RecordFactoryApproval, Approved, OneApprovalPerGate
    <2>3. ASSUME NEW i \in Items, NEW p \in Phases, NEW status \in PhaseStatuses \ {"none"},
                 UpdateFactoryWorkItemPhase(i, p, status)
          PROVE  OneApprovalPerGate'
      BY <2>3 DEF UpdateFactoryWorkItemPhase, OneApprovalPerGate
    <2> QED
      BY <2>1, <2>2, <2>3, OtherCallsWriteOneRow DEF QueueNext, OneApprovalPerGate
  <1> QED BY <1>1, <1>2, QueueTypes, PTL DEF QueueSpec

\* No approval is on record for a gate the item has not come to
\* (RecordFactoryApproval, UpdateFactoryWorkItemPhase).
THEOREM EvidenceFollowsGates == QueueSpec => []ApprovalFollowsGate
  <1> DEFINE IInv == ApprovalFollowsGate /\ WaitingWasRecorded
  <1>1. QueueInit => IInv
    BY DEF QueueInit, NoItem, ApprovalFollowsGate, WaitingWasRecorded
  <1>2. QueueTypeOK /\ IInv /\ [QueueNext]_queueVars => IInv'
    <2> SUFFICES ASSUME QueueTypeOK, IInv, [QueueNext]_queueVars PROVE IInv'
      OBVIOUS
    <2> USE DEF ApprovalFollowsGate, WaitingWasRecorded
    <2>a. /\ items \in [Items -> WorkItem]
          /\ phases \in [Items -> [Phases -> PhaseStatuses]]
          /\ approvals \subseteq Approval
      BY DEF QueueTypeOK
    <2>1. CASE UNCHANGED queueVars \/ LeaseNext
      BY <2>1, LeasesLeaveItems DEF queueVars
    <2>2. ASSUME NEW i \in Items, NEW p \in Phases,
                 NEW status \in PhaseStatuses \ {"none"},
                 UpdateFactoryWorkItemPhase(i, p, status)
          PROVE  IInv'
      <3>1. \A j \in Items, q \in Phases :
              phases'[j][q] = IF j = i /\ q = p THEN status ELSE phases[j][q]
        BY <2>2, <2>a DEF UpdateFactoryWorkItemPhase
      <3>2. ApprovalFollowsGate'
        BY <2>2, <2>a, <3>1 DEF UpdateFactoryWorkItemPhase, Approval
      <3>3. ASSUME NEW j \in Items, items'[j].lifecycle = "waiting_approval"
            PROVE  phases'[j][items'[j].current_phase] # "none"
        <4>1. CASE j = i /\ status = "waiting_approval"
          <5>1. items'[i].current_phase = p
            BY <2>2, <2>a, <4>1 DEF UpdateFactoryWorkItemPhase, WorkItem
          <5> QED BY <4>1, <5>1, <3>1
        <4>2. CASE j = i /\ status = "running"
          <5>1. items'[i].lifecycle = "running"
            BY <2>2, <2>a, <4>2 DEF UpdateFactoryWorkItemPhase, WorkItem
          <5> QED BY <3>3, <4>2, <5>1
        <4>3. CASE items'[j] = items[j]
          <5>1. phases[j][items[j].current_phase] # "none"
            BY <3>3, <4>3
          <5>2. CASE j # i
            BY <2>2, <2>a, <4>3, <5>1, <5>2 DEF UpdateFactoryWorkItemPhase
          <5>3. CASE j = i
            <6>1. phases'[i] = [phases[i] EXCEPT ![p] = status]
              BY <2>2, <2>a DEF UpdateFactoryWorkItemPhase
            <6>2. items[i].current_phase # p => phases'[i][items[i].current_phase] =
                                                phases[i][items[i].current_phase]
              BY <6>1
            <6> QED BY <2>a, <4>3, <5>1, <5>3, <6>1, <6>2
          <5> QED BY <5>2, <5>3
        <4>4. \/ j = i /\ status \in {"running", "waiting_approval"}
              \/ items'[j] = items[j]
          BY <2>2, <2>a DEF UpdateFactoryWorkItemPhase
        <4> QED BY <4>1, <4>2, <4>3, <4>4
      <3> QED BY <3>2, <3>3
    <2>3. ASSUME NEW i \in Items, NEW p \in Phases, NEW hash \in Hashes \cup {None},
                 RecordFactoryApproval(i, p, hash)
          PROVE  IInv'
      BY <2>3, <2>a DEF RecordFactoryApproval, Approval
    \* Every other call leaves phases and approvals alone and makes no item wait.
    <2>4. ASSUME UNCHANGED <<phases, approvals>>,
                 \A j \in Items : items'[j].lifecycle = "waiting_approval" =>
                   items[j].lifecycle = "waiting_approval" /\
                   items'[j].current_phase = items[j].current_phase
          PROVE  IInv'
      BY <2>4
    <2> QED
      BY <2>1, <2>2, <2>3, <2>4, OtherCallsWriteOneRow DEF QueueNext
  <1> QED BY <1>1, <1>2, QueueTypes, PTL DEF QueueSpec

\* The three together, as the runs check them.
THEOREM GatesAreDecidedOnce == QueueSpec => []GatesDecideOnce
  BY QueueTypes, ApprovalsAreUnique, EvidenceFollowsGates, PTL DEF GatesDecideOnce

\* An item waiting in the queue or at a gate is claimed by nobody: every way to
\* make it wait clears the claim (UpdateFactoryWorkItemPhase).
THEOREM QueuedItemsAreUnowned == QueueSpec => []UnownedWhileQueued
  <1>1. QueueInit => UnownedWhileQueued
    BY DEF QueueInit, NoItem, UnownedWhileQueued
  <1>2. QueueTypeOK /\ UnownedWhileQueued /\ [QueueNext]_queueVars => UnownedWhileQueued'
    <2> SUFFICES ASSUME QueueTypeOK, UnownedWhileQueued, [QueueNext]_queueVars
                 PROVE  UnownedWhileQueued'
      OBVIOUS
    <2> USE DEF UnownedWhileQueued
    <2>a. items \in [Items -> WorkItem]
      BY DEF QueueTypeOK
    <2>1. CASE LeaseNext \/ UNCHANGED queueVars
      BY <2>1, LeasesLeaveItems DEF queueVars
    <2>2. CASE ItemNext
      <3>1. PICK i \in Items :
        \/ \E f \in Factories, d \in Daemons, now \in Times :
             ClaimNextFactoryWorkItem(f, d, now, i)
        \/ \E p \in Phases, status \in PhaseStatuses \ {"none"} :
             UpdateFactoryWorkItemPhase(i, p, status)
        \/ CompleteFactoryWorkItem(i)
        \/ \E cause \in Failures \ {"none"} : FailFactoryWorkItem(i, cause)
        \/ CancelFactoryWorkItem(i)
        \/ \E new \in NewItem : EnqueueFactoryWorkItem(i, new)
        \/ \E revision \in Revisions, priority \in Priorities :
             UpdatePendingFactoryWorkItem(i, revision, priority)
        \/ \E p \in Phases, hash \in Hashes \cup {None} :
             RecordFactoryApproval(i, p, hash)
        BY <2>2 DEF ItemNext
      <3> USE DEF WorkItem
      <3>2. ASSUME NEW f \in Factories, NEW d \in Daemons, NEW now \in Times,
                   ClaimNextFactoryWorkItem(f, d, now, i)
            PROVE  UnownedWhileQueued'
        BY <2>a, <3>2 DEF ClaimNextFactoryWorkItem
      <3>3. ASSUME NEW p \in Phases, NEW status \in PhaseStatuses \ {"none"},
                   UpdateFactoryWorkItemPhase(i, p, status)
            PROVE  UnownedWhileQueued'
        BY <2>a, <3>3 DEF UpdateFactoryWorkItemPhase
      <3>4. ASSUME NEW lifecycle \in {"completed", "failed"}, NEW cause \in Failures,
                   FinishFactoryWorkItem(i, lifecycle, cause)
            PROVE  UnownedWhileQueued'
        BY <2>a, <3>4 DEF FinishFactoryWorkItem
      <3>5. CASE CancelFactoryWorkItem(i)
        BY <2>a, <3>5 DEF CancelFactoryWorkItem
      <3>6. ASSUME NEW new \in NewItem, EnqueueFactoryWorkItem(i, new)
            PROVE  UnownedWhileQueued'
        BY <2>a, <3>6 DEF EnqueueFactoryWorkItem, InsertFactoryWorkItem
      <3>7. ASSUME NEW revision \in Revisions, NEW priority \in Priorities,
                   UpdatePendingFactoryWorkItem(i, revision, priority)
            PROVE  UnownedWhileQueued'
        BY <2>a, <3>7 DEF UpdatePendingFactoryWorkItem
      <3>8. ASSUME NEW p \in Phases, NEW hash \in Hashes \cup {None},
                   RecordFactoryApproval(i, p, hash)
            PROVE  UnownedWhileQueued'
        BY <3>8 DEF RecordFactoryApproval
      <3> QED
        BY <3>1, <3>2, <3>3, <3>4, <3>5, <3>6, <3>7, <3>8
        DEF CompleteFactoryWorkItem, FailFactoryWorkItem, Failures
    <2> QED BY <2>1, <2>2 DEF QueueNext
  <1> QED BY <1>1, <1>2, QueueTypes, PTL DEF QueueSpec

\* Once an item has left the pending state no call puts it back, so nothing can
\* start its workflow over (only InsertFactoryWorkItem writes "pending").
THEOREM PendingIsLeftForGood == QueueSpec => NeverPendingAgain
  <1> DEFINE Stays ==
        \A i \in Items :
          items[i].lifecycle \notin {"none", "pending"} => items'[i].lifecycle # "pending"
  <1>1. QueueTypeOK /\ [QueueNext]_queueVars => [Stays]_queueVars
    <2> SUFFICES ASSUME QueueTypeOK, QueueNext PROVE Stays
      OBVIOUS
    <2>a. items \in [Items -> WorkItem]
      BY DEF QueueTypeOK
    <2>1. CASE LeaseNext
      BY <2>1, LeasesLeaveItems
    <2>2. ASSUME NEW i \in Items, NEW f \in Factories, NEW d \in Daemons, NEW now \in Times,
                 ClaimNextFactoryWorkItem(f, d, now, i)
          PROVE  Stays
      BY <2>a, <2>2 DEF ClaimNextFactoryWorkItem, WorkItem
    <2>3. ASSUME NEW i \in Items, NEW p \in Phases,
                 NEW status \in PhaseStatuses \ {"none"},
                 UpdateFactoryWorkItemPhase(i, p, status)
          PROVE  Stays
      <3>1. CASE UNCHANGED items
        BY <3>1
      <3>2. CASE items' = [items EXCEPT ![i] =
                             [@ EXCEPT !.lifecycle = "running", !.current_phase = p]]
        BY <2>a, <3>2 DEF WorkItem
      <3>3. CASE items' = [items EXCEPT ![i] =
                             [@ EXCEPT !.lifecycle = "waiting_approval", !.current_phase = p,
                                       !.claimed_by = None]]
        BY <2>a, <3>3 DEF WorkItem
      <3> QED BY <2>3, <3>1, <3>2, <3>3 DEF UpdateFactoryWorkItemPhase
    <2>4. ASSUME NEW i \in Items, NEW lifecycle \in {"completed", "failed"},
                 NEW cause \in Failures, FinishFactoryWorkItem(i, lifecycle, cause)
          PROVE  Stays
      BY <2>a, <2>4 DEF FinishFactoryWorkItem, WorkItem
    <2>5. ASSUME NEW i \in Items, CancelFactoryWorkItem(i) PROVE Stays
      BY <2>a, <2>5 DEF CancelFactoryWorkItem, WorkItem
    <2>6. ASSUME NEW i \in Items, NEW new \in NewItem, EnqueueFactoryWorkItem(i, new)
          PROVE  Stays
      BY <2>a, <2>6 DEF EnqueueFactoryWorkItem, InsertFactoryWorkItem, WorkItem
    <2>7. ASSUME NEW i \in Items, NEW revision \in Revisions, NEW priority \in Priorities,
                 UpdatePendingFactoryWorkItem(i, revision, priority)
          PROVE  Stays
      BY <2>a, <2>7 DEF UpdatePendingFactoryWorkItem, WorkItem
    <2>8. ASSUME NEW i \in Items, NEW p \in Phases, NEW hash \in Hashes \cup {None},
                 RecordFactoryApproval(i, p, hash)
          PROVE  Stays
      BY <2>8 DEF RecordFactoryApproval
    <2> QED
      BY <2>1, <2>2, <2>3, <2>4, <2>5, <2>6, <2>7, <2>8
      DEF QueueNext, ItemNext, CompleteFactoryWorkItem, FailFactoryWorkItem, Failures
  <1> QED BY <1>1, QueueTypes, PTL DEF QueueSpec, NeverPendingAgain

-----------------------------------------------------------------------------
(* The daemon's types, and what it does to the queue *)

\* A process that works has something to work on.
Assigned ==
  /\ \A d \in Daemons : daemon[d].pc \in Working => daemon[d].item \in Items
  /\ \A r \in Reviewers :
       /\ reviewer[r].pc # "idle" => reviewer[r].item \in Items
       /\ reviewer[r].pc = "approve" => reviewer[r].phase \in Phases
       /\ reviewer[r].pc = "reject" => r \in Rejecters

\* A lease's expiry is a reading of the clock (now + LeaseTTL).
LEMMA DeadlineTypes == ASSUME NEW now \in Times PROVE Deadline(now) \in Times
  BY QueueAssumption, DaemonAssumption DEF Deadline

\* The spine is a sequence of phases; its steps index it.
LEMMA SpineTypes ==
  /\ Len(Workflow) \in Nat /\ 1 \in Steps /\ Steps \subseteq Nat
  /\ \A k \in Steps : Workflow[k] \in Phases
  /\ Factory \in Factories /\ "plan" \in Phases
  BY QueueAssumption, DaemonAssumption DEF Steps

-----------------------------------------------------------------------------
(* Every step makes at most one call of the store, with proper arguments *)

\* A step of a daemon makes one call of the store, or none (Start, renewLease,
\* processOne).
LEMMA DaemonCalls ==
  ASSUME TypeOK, Assigned, NEW d \in Daemons,
         \/ Start(d) \/ Renew(d) \/ RenewRefused(d) \/ Stop(d) \/ Crash(d)
         \/ DaemonStep(d) \/ StoreError(d)
  PROVE  QueueNext \/ UNCHANGED queueVars
  <1> DEFINE i == daemon[d].item
  <1>a. /\ daemon[d] \in DaemonState /\ Phase(d) \in Phases
        /\ daemon[d].pc \in Working => i \in Items
    BY SpineTypes DEF TypeOK, DaemonState, Phase, Assigned
  <1>b. ASSUME NEW p \in Phases, NEW status \in PhaseStatuses \ {"none"}, i \in Items,
               UpdateFactoryWorkItemPhase(i, p, status)
        PROVE  QueueNext
    BY <1>b DEF QueueNext, ItemNext
  <1>1. CASE Start(d)
    BY <1>1, DeadlineTypes, SpineTypes DEF Start, QueueNext, LeaseNext
  <1>2. CASE Renew(d)
    BY <1>2, DeadlineTypes DEF Renew, QueueNext, LeaseNext
  <1>3. CASE Stop(d)
    BY <1>3 DEF Stop, QueueNext, LeaseNext
  <1>4. CASE Claim(d)
    BY <1>4, SpineTypes DEF Claim, QueueNext, ItemNext
  <1>5. CASE PlanPhase(d)
    BY <1>5, <1>a, <1>b, SpineTypes DEF PlanPhase, At, Working, PhaseStatuses
  <1>6. CASE PlanSucceeded(d)
    BY <1>6, <1>a, <1>b, SpineTypes DEF PlanSucceeded, At, Working, PhaseStatuses
  <1>7. CASE WaitForApproval(d)
    BY <1>7, <1>a, <1>b DEF WaitForApproval, At, Working, PhaseStatuses
  <1>8. CASE EnterPhase(d)
    BY <1>8, <1>a, <1>b DEF EnterPhase, At, Working, PhaseStatuses
  <1>9. CASE ReportPhase(d)
    BY <1>9, <1>a, <1>b DEF ReportPhase, At, Working, PhaseStatuses
  <1>10. CASE Complete(d)
    BY <1>10, <1>a DEF Complete, At, Working, QueueNext, ItemNext
  <1>11. CASE FailItem(d)
    BY <1>11, <1>a DEF FailItem, At, Working, Failures, QueueNext, ItemNext
  <1>12. CASE \/ RenewRefused(d) \/ Crash(d) \/ RunPlanner(d) \/ Gate(d)
              \/ StartImplement(d) \/ FinishImplement(d) \/ RunTarget(d) \/ StoreError(d)
    BY <1>12 DEF RenewRefused, Crash, RunPlanner, Gate, StartImplement, FinishImplement,
                 RunTarget, StoreError
  <1> QED
    BY <1>1, <1>2, <1>3, <1>4, <1>5, <1>6, <1>7, <1>8, <1>9, <1>10, <1>11, <1>12
    DEF DaemonStep

\* A step of a decision makes one call of the store, or none (approvalPoller,
\* approveFactory, rejectFactory).
LEMMA ReviewCalls ==
  ASSUME TypeOK, Assigned, NEW r \in Reviewers,
         \/ ListWaiting(r) \/ EndBatch(r) \/ BeginProviderApproval(r)
         \/ \E i \in Items, p \in Phases : BeginCliApproval(r, i, p)
         \/ Approve(r) \/ EnqueueRetry(r) \/ FailRejected(r)
  PROVE  QueueNext \/ UNCHANGED queueVars
  <1>a. /\ reviewer[r] \in ReviewerState
        /\ reviewer[r].pc # "idle" => reviewer[r].item \in Items
        /\ reviewer[r].pc = "approve" => reviewer[r].phase \in Phases
    BY DEF TypeOK, Assigned
  <1>1. CASE Approve(r)
    BY <1>1, <1>a DEF Approve, ReviewerState, QueueNext, ItemNext
  <1>2. CASE EnqueueRetry(r)
    <2>1. /\ reviewer[r].item \in Items /\ reviewer[r].count \in 0 .. MaxRejections
          /\ reviewer[r].count < MaxRejections
          /\ items[reviewer[r].item].priority \in Priorities
      BY <1>2, <1>a DEF EnqueueRetry, ReviewerState, TypeOK, QueueTypeOK, WorkItem
    <2>2. ASSUME NEW reason \in Revisions
          PROVE  [factory |-> Factory,
                  dedupe_key |-> RetryKey(reviewer[r].item, reviewer[r].count),
                  priority |-> items[reviewer[r].item].priority, revision |-> reason,
                  rejection_count |-> reviewer[r].count + 1,
                  retry_of |-> reviewer[r].item] \in NewItem
      <3>1. reviewer[r].count + 1 \in 1 .. MaxRejections
        BY <2>1, QueueAssumption
      <3>2. RetryKey(reviewer[r].item, reviewer[r].count) \in DedupeKeys
        BY <2>1, <3>1, DaemonAssumption DEF RetryKey
      <3> QED BY <2>1, <3>1, <3>2, SpineTypes, QueueAssumption DEF NewItem
    <2> QED BY <1>2, <2>2 DEF EnqueueRetry, QueueNext, ItemNext
  <1>3. CASE FailRejected(r)
    BY <1>3, <1>a DEF FailRejected, Failures, QueueNext, ItemNext
  <1>4. CASE \/ ListWaiting(r) \/ EndBatch(r) \/ BeginProviderApproval(r)
             \/ \E i \in Items, p \in Phases : BeginCliApproval(r, i, p)
    BY <1>4 DEF ListWaiting, EndBatch, BeginProviderApproval, BeginCliApproval
  <1> QED BY <1>1, <1>2, <1>3, <1>4

\* Submitting and cancelling are calls of the store; editing a plan is not.
LEMMA UserCalls == UserNext => QueueNext \/ UNCHANGED queueVars
  <1> SUFFICES ASSUME NEW i \in Items, Submit(i) \/ Cancel(i) \/ EditPlan(i)
               PROVE  QueueNext \/ UNCHANGED queueVars
    BY DEF UserNext
  <1>1. CASE Submit(i)
    <2>1. ASSUME NEW key \in SubmitKeys, NEW priority \in Priorities, NEW revision \in Revisions
          PROVE  [factory |-> Factory, dedupe_key |-> key, priority |-> priority,
                  revision |-> revision, rejection_count |-> 0, retry_of |-> None] \in NewItem
      BY QueueAssumption, DaemonAssumption DEF NewItem
    <2> QED BY <1>1, <2>1 DEF Submit, QueueNext, ItemNext
  <1>2. CASE Cancel(i)
    BY <1>2 DEF Cancel, QueueNext, ItemNext
  <1>3. CASE EditPlan(i)
    BY <1>3 DEF EditPlan
  <1> QED BY <1>1, <1>2, <1>3

\* Whatever a process does, the store sees one of its own calls or nothing.
LEMMA EveryStepIsACall == TypeOK /\ Assigned /\ [Next]_vars => [QueueNext]_queueVars
  BY DaemonCalls, ReviewCalls, UserCalls DEF Next, DaemonNext, ReviewNext, vars, queueVars

-----------------------------------------------------------------------------
(* Types *)

\* The store's tables stay well formed under the calls the processes make.
LEMMA QueueTypesKept ==
  QueueTypeOK /\ [QueueNext]_queueVars => QueueTypeOK'
  BY LeaseTypes, ItemTypes DEF QueueNext, queueVars, QueueTypeOK

\* One daemon's state changes; nobody else's does.
LEMMA DaemonTypes ==
  ASSUME TypeOK, Assigned, NEW d \in Daemons, NEW next \in DaemonState,
         next.pc \in Working => next.item \in Items,
         daemon' = [daemon EXCEPT ![d] = next]
  PROVE  /\ daemon' \in [Daemons -> DaemonState]
         /\ \A e \in Daemons : daemon'[e].pc \in Working => daemon'[e].item \in Items
  BY DEF TypeOK, Assigned

\* One reviewer's state changes; nobody else's does.
LEMMA ReviewerTypes ==
  ASSUME TypeOK, Assigned, NEW r \in Reviewers, NEW next \in ReviewerState,
         next.pc # "idle" => next.item \in Items,
         next.pc = "approve" => next.phase \in Phases,
         next.pc = "reject" => r \in Rejecters,
         reviewer' = [reviewer EXCEPT ![r] = next]
  PROVE  /\ reviewer' \in [Reviewers -> ReviewerState]
         /\ \A q \in Reviewers :
              /\ reviewer'[q].pc # "idle" => reviewer'[q].item \in Items
              /\ reviewer'[q].pc = "approve" => reviewer'[q].phase \in Phases
              /\ reviewer'[q].pc = "reject" => q \in Rejecters
  BY DEF TypeOK, Assigned

\* A daemon between two items is well formed.
LEMMA FreeTypes ==
  /\ \A pc \in {"off", "idle", "dead"} : Free(pc) \in DaemonState /\ Free(pc).pc = pc
  /\ \A pc \in Working, i \in Items :
       [Free(pc) EXCEPT !.item = i] \in DaemonState
  /\ NoDecision \in ReviewerState
  <1>1. \A pc \in {"off", "idle", "dead"} \cup Working :
          Free(pc) \in DaemonState /\ Free(pc).pc = pc
    BY SpineTypes DEF Free, DaemonState
  <1>2. ASSUME NEW pc \in Working, NEW i \in Items
        PROVE  [Free(pc) EXCEPT !.item = i] \in DaemonState
    <2>1. \A state \in DaemonState : [state EXCEPT !.item = i] \in DaemonState
      BY DEF DaemonState
    <2> QED BY <1>1, <2>1
  <1>3. NoDecision \in ReviewerState
    BY QueueAssumption DEF NoDecision, ReviewerState
  <1> QED BY <1>1, <1>2, <1>3

DaemonWellFormed ==
  /\ daemon \in [Daemons -> DaemonState]
  /\ \A e \in Daemons : daemon[e].pc \in Working => daemon[e].item \in Items

ReviewerWellFormed ==
  /\ reviewer \in [Reviewers -> ReviewerState]
  /\ \A r \in Reviewers :
       /\ reviewer[r].pc # "idle" => reviewer[r].item \in Items
       /\ reviewer[r].pc = "approve" => reviewer[r].phase \in Phases
       /\ reviewer[r].pc = "reject" => r \in Rejecters

\* The four ways processOne moves on.
LEMMA MoveTypes ==
  ASSUME TypeOK, Assigned, NEW d \in Daemons, daemon[d].pc \in Working,
         \/ \E pc \in Working : Goto(d, pc)
         \/ NextPhase(d)
         \/ Return(d)
         \/ \E pc \in Working, ok \in BOOLEAN :
              daemon' = [daemon EXCEPT ![d].pc = pc, ![d].ok = ok]
  PROVE  DaemonWellFormed'
  <1>a. daemon[d] \in DaemonState /\ daemon[d].item \in Items
    BY DEF TypeOK, Assigned
  <1>1. ASSUME NEW pc \in Working, Goto(d, pc) PROVE DaemonWellFormed'
    <2>1. [daemon[d] EXCEPT !.pc = pc] \in DaemonState
      BY <1>a DEF DaemonState
    <2>2. daemon' = [daemon EXCEPT ![d] = [daemon[d] EXCEPT !.pc = pc]]
      BY <1>1 DEF Goto, TypeOK
    <2> QED BY <1>a, <2>1, <2>2, DaemonTypes DEF DaemonWellFormed, DaemonState
  <1>2. ASSUME NextPhase(d) PROVE DaemonWellFormed'
    <2>1. CASE daemon[d].at = Len(Workflow)
      BY <1>1, <1>2, <2>1 DEF NextPhase, Goto, Working
    <2>2. CASE daemon[d].at # Len(Workflow)
      <3> DEFINE next == [daemon[d] EXCEPT !.pc = "gate", !.at = daemon[d].at + 1]
      <3>1. daemon[d].at + 1 \in Steps
        BY <1>a, <2>2, SpineTypes DEF DaemonState, Steps
      <3>2. next \in DaemonState
        BY <1>a, <3>1 DEF DaemonState, Working
      <3>3. daemon' = [daemon EXCEPT ![d] = next]
        BY <1>2, <2>2 DEF NextPhase, TypeOK
      <3>4. next.item \in Items
        BY <1>a DEF DaemonState
      <3> QED BY <3>2, <3>3, <3>4, DaemonTypes DEF DaemonWellFormed
    <2> QED BY <2>1, <2>2
  <1>3. ASSUME Return(d) PROVE DaemonWellFormed'
    BY <1>3, FreeTypes, DaemonTypes DEF Return, DaemonWellFormed, Working
  <1>4. ASSUME NEW pc \in Working, NEW ok \in BOOLEAN,
               daemon' = [daemon EXCEPT ![d].pc = pc, ![d].ok = ok]
        PROVE  DaemonWellFormed'
    <2> DEFINE next == [daemon[d] EXCEPT !.pc = pc, !.ok = ok]
    <2>1. next \in DaemonState /\ next.item \in Items
      BY <1>a DEF DaemonState
    <2>2. daemon' = [daemon EXCEPT ![d] = next]
      BY <1>4 DEF TypeOK
    <2> QED BY <2>1, <2>2, DaemonTypes DEF DaemonWellFormed
  <1> QED BY <1>1, <1>2, <1>3, <1>4

\* The processes start well formed.
LEMMA InitTypesDaemon == Init => TypeOK /\ Assigned
  BY InitTypes, FreeTypes, QueueAssumption
  DEF Init, TypeOK, Assigned, LedgerState, Free, NoDecision, Working

\* Every step of a daemon keeps the processes well formed.
LEMMA StepTypesDaemon ==
  ASSUME TypeOK, Assigned, NEW d \in Daemons,
         \/ Start(d) \/ Renew(d) \/ RenewRefused(d) \/ Stop(d) \/ Crash(d)
         \/ DaemonStep(d) \/ StoreError(d)
  PROVE  /\ DaemonWellFormed' /\ ReviewerWellFormed'
         /\ lost' \in [Daemons -> BOOLEAN]
         /\ plan' \in [Items -> Hashes \cup {None}]
         /\ ledger' \in [Items -> LedgerState]
  <1> DEFINE i == daemon[d].item
             Rest == /\ ReviewerWellFormed'
                     /\ lost' \in [Daemons -> BOOLEAN]
                     /\ plan' \in [Items -> Hashes \cup {None}]
                     /\ ledger' \in [Items -> LedgerState]
  <1>a. /\ lost \in [Daemons -> BOOLEAN]
        /\ plan \in [Items -> Hashes \cup {None}]
        /\ ledger \in [Items -> LedgerState]
        /\ DaemonWellFormed /\ ReviewerWellFormed
    BY DEF TypeOK, Assigned, DaemonWellFormed, ReviewerWellFormed
  <1>b. UNCHANGED <<lost, plan, ledger, reviewer>> => Rest
    BY <1>a DEF ReviewerWellFormed
  <1>c. UNCHANGED daemon => DaemonWellFormed'
    BY <1>a DEF DaemonWellFormed
  <1>d. reviewer' = [reviewer EXCEPT ![d] = NoDecision] => ReviewerWellFormed'
    BY ReviewerTypes, FreeTypes DEF ReviewerWellFormed, NoDecision, Reviewers
  <1>e. ASSUME NEW pc \in {"off", "idle", "dead"}, daemon' = [daemon EXCEPT ![d] = Free(pc)]
        PROVE  DaemonWellFormed'
    BY <1>e, FreeTypes, DaemonTypes DEF DaemonWellFormed, Working
  <1>f. daemon[d].pc \in Working => i \in Items
    BY DEF Assigned
  <1>1. CASE Start(d)
    BY <1>1, <1>b, <1>e DEF Start
  <1>2. CASE Renew(d)
    BY <1>2, <1>b, <1>c DEF Renew, daemonVars
  <1>3. CASE RenewRefused(d)
    BY <1>3, <1>a, <1>c DEF RenewRefused, ReviewerWellFormed
  <1>4. CASE Stop(d)
    BY <1>4, <1>a, <1>d, <1>e DEF Stop
  <1>5. CASE Crash(d)
    BY <1>5, <1>a, <1>d, <1>e DEF Crash
  <1>6. CASE Claim(d)
    <2>1. PICK now \in Times, j \in Items :
            daemon' = [daemon EXCEPT ![d] = [Free("plan") EXCEPT !.item = j]]
      BY <1>6 DEF Claim
    <2>2. [Free("plan") EXCEPT !.item = j] \in DaemonState
      BY FreeTypes DEF Working
    <2>3. [Free("plan") EXCEPT !.item = j].item = j
      BY DEF Free
    <2> QED BY <1>6, <1>b, <2>1, <2>2, <2>3, DaemonTypes DEF Claim, DaemonWellFormed
  <1>7. CASE PlanPhase(d)
    BY <1>7, <1>b, MoveTypes DEF PlanPhase, At, Working
  <1>8. CASE RunPlanner(d)
    <2>1. plan' \in [Items -> Hashes \cup {None}]
      BY <1>8, <1>a DEF RunPlanner
    <2> QED
      BY <1>8, <1>a, <2>1, MoveTypes DEF RunPlanner, At, Working, ReviewerWellFormed
  <1>9. CASE PlanSucceeded(d)
    BY <1>9, <1>b, MoveTypes DEF PlanSucceeded, At, Working
  <1>10. CASE Gate(d)
    BY <1>10, <1>b, MoveTypes DEF Gate, PassGate, At, Working
  <1>11. CASE WaitForApproval(d)
    BY <1>11, <1>b, MoveTypes DEF WaitForApproval, At, Working
  <1>12. CASE EnterPhase(d)
    BY <1>12, <1>b, MoveTypes DEF EnterPhase, At, Working
  <1>13. CASE StartImplement(d)
    <2>0. At(d, "exec") /\ i \in Items /\ daemon[d].pc \in Working
      BY <1>13, <1>f DEF StartImplement, At, Working
    <2>1. ledger' \in [Items -> LedgerState]
      BY <1>13, <1>a, <2>0 DEF StartImplement, LedgerState
    <2>2. ASSUME NEW ok \in BOOLEAN,
                 daemon' = [daemon EXCEPT ![d].pc = "report", ![d].ok = ok]
          PROVE  DaemonWellFormed'
      BY <2>0, <2>2, MoveTypes DEF Working
    <2>3. ASSUME daemon' = [daemon EXCEPT ![d].pc = "building", ![d].hash = plan[i]]
          PROVE  DaemonWellFormed'
      <3> DEFINE next == [daemon[d] EXCEPT !.pc = "building", !.hash = plan[i]]
      <3>1. next \in DaemonState /\ next.item \in Items
        BY <1>a, <2>0 DEF DaemonState, Working, DaemonWellFormed
      <3>2. daemon' = [daemon EXCEPT ![d] = next]
        BY <2>3 DEF TypeOK
      <3> HIDE DEF next
      <3> QED BY <3>1, <3>2, DaemonTypes DEF DaemonWellFormed
    <2>4. \/ \E ok \in BOOLEAN : daemon' = [daemon EXCEPT ![d].pc = "report", ![d].ok = ok]
          \/ daemon' = [daemon EXCEPT ![d].pc = "building", ![d].hash = plan[i]]
      BY <1>13, Zenon DEF StartImplement
    <2>5. ReviewerWellFormed' /\ UNCHANGED <<lost, plan>>
      BY <1>13, <1>a DEF StartImplement, ReviewerWellFormed
    <2> QED BY <1>a, <2>1, <2>2, <2>3, <2>4, <2>5
  <1>14. CASE FinishImplement(d)
    <2>1. ledger' \in [Items -> LedgerState]
      BY <1>14, <1>a, <1>f
      DEF FinishImplement, At, Working, LedgerState, DaemonWellFormed, DaemonState
    <2>2. PICK ok \in BOOLEAN :
            daemon' = [daemon EXCEPT ![d].pc = "report", ![d].ok = ok]
      BY <1>14 DEF FinishImplement
    <2>3. DaemonWellFormed'
      BY <1>14, <2>2, MoveTypes DEF FinishImplement, At, Working
    <2> QED
      BY <1>14, <1>a, <2>1, <2>3 DEF FinishImplement, ReviewerWellFormed
  <1>15. CASE RunTarget(d)
    BY <1>15, <1>b, MoveTypes DEF RunTarget, At, Working
  <1>16. CASE ReportPhase(d)
    BY <1>16, <1>b, MoveTypes DEF ReportPhase, At, Working
  <1>17. CASE Complete(d)
    BY <1>17, <1>b, MoveTypes DEF Complete, At, Working
  <1>18. CASE FailItem(d)
    BY <1>18, <1>b, MoveTypes DEF FailItem, At, Working
  <1>19. CASE StoreError(d)
    <2>1. daemon[d].pc \in Working
      BY <1>19 DEF StoreError, At, Working
    <2>2. CASE daemon' = [daemon EXCEPT ![d].pc = "report", ![d].ok = FALSE]
      BY <1>19, <1>b, <2>1, <2>2, MoveTypes DEF StoreError, Working
    <2>3. CASE Goto(d, "fail") \/ Goto(d, "failagain") \/ Return(d)
      BY <1>19, <1>b, <2>1, <2>3, MoveTypes DEF StoreError, Working
    <2> QED BY <1>19, <2>2, <2>3 DEF StoreError
  <1> QED
    BY <1>1, <1>2, <1>3, <1>4, <1>5, <1>6, <1>7, <1>8, <1>9, <1>10, <1>11, <1>12,
       <1>13, <1>14, <1>15, <1>16, <1>17, <1>18, <1>19
    DEF DaemonStep

\* Every step of a decision keeps the processes well formed.
LEMMA StepTypesReviewer ==
  ASSUME TypeOK, Assigned, NEW r \in Reviewers,
         \/ ListWaiting(r) \/ EndBatch(r) \/ BeginProviderApproval(r)
         \/ \E i \in Items, p \in Phases : BeginCliApproval(r, i, p)
         \/ Approve(r) \/ EnqueueRetry(r) \/ FailRejected(r)
  PROVE  /\ ReviewerWellFormed' /\ UNCHANGED <<daemon, lost, plan, ledger>>
  <1>a. /\ reviewer \in [Reviewers -> ReviewerState]
        /\ reviewer[r] \in ReviewerState
        /\ reviewer[r].pc # "idle" => reviewer[r].item \in Items
        /\ reviewer[r].pc = "approve" => reviewer[r].phase \in Phases
        /\ items \in [Items -> WorkItem]
        /\ plan \in [Items -> Hashes \cup {None}]
    BY DEF TypeOK, Assigned, QueueTypeOK
  <1>b. ASSUME NEW next \in ReviewerState, next.pc # "idle" => next.item \in Items,
               next.pc = "approve" => next.phase \in Phases,
               next.pc = "reject" => r \in Rejecters,
               reviewer' = [reviewer EXCEPT ![r] = next]
        PROVE  ReviewerWellFormed'
    BY <1>b, ReviewerTypes DEF ReviewerWellFormed
  <1>c. reviewer' = [reviewer EXCEPT ![r] = NoDecision] => ReviewerWellFormed'
    BY <1>b, FreeTypes DEF NoDecision
  <1>d. ASSUME reviewer[r].pc # "idle", Decided(r) PROVE ReviewerWellFormed'
    <2> DEFINE next == [reviewer[r] EXCEPT !.pc = "listed", !.hash = None]
    <2>1. next \in ReviewerState /\ next.item \in Items /\ next.pc = "listed"
      BY <1>a, <1>d DEF ReviewerState
    <2>2. CASE r \in Pollers
      <3>1. reviewer' = [reviewer EXCEPT ![r] = next]
        BY <1>a, <1>d, <2>2 DEF Decided
      <3> HIDE DEF next
      <3> QED BY <1>b, <2>1, <3>1
    <2>3. CASE r \notin Pollers
      BY <1>c, <1>d, <2>3 DEF Decided
    <2> QED BY <2>2, <2>3
  <1>1. CASE ListWaiting(r)
    <2>1. PICK i \in Items : reviewer' = [reviewer EXCEPT ![r] =
            [pc |-> "listed", item |-> i, phase |-> items[i].current_phase,
             count |-> items[i].rejection_count, hash |-> None]]
      BY <1>1 DEF ListWaiting
    <2>2. [pc |-> "listed", item |-> i, phase |-> items[i].current_phase,
           count |-> items[i].rejection_count, hash |-> None] \in ReviewerState
      BY <1>a DEF ReviewerState, WorkItem
    <2> QED BY <1>1, <1>b, <2>1, <2>2 DEF ListWaiting
  <1>2. CASE EndBatch(r)
    BY <1>2, <1>c DEF EndBatch
  <1>3. CASE BeginProviderApproval(r)
    <2> DEFINE hash == Evidence(reviewer[r].item, reviewer[r].phase)
               next == [reviewer[r] EXCEPT !.pc = "approve", !.hash = hash]
    <2>1. reviewer[r].item \in Items /\ reviewer[r].phase \in Phases
      BY <1>3, <1>a, DaemonAssumption DEF BeginProviderApproval
    <2>2. hash \in Hashes \cup {None}
      BY <1>a, <2>1 DEF Evidence
    <2>3. reviewer' = [reviewer EXCEPT ![r] = next]
      BY <1>3, <1>a DEF BeginProviderApproval
    <2> HIDE DEF hash
    <2>4. /\ next \in ReviewerState /\ next.item \in Items /\ next.phase \in Phases
          /\ next.pc = "approve"
      BY <1>a, <2>1, <2>2 DEF ReviewerState
    <2> HIDE DEF next
    <2> QED BY <1>3, <1>b, <2>3, <2>4 DEF BeginProviderApproval
  <1>4. ASSUME NEW i \in Items, NEW p \in Phases, BeginCliApproval(r, i, p)
        PROVE  ReviewerWellFormed' /\ UNCHANGED <<daemon, lost, plan, ledger>>
    <2> DEFINE next == [pc |-> "approve", item |-> i, phase |-> p, count |-> 0,
                        hash |-> Evidence(i, p)]
    <2>1. next \in ReviewerState
      BY <1>a, QueueAssumption DEF Evidence, ReviewerState
    <2> QED BY <1>4, <1>b, <2>1 DEF BeginCliApproval
  <1>5. CASE Approve(r)
    BY <1>5, <1>d DEF Approve
  <1>6. CASE EnqueueRetry(r)
    <2>1. CASE Decided(r)
      BY <1>6, <1>d, <2>1 DEF EnqueueRetry
    <2>2. CASE Decide(r, "reject")
      <3> DEFINE next == [reviewer[r] EXCEPT !.pc = "reject"]
      <3>1. reviewer' = [reviewer EXCEPT ![r] = next]
        BY <1>a, <2>2 DEF Decide
      <3>2. next \in ReviewerState /\ next.item \in Items /\ next.pc = "reject"
        BY <1>6, <1>a DEF EnqueueRetry, ReviewerState
      <3>3. r \in Rejecters
        BY <1>6 DEF EnqueueRetry
      <3> HIDE DEF next
      <3> QED BY <1>6, <1>b, <3>1, <3>2, <3>3 DEF EnqueueRetry
    <2> QED BY <1>6, <2>1, <2>2 DEF EnqueueRetry
  <1>7. CASE FailRejected(r)
    BY <1>7, <1>d DEF FailRejected
  <1> QED BY <1>1, <1>2, <1>3, <1>4, <1>5, <1>6, <1>7

\* Submission, cancellation and editing keep the processes well formed.
LEMMA StepTypesUser ==
  ASSUME TypeOK, UserNext
  PROVE  /\ plan' \in [Items -> Hashes \cup {None}]
         /\ UNCHANGED <<daemon, lost, ledger, reviewer>>
  BY DEF TypeOK, UserNext, Submit, Cancel, EditPlan, daemonVars

\* Daemons, pollers and operators only ever are where the code can be, and a
\* process that works has a Work Item in hand (processOne, approvalPoller).
THEOREM DaemonTypesHold == Spec => [](TypeOK /\ Assigned)
  <1>1. TypeOK /\ Assigned /\ [Next]_vars => (TypeOK /\ Assigned)'
    <2> SUFFICES ASSUME TypeOK, Assigned, [Next]_vars PROVE (TypeOK /\ Assigned)'
      OBVIOUS
    <2>1. QueueTypeOK'
      BY EveryStepIsACall, QueueTypesKept DEF TypeOK
    <2>2. DaemonWellFormed' /\ ReviewerWellFormed' /\ lost' \in [Daemons -> BOOLEAN]
          /\ plan' \in [Items -> Hashes \cup {None}] /\ ledger' \in [Items -> LedgerState]
      <3>1. CASE UNCHANGED vars
        BY <3>1 DEF vars, daemonVars, TypeOK, Assigned, DaemonWellFormed, ReviewerWellFormed
      <3>2. CASE DaemonNext
        BY <3>2, StepTypesDaemon DEF DaemonNext
      <3>3. CASE ReviewNext
        BY <3>3, StepTypesReviewer DEF ReviewNext, TypeOK, Assigned, DaemonWellFormed
      <3>4. CASE UserNext
        BY <3>4, StepTypesUser
        DEF TypeOK, Assigned, DaemonWellFormed, ReviewerWellFormed
      <3> QED BY <3>1, <3>2, <3>3, <3>4 DEF Next
    <2> QED BY <2>1, <2>2 DEF TypeOK, Assigned, DaemonWellFormed, ReviewerWellFormed
  <1> QED BY InitTypesDaemon, <1>1, PTL DEF Spec

\* Whatever the daemons, the pollers and the command line do is a behaviour of
\* the store, so what is proved of the store holds of them.
THEOREM DaemonUsesQueue == Spec => QueueSpec
  <1>1. Init => QueueInit
    BY DEF Init
  <1> QED BY <1>1, EveryStepIsACall, DaemonTypesHold, PTL DEF Spec, QueueSpec

\* With real daemons too, at most one lease of a factory is in force, through
\* crashes, takeovers and failing stores (AcquireFactoryDaemonLease).
COROLLARY DaemonLeaseIsExclusive == Spec => []SingleActiveLease
  BY DaemonUsesQueue, LeaseIsExclusive, PTL

-----------------------------------------------------------------------------
(* What a step does to lifecycles and to who works on what *)

life == [i \in Items |-> items[i].lifecycle]
Keeps(d) == daemon'[d].pc \in Working /\ daemon'[d].item = daemon[d].item
Frees(d) == daemon'[d].pc \notin Working
Alone(d) == \A e \in Daemons \ {d} : daemon'[e] = daemon[e]

\* How processOne moves on: it keeps its item or lets it go.
LEMMA MoveKeepsOrFrees ==
  ASSUME TypeOK, NEW d \in Daemons, daemon[d].pc \in Working
  PROVE  /\ \A pc \in Working : Goto(d, pc) => Alone(d) /\ Keeps(d) /\ daemon'[d].pc = pc
         /\ NextPhase(d) => Alone(d) /\ Keeps(d)
         /\ Return(d) => Alone(d) /\ Frees(d)
         /\ \A pc \in Working : \A ok :
              daemon' = [daemon EXCEPT ![d].pc = pc, ![d].ok = ok] => Alone(d) /\ Keeps(d)
         /\ \A pc \in Working : \A hash :
              daemon' = [daemon EXCEPT ![d].pc = pc, ![d].hash = hash] => Alone(d) /\ Keeps(d)
  <1>1. daemon \in [Daemons -> DaemonState]
    BY DEF TypeOK
  <1>2. \A pc \in Working : Goto(d, pc) => Alone(d) /\ Keeps(d) /\ daemon'[d].pc = pc
    BY <1>1 DEF DaemonState, Goto, Alone, Keeps
  <1>3. NextPhase(d) => Alone(d) /\ Keeps(d)
    BY <1>1 DEF DaemonState, NextPhase, Alone, Keeps, Working
  <1>4. Return(d) => Alone(d) /\ Frees(d)
    BY <1>1 DEF DaemonState, Return, Free, Alone, Frees, Working
  <1>5. \A pc \in Working : \A ok :
          daemon' = [daemon EXCEPT ![d].pc = pc, ![d].ok = ok] => Alone(d) /\ Keeps(d)
    BY <1>1 DEF DaemonState, Alone, Keeps
  <1>6. \A pc \in Working : \A hash :
          daemon' = [daemon EXCEPT ![d].pc = pc, ![d].hash = hash] => Alone(d) /\ Keeps(d)
    BY <1>1 DEF DaemonState, Alone, Keeps
  <1> QED BY <1>2, <1>3, <1>4, <1>5, <1>6

\* The effect of a phase write on lifecycles.
LEMMA PhaseWriteEffect ==
  ASSUME QueueTypeOK, NEW i \in Items, NEW p, NEW status,
         UpdateFactoryWorkItemPhase(i, p, status)
  PROVE  /\ status = "running" => life' = [life EXCEPT ![i] = "running"]
         /\ status = "waiting_approval" => life' = [life EXCEPT ![i] = "waiting_approval"]
         /\ status \notin {"running", "waiting_approval"} => life' = life
  <1>1. \A next : items' = [items EXCEPT ![i] = next] =>
                     life' = [life EXCEPT ![i] = next.lifecycle]
    BY DEF QueueTypeOK, life
  <1>2. /\ [items[i] EXCEPT !.lifecycle = "running", !.current_phase = p].lifecycle = "running"
        /\ [items[i] EXCEPT !.lifecycle = "waiting_approval", !.current_phase = p,
                            !.claimed_by = None].lifecycle = "waiting_approval"
    BY DEF QueueTypeOK, WorkItem
  <1>3. CASE status = "running"
    BY <1>1, <1>2, <1>3 DEF UpdateFactoryWorkItemPhase
  <1>4. CASE status = "waiting_approval"
    BY <1>1, <1>2, <1>4 DEF UpdateFactoryWorkItemPhase
  <1>5. CASE status \notin {"running", "waiting_approval"}
    BY <1>5 DEF UpdateFactoryWorkItemPhase, life
  <1> QED BY <1>3, <1>4, <1>5

\* The effect of Complete and Fail on lifecycles.
LEMMA FinishEffect ==
  ASSUME QueueTypeOK, NEW i \in Items, NEW lifecycle, NEW cause,
         FinishFactoryWorkItem(i, lifecycle, cause)
  PROVE  life' = [life EXCEPT ![i] = lifecycle]
  BY DEF QueueTypeOK, WorkItem, FinishFactoryWorkItem, life

\* A daemon with an item in hand does one of five things to it.
StayStep(d) == life' = life /\ Keeps(d) /\ daemon[d].pc # "fail"
RunStep(d) ==
  life' = [life EXCEPT ![daemon[d].item] = "running"] /\ Keeps(d) /\ daemon[d].pc # "fail"
PauseStep(d) ==
  /\ life' = [life EXCEPT ![daemon[d].item] = "waiting_approval"]
  /\ Frees(d) /\ daemon[d].pc # "fail"
FinishStep(d) ==
  \E outcome \in {"completed", "failed"} :
    /\ life' = [life EXCEPT ![daemon[d].item] = outcome]
    /\ daemon[d].pc = "fail" => outcome = "failed"
    /\ \/ Frees(d)
       \/ Keeps(d) /\ outcome = "failed" /\ daemon'[d].pc = "fail" /\ daemon[d].pc # "fail"
LeaveStep(d) == life' = life /\ Frees(d)

\* What one step of processOne does to its item: it keeps working on it, pauses
\* it at a gate, or closes it.
LEMMA WorkingStep ==
  ASSUME TypeOK, Assigned, NEW d \in Daemons, daemon[d].pc \in Working,
         DaemonStep(d) \/ StoreError(d)
  PROVE  /\ Alone(d)
         /\ StayStep(d) \/ RunStep(d) \/ PauseStep(d) \/ FinishStep(d) \/ LeaveStep(d)
  <1> DEFINE i == daemon[d].item
  <1>a. i \in Items /\ QueueTypeOK
    BY DEF Assigned, TypeOK
  <1>b. UNCHANGED queueVars => life' = life
    BY DEF queueVars, life
  <1>c. ASSUME NEW p, NEW status \in {"skipped", "succeeded", "failed"},
               UpdateFactoryWorkItemPhase(i, p, status)
        PROVE  life' = life
    BY <1>a, <1>c, PhaseWriteEffect
  <1>d. ASSUME NEW p, UpdateFactoryWorkItemPhase(i, p, "running")
        PROVE  life' = [life EXCEPT ![i] = "running"]
    BY <1>a, <1>d, PhaseWriteEffect
  <1> USE MoveKeepsOrFrees
  <1>1. CASE Claim(d)
    BY <1>1 DEF Claim, At, Working
  <1>2. CASE PlanPhase(d)
    BY <1>2, <1>c, <1>d DEF PlanPhase, At, Working, StayStep, RunStep
  <1>3. CASE RunPlanner(d)
    BY <1>3, <1>b DEF RunPlanner, At, Working, StayStep
  <1>4. CASE PlanSucceeded(d)
    BY <1>4, <1>c DEF PlanSucceeded, At, Working, StayStep
  <1>5. CASE Gate(d)
    BY <1>5, <1>b DEF Gate, PassGate, At, Working, StayStep
  <1>6. CASE WaitForApproval(d)
    BY <1>6, <1>a, PhaseWriteEffect DEF WaitForApproval, At, Working, PauseStep
  <1>7. CASE EnterPhase(d)
    BY <1>7, <1>b, <1>d DEF EnterPhase, At, Working, StayStep, RunStep
  <1>8. CASE StartImplement(d)
    <2>1. /\ daemon[d].pc = "exec" /\ life' = life
          /\ \E ok, hash :
               \/ daemon' = [daemon EXCEPT ![d].pc = "report", ![d].ok = ok]
               \/ daemon' = [daemon EXCEPT ![d].pc = "building", ![d].hash = hash]
      BY <1>8, <1>b, Zenon DEF StartImplement, At
    <2> QED BY <2>1 DEF Working, StayStep
  <1>9. CASE FinishImplement(d)
    <2>1. /\ daemon[d].pc = "building" /\ life' = life
          /\ \E ok : daemon' = [daemon EXCEPT ![d].pc = "report", ![d].ok = ok]
      BY <1>9, <1>b, Zenon DEF FinishImplement, At
    <2> QED BY <2>1 DEF Working, StayStep
  <1>10. CASE RunTarget(d)
    BY <1>10, <1>b DEF RunTarget, At, Working, StayStep
  <1>11. CASE ReportPhase(d)
    BY <1>11, <1>c DEF ReportPhase, At, Working, StayStep
  <1>12. CASE Complete(d)
    BY <1>12, <1>a, FinishEffect DEF Complete, CompleteFactoryWorkItem, At, FinishStep
  <1>13. CASE FailItem(d)
    BY <1>13, <1>a, FinishEffect DEF FailItem, FailFactoryWorkItem, At, Working, FinishStep
  <1>14. CASE StoreError(d)
    <2>1. life' = life
      BY <1>14, <1>b DEF StoreError
    <2>2. \/ Goto(d, "fail") /\ daemon[d].pc # "fail"
          \/ Goto(d, "failagain") /\ daemon[d].pc # "fail"
          \/ Return(d)
          \/ /\ daemon[d].pc = "building"
             /\ daemon' = [daemon EXCEPT ![d].pc = "report", ![d].ok = FALSE]
      BY <1>14 DEF StoreError, At
    <2> QED BY <2>1, <2>2 DEF Working, StayStep, LeaveStep
  <1> QED
    BY <1>1, <1>2, <1>3, <1>4, <1>5, <1>6, <1>7, <1>8, <1>9, <1>10, <1>11, <1>12,
       <1>13, <1>14
    DEF DaemonStep

-----------------------------------------------------------------------------
(* Every step, as lifecycles and workers see it *)

WorkStep(d) ==
  /\ daemon[d].pc \in Working /\ Alone(d)
  /\ StayStep(d) \/ RunStep(d) \/ PauseStep(d) \/ FinishStep(d) \/ LeaveStep(d)
TakeStep(d, i) ==
  /\ daemon[d].pc \notin Working /\ Alone(d)
  /\ life[i] \in {"pending", "waiting_approval"}
  /\ life' = [life EXCEPT ![i] = "claimed"]
  /\ daemon'[d].pc = "plan" /\ daemon'[d].item = i
\* Start, Stop and what a renewal does: nobody works who did not before.
IdleStep(d) ==
  life' = life /\ Alone(d) /\ (Frees(d) \/ daemon'[d] = daemon[d])
SubmitStep(i) ==
  life[i] = "none" /\ life' = [life EXCEPT ![i] = "pending"] /\ UNCHANGED daemon
CancelStep(i) ==
  life[i] = "pending" /\ life' = [life EXCEPT ![i] = "cancelled"] /\ UNCHANGED daemon
RejectStep(i) ==
  Rejecters # {} /\ life' = [life EXCEPT ![i] = "failed"] /\ UNCHANGED daemon
QuietStep == UNCHANGED <<life, daemon>>

\* A new item is pending; no other item changes its lifecycle.
LEMMA EnqueueEffect ==
  ASSUME QueueTypeOK, NEW i \in Items, NEW new, EnqueueFactoryWorkItem(i, new)
  PROVE  life[i] = "none" /\ life' = [life EXCEPT ![i] = "pending"]
  BY DEF QueueTypeOK, WorkItem, EnqueueFactoryWorkItem, InsertFactoryWorkItem, life

\* Every step of a daemon is of one of the kinds the lifecycle knows.
LEMMA DaemonStepKinds ==
  ASSUME TypeOK, Assigned, NEW d \in Daemons,
         \/ Start(d) \/ Renew(d) \/ RenewRefused(d) \/ Stop(d) \/ Crash(d)
         \/ DaemonStep(d) \/ StoreError(d)
  PROVE  WorkStep(d) \/ IdleStep(d) \/ \E i \in Items : TakeStep(d, i)
  <1>a. daemon \in [Daemons -> DaemonState] /\ QueueTypeOK
    BY DEF TypeOK
  <1>b. UNCHANGED items => life' = life
    BY DEF life
  <1>c. ASSUME NEW pc \in {"idle", "dead"}, daemon' = [daemon EXCEPT ![d] = Free(pc)]
        PROVE  Alone(d) /\ Frees(d)
    BY <1>a, <1>c DEF Free, Alone, Frees, Working
  <1>1. CASE Start(d)
    BY <1>1, <1>b, <1>c DEF Start, AcquireFactoryDaemonLease, IdleStep
  <1>2. CASE Renew(d) \/ RenewRefused(d)
    BY <1>2, <1>b
    DEF Renew, RenewRefused, RenewFactoryDaemonLease, queueVars, daemonVars, IdleStep, Alone
  <1>3. CASE Stop(d)
    BY <1>3, <1>b, <1>c DEF Stop, ReleaseFactoryDaemonLease, queueVars, IdleStep
  <1>4. CASE Crash(d)
    BY <1>4, <1>b, <1>c DEF Crash, queueVars, IdleStep
  <1>5. CASE daemon[d].pc \in Working /\ (DaemonStep(d) \/ StoreError(d))
    BY <1>5, WorkingStep DEF WorkStep
  <1>6. CASE Claim(d)
    <2>1. PICK now \in Times, i \in Items :
            /\ ClaimNextFactoryWorkItem(Factory, d, now, i)
            /\ daemon' = [daemon EXCEPT ![d] = [Free("plan") EXCEPT !.item = i]]
      BY <1>6 DEF Claim
    <2>2. /\ life[i] \in {"pending", "waiting_approval"}
          /\ life' = [life EXCEPT ![i] = "claimed"]
      BY <1>a, <2>1 DEF ClaimNextFactoryWorkItem, Claimable, QueueTypeOK, WorkItem, life
    <2>3. Alone(d) /\ daemon'[d].pc = "plan" /\ daemon'[d].item = i
      BY <1>a, <2>1 DEF Free, Alone
    <2> QED BY <1>6, <2>2, <2>3 DEF Claim, At, Working, TakeStep
  <1>7. DaemonStep(d) \/ StoreError(d) => Claim(d) \/ daemon[d].pc \in Working
    BY DEF DaemonStep, PlanPhase, RunPlanner, PlanSucceeded, Gate, WaitForApproval,
           EnterPhase, StartImplement, FinishImplement, RunTarget, ReportPhase, Complete,
           FailItem, StoreError, At, Working
  <1> QED BY <1>1, <1>2, <1>3, <1>4, <1>5, <1>6, <1>7

\* Every step of a decision is of one of the kinds the lifecycle knows.
LEMMA ReviewStepKinds ==
  ASSUME TypeOK, Assigned, ReviewNext
  PROVE  QuietStep \/ \E i \in Items : SubmitStep(i) \/ RejectStep(i)
  <1> SUFFICES ASSUME NEW r \in Reviewers,
                      \/ ListWaiting(r) \/ EndBatch(r) \/ BeginProviderApproval(r)
                      \/ \E i \in Items, p \in Phases : BeginCliApproval(r, i, p)
                      \/ Approve(r) \/ EnqueueRetry(r) \/ FailRejected(r)
               PROVE  QuietStep \/ \E i \in Items : SubmitStep(i) \/ RejectStep(i)
    BY DEF ReviewNext
  <1>a. QueueTypeOK /\ (reviewer[r].pc # "idle" => reviewer[r].item \in Items)
    BY DEF TypeOK, Assigned
  <1>b. UNCHANGED items /\ UNCHANGED daemon => QuietStep
    BY DEF QuietStep, life
  <1>1. CASE \/ ListWaiting(r) \/ EndBatch(r) \/ BeginProviderApproval(r)
             \/ \E i \in Items, p \in Phases : BeginCliApproval(r, i, p)
    BY <1>1, <1>b
    DEF ListWaiting, EndBatch, BeginProviderApproval, BeginCliApproval, queueVars
  <1>2. CASE Approve(r)
    BY <1>2, <1>b DEF Approve, RecordFactoryApproval, queueVars
  <1>3. CASE EnqueueRetry(r)
    <2>1. /\ UNCHANGED daemon
          /\ \/ UNCHANGED items
             \/ \E j \in Items : \E new : EnqueueFactoryWorkItem(j, new)
      BY <1>3 DEF EnqueueRetry, queueVars
    <2> QED BY <1>a, <1>b, <2>1, EnqueueEffect DEF SubmitStep
  <1>4. CASE FailRejected(r)
    BY <1>4, <1>a, FinishEffect DEF FailRejected, FailFactoryWorkItem, RejectStep, Assigned
  <1> QED BY <1>1, <1>2, <1>3, <1>4

\* Submission and cancellation are of the kinds the lifecycle knows.
LEMMA UserStepKinds ==
  ASSUME TypeOK, UserNext
  PROVE  QuietStep \/ \E i \in Items : SubmitStep(i) \/ CancelStep(i)
  <1> SUFFICES ASSUME NEW i \in Items, Submit(i) \/ Cancel(i) \/ EditPlan(i)
               PROVE  QuietStep \/ SubmitStep(i) \/ CancelStep(i)
    BY DEF UserNext
  <1>1. CASE Submit(i)
    BY <1>1, EnqueueEffect DEF Submit, daemonVars, SubmitStep, TypeOK
  <1>2. CASE Cancel(i)
    BY <1>2
    DEF Cancel, CancelFactoryWorkItem, daemonVars, CancelStep, life, TypeOK, QueueTypeOK, WorkItem
  <1>3. CASE EditPlan(i)
    BY <1>3 DEF EditPlan, queueVars, QuietStep, life
  <1> QED BY <1>1, <1>2, <1>3

\* Every step of the system is of one of the kinds the lifecycle knows.
LEMMA StepKinds ==
  ASSUME TypeOK, Assigned, [Next]_vars
  PROVE  \/ \E d \in Daemons : WorkStep(d) \/ IdleStep(d)
         \/ \E d \in Daemons, i \in Items : TakeStep(d, i)
         \/ \E i \in Items : SubmitStep(i) \/ CancelStep(i) \/ RejectStep(i)
         \/ QuietStep
  <1>1. UNCHANGED vars => QuietStep
    BY DEF vars, queueVars, daemonVars, QuietStep, life
  <1> QED BY <1>1, DaemonStepKinds, ReviewStepKinds, UserStepKinds DEF Next, DaemonNext

-----------------------------------------------------------------------------
(* Exclusive workers *)

\* The item in a daemon's hand is not on offer: it is neither pending nor
\* waiting, whatever rejections and other daemons did to it meanwhile.
HeldItemsAreNotOffered ==
  \A d \in Daemons : daemon[d].pc \in Working =>
    life[daemon[d].item] \in {"claimed", "running", "completed", "failed"}

\* The lifecycles form a function on the Work Items.
LEMMA LifeTypes == ASSUME QueueTypeOK PROVE life = [i \in Items |-> life[i]]
  BY DEF life

\* Two daemons never work on one item, although nothing fences the writes of a
\* daemon that lost its lease (ClaimNextFactoryWorkItem, processOne): not with
\* crashes, not with failing stores, not when the item is rejected meanwhile.
THEOREM WorkersAreExclusive == Spec => [](OneWorkerPerItem /\ HeldItemsAreNotOffered)
  <1> DEFINE IInv == OneWorkerPerItem /\ HeldItemsAreNotOffered
  <1>1. Init => IInv
    BY DEF Init, Free, Works, Working, OneWorkerPerItem, HeldItemsAreNotOffered
  <1>2. TypeOK /\ Assigned /\ IInv /\ [Next]_vars => IInv'
    <2> SUFFICES ASSUME TypeOK, Assigned, IInv, [Next]_vars PROVE IInv'
      OBVIOUS
    <2>a. QueueTypeOK
      BY DEF TypeOK
    <2> USE <2>a, LifeTypes
        DEF OneWorkerPerItem, HeldItemsAreNotOffered, Works
    <2>b. \A d \in Daemons : daemon[d].pc \in Working => daemon[d].item \in Items
      BY DEF Assigned
    <2>1. ASSUME NEW d \in Daemons, WorkStep(d) PROVE IInv'
      <3>1. daemon[d].pc \in Working /\ daemon[d].item \in Items /\ Alone(d)
        BY <2>1, <2>b DEF WorkStep
      <3>2. \A e \in Daemons \ {d} :
              /\ daemon'[e] = daemon[e]
              /\ daemon[e].pc \in Working => daemon[e].item # daemon[d].item
        BY <2>b, <3>1 DEF Alone
      <3>3. Keeps(d) \/ Frees(d)
        BY <2>1 DEF WorkStep, StayStep, RunStep, PauseStep, FinishStep, LeaveStep
      <3>4. OneWorkerPerItem'
        BY <3>1, <3>2, <3>3 DEF Keeps, Frees
      <3>5. \A j \in Items \ {daemon[d].item} : life'[j] = life[j]
        BY <2>1, <3>1
        DEF WorkStep, StayStep, RunStep, PauseStep, FinishStep, LeaveStep
      <3>6. Keeps(d) => life'[daemon[d].item] \in {"claimed", "running", "completed", "failed"}
        BY <2>1, <3>1
        DEF WorkStep, StayStep, RunStep, PauseStep, FinishStep, LeaveStep, Keeps, Frees
      <3>7. HeldItemsAreNotOffered'
        BY <2>b, <3>1, <3>2, <3>3, <3>5, <3>6 DEF Keeps, Frees
      <3> QED BY <3>4, <3>7
    <2>2. ASSUME NEW d \in Daemons, IdleStep(d) PROVE IInv'
      BY <2>2 DEF IdleStep, Alone, Frees
    <2>3. ASSUME NEW d \in Daemons, NEW i \in Items, TakeStep(d, i) PROVE IInv'
      <3>1. \A e \in Daemons : daemon[e].pc \in Working => daemon[e].item # i
        BY <2>3 DEF TakeStep
      <3>2. /\ \A e \in Daemons \ {d} : daemon'[e] = daemon[e]
            /\ daemon'[d].item = i
            /\ life'[i] = "claimed" /\ \A j \in Items \ {i} : life'[j] = life[j]
        BY <2>3 DEF TakeStep, Alone
      <3> QED BY <2>b, <3>1, <3>2
    <2>4. ASSUME NEW i \in Items, SubmitStep(i) \/ CancelStep(i) PROVE IInv'
      BY <2>4, <2>b DEF SubmitStep, CancelStep
    <2>5. ASSUME NEW i \in Items, RejectStep(i) PROVE IInv'
      BY <2>5, <2>b DEF RejectStep
    <2>6. CASE QuietStep
      BY <2>6 DEF QuietStep
    <2> QED BY <2>1, <2>2, <2>3, <2>4, <2>5, <2>6, StepKinds
  <1> QED BY <1>1, <1>2, DaemonTypesHold, PTL DEF Spec

\* Whatever the daemons, the operator and the provider do: every state is well-formed
\* and no item is worked on twice (processOne, ClaimNextFactoryWorkItem).
THEOREM WorkersStayApart == Spec => []WorkersAreApart
  BY DaemonTypesHold, WorkersAreExclusive, PTL DEF WorkersAreApart

-----------------------------------------------------------------------------
(* The queue as its users see it *)

\* Without rejections the item in a daemon's hand is still to be finished, but
\* for the one processOne is about to fail a second time.
HeldItemsAreUnfinished ==
  \A d \in Daemons : daemon[d].pc \in Working =>
    \/ life[daemon[d].item] \in {"claimed", "running"}
    \/ daemon[d].pc = "fail" /\ life[daemon[d].item] = "failed"

\* With exclusive workers, whoever works on an item is its worker.
LEMMA WorkerIsWhoWorks ==
  ASSUME OneWorkerPerItem, NEW i \in Items
  PROVE  /\ \A d \in Daemons : Works(d, i) => WorkerOf(i) = d
         /\ WorkerOf(i) = None <=> \A d \in Daemons : ~Works(d, i)
         /\ WorkerOf(i) \in Daemons => Works(WorkerOf(i), i)
  BY QueueAssumption DEF OneWorkerPerItem, WorkerOf

worker == [i \in Items |-> WorkerOf(i)]

\* How the steps move workers.
LEMMA WorkersStay ==
  ASSUME OneWorkerPerItem, OneWorkerPerItem',
         \A e \in Daemons, i \in Items : Works(e, i)' <=> Works(e, i)
  PROVE  worker' = worker
  <1>1. ASSUME NEW i \in Items PROVE WorkerOf(i)' = WorkerOf(i)
    BY WorkerIsWhoWorks DEF WorkerOf
  <1> QED BY <1>1 DEF worker

\* A daemon that lets its item go leaves it without a worker.
LEMMA WorkerLeaves ==
  ASSUME OneWorkerPerItem, OneWorkerPerItem', NEW d \in Daemons, NEW i \in Items, Works(d, i),
         \A e \in Daemons, j \in Items : Works(e, j)' <=> Works(e, j) /\ e # d
  PROVE  worker[i] = d /\ worker' = [worker EXCEPT ![i] = None]
  <1>1. WorkerOf(i) = d /\ WorkerOf(i)' = None
    BY WorkerIsWhoWorks DEF WorkerOf
  <1>2. ASSUME NEW j \in Items \ {i} PROVE WorkerOf(j)' = WorkerOf(j)
    <2>1. ~Works(d, j)
      BY DEF Works
    <2>2. \A e \in Daemons : Works(e, j)' <=> Works(e, j)
      BY <2>1
    <2> QED BY <2>2 DEF WorkerOf
  <1> QED BY <1>1, <1>2 DEF worker

\* A daemon that claims a free item becomes its worker.
LEMMA WorkerTakes ==
  ASSUME OneWorkerPerItem, OneWorkerPerItem', NEW d \in Daemons, NEW i \in Items,
         \A j \in Items : ~Works(d, j),  \A e \in Daemons : ~Works(e, i),
         \A e \in Daemons, j \in Items : Works(e, j)' <=> Works(e, j) \/ (e = d /\ j = i)
  PROVE  /\ worker[i] = None /\ \A j \in Items : worker[j] # d
         /\ worker' = [worker EXCEPT ![i] = d]
  <1>1. WorkerOf(i) = None /\ WorkerOf(i)' = d
    <2>1. Works(d, i)'
      OBVIOUS
    <2>2. \A e \in Daemons : Works(e, i)' => e = d
      OBVIOUS
    <2> QED BY <2>1, <2>2 DEF WorkerOf
  <1>2. ASSUME NEW j \in Items \ {i} PROVE WorkerOf(j)' = WorkerOf(j) /\ WorkerOf(j) # d
    <2>1. \A e \in Daemons : Works(e, j)' <=> Works(e, j)
      OBVIOUS
    <2>2. WorkerOf(j)' = WorkerOf(j)
      BY <2>1 DEF WorkerOf
    <2> QED BY <2>2, WorkerIsWhoWorks
  <1>3. d # None
    BY QueueAssumption
  <1> QED BY <1>1, <1>2, <1>3 DEF worker

\* As long as nobody rejects, the daemons, pollers and operators together are
\* the queue of WorkItemLifecycle: outcomes are final, and an item is taken,
\* worked on and let go by one daemon at a time (processOne).
THEOREM DaemonImplementsLifecycle ==
  ASSUME Rejecters = {} PROVE Spec => ImplementsLifecycle
  <1> DEFINE IInv == OneWorkerPerItem /\ HeldItemsAreUnfinished
  <1>1. Init => HeldItemsAreUnfinished /\ Lifecycle!Init
    <2> SUFFICES ASSUME Init PROVE HeldItemsAreUnfinished /\ Lifecycle!Init
      OBVIOUS
    <2>1. \A d \in Daemons : daemon[d].pc \notin Working
      BY DEF Init, Free, Working
    <2>2. \A i \in Items : items[i].lifecycle = "none"
      BY DEF Init, QueueInit, NoItem
    <2> QED BY <2>1, <2>2
      DEF HeldItemsAreUnfinished, Lifecycle!Init, WorkerOf, Works
  <1>2. /\ TypeOK /\ Assigned /\ OneWorkerPerItem /\ OneWorkerPerItem'
        /\ HeldItemsAreUnfinished /\ [Next]_vars
        => HeldItemsAreUnfinished' /\ [Lifecycle!Next]_<<life, worker>>
    <2> SUFFICES ASSUME TypeOK, Assigned, OneWorkerPerItem, OneWorkerPerItem',
                        HeldItemsAreUnfinished, [Next]_vars
                 PROVE  HeldItemsAreUnfinished' /\ [Lifecycle!Next]_<<life, worker>>
      OBVIOUS
    <2>a. QueueTypeOK /\ life = [i \in Items |-> life[i]]
      BY LifeTypes DEF TypeOK
    <2>b. \A d \in Daemons : daemon[d].pc \in Working =>
            daemon[d].item \in Items /\ Works(d, daemon[d].item)
      BY DEF Assigned, Works
    <2>c. \A i \in Items :
            \/ Lifecycle!Submit(i) \/ Lifecycle!Cancel(i) \/ Lifecycle!Run(i)
            \/ Lifecycle!Pause(i) \/ Lifecycle!Finish(i) \/ Lifecycle!Leave(i)
            \/ \E w \in Daemons : Lifecycle!Take(i, w)
            => Lifecycle!Next
      BY DEF Lifecycle!Next
    <2> USE DEF HeldItemsAreUnfinished
    <2>1. ASSUME NEW d \in Daemons, WorkStep(d)
          PROVE  HeldItemsAreUnfinished' /\ [Lifecycle!Next]_<<life, worker>>
      <3>0. PICK i \in Items : i = daemon[d].item
        BY <2>1, <2>b DEF WorkStep
      <3>a. /\ daemon[d].pc \in Working /\ daemon[d].item = i /\ Works(d, i)
            /\ \A e \in Daemons \ {d} :
                 /\ daemon'[e] = daemon[e]
                 /\ daemon[e].pc \in Working => daemon[e].item # i
        BY <2>1, <2>b, <3>0 DEF WorkStep, Alone, OneWorkerPerItem, Works
      <3>b. Keeps(d) => worker' = worker
        BY <3>a, WorkersStay DEF Keeps, Works
      <3>c. Frees(d) => worker[i] = d /\ worker' = [worker EXCEPT ![i] = None]
        BY <3>a, WorkerLeaves DEF Frees, Works
      <3>d. worker[i] # None
        BY <3>a, WorkerIsWhoWorks, QueueAssumption DEF worker
      <3>e. daemon[d].pc # "fail" => life[i] \in {"claimed", "running"}
        BY <3>a
      <3>1. CASE StayStep(d)
        BY <2>b, <3>1, <3>a, <3>b, <3>e DEF StayStep, Keeps
      <3>2. CASE RunStep(d)
        <4>1. Lifecycle!Run(i)
          BY <3>2, <3>a, <3>b, <3>d, <3>e DEF RunStep, Lifecycle!Run, life, worker
        <4>2. HeldItemsAreUnfinished'
          BY <2>a, <2>b, <3>2, <3>a DEF RunStep, Keeps
        <4>3. Lifecycle!Next
          BY ONLY <2>c, <3>a, <4>1
        <4> QED BY ONLY <4>2, <4>3
      <3>3. CASE PauseStep(d)
        <4>1. Lifecycle!Pause(i)
          BY <3>3, <3>a, <3>c, <3>d, <3>e DEF PauseStep, Lifecycle!Pause, life, worker
        <4>2. HeldItemsAreUnfinished'
          BY <2>a, <2>b, <3>3, <3>a DEF PauseStep, Frees
        <4>3. Lifecycle!Next
          BY ONLY <2>c, <3>a, <4>1
        <4> QED BY ONLY <4>2, <4>3
      <3>4. CASE FinishStep(d)
        <4>1. PICK outcome \in {"completed", "failed"} :
                /\ life' = [life EXCEPT ![i] = outcome]
                /\ daemon[d].pc = "fail" => outcome = "failed"
                /\ \/ Frees(d)
                   \/ Keeps(d) /\ outcome = "failed" /\ daemon'[d].pc = "fail" /\ daemon[d].pc # "fail"
          BY <3>4, <3>a DEF FinishStep
        <4>2. HeldItemsAreUnfinished'
          BY <2>a, <2>b, <4>1, <3>a DEF Frees, Keeps
        <4>3. CASE life[i] \in {"claimed", "running"}
          <5>1. Lifecycle!Finish(i)
            BY <4>1, <4>3, <3>b, <3>c, <3>d DEF Lifecycle!Finish, life, worker
          <5>2. Lifecycle!Next
            BY ONLY <2>c, <3>a, <5>1
          <5> QED BY ONLY <4>2, <5>2
        <4>4. CASE daemon[d].pc = "fail" /\ life[i] = "failed"
          <5>1. life' = life /\ Frees(d)
            BY <2>a, <3>a, <4>1, <4>4
          <5>2. Lifecycle!Leave(i)
            BY <5>1, <3>c, <3>d DEF Lifecycle!Leave, life, worker
          <5> QED BY <2>c, <3>a, <4>2, <5>2
        <4> QED BY <3>a, <4>3, <4>4
      <3>5. CASE LeaveStep(d)
        <4>1. Lifecycle!Leave(i)
          BY <3>5, <3>c, <3>d DEF LeaveStep, Lifecycle!Leave, life, worker
        <4>2. HeldItemsAreUnfinished'
          BY <2>b, <3>5, <3>a DEF LeaveStep, Frees
        <4>3. Lifecycle!Next
          BY ONLY <2>c, <3>a, <4>1
        <4> QED BY ONLY <4>2, <4>3
      <3> QED BY <2>1, <3>1, <3>2, <3>3, <3>4, <3>5 DEF WorkStep
    <2>2. ASSUME NEW d \in Daemons, IdleStep(d)
          PROVE  HeldItemsAreUnfinished' /\ [Lifecycle!Next]_<<life, worker>>
      <3>1. CASE daemon[d].pc \in Working /\ Frees(d)
        <4> DEFINE i == daemon[d].item
        <4>1. worker[i] = d /\ worker' = [worker EXCEPT ![i] = None]
          BY <2>2, <2>b, <3>1, WorkerLeaves DEF IdleStep, Alone, Frees, Works
        <4>2. Lifecycle!Leave(i)
          BY <2>2, <4>1, QueueAssumption DEF IdleStep, Lifecycle!Leave, life, worker
        <4> QED BY <2>2, <2>b, <2>c, <3>1, <4>2 DEF IdleStep, Alone, Frees
      <3>2. CASE daemon[d].pc \notin Working \/ daemon'[d] = daemon[d]
        <4>1. worker' = worker
          BY <2>2, <3>2, WorkersStay DEF IdleStep, Alone, Frees, Works
        <4> QED BY <2>2, <3>2, <4>1 DEF IdleStep, Alone, Frees
      <3> QED BY <2>2, <3>1, <3>2 DEF IdleStep
    <2>3. ASSUME NEW d \in Daemons, NEW i \in Items, TakeStep(d, i)
          PROVE  HeldItemsAreUnfinished' /\ [Lifecycle!Next]_<<life, worker>>
      <3>1. /\ \A e \in Daemons : daemon[e].pc \in Working => daemon[e].item # i
            /\ \A e \in Daemons \ {d} : daemon'[e] = daemon[e]
            /\ daemon[d].pc \notin Working
            /\ daemon'[d].pc \in Working /\ daemon'[d].item = i
        BY <2>3 DEF TakeStep, Alone, Working
      <3>2. /\ worker[i] = None /\ \A j \in Items : worker[j] # d
            /\ worker' = [worker EXCEPT ![i] = d]
        BY <3>1, WorkerTakes DEF Works
      <3>3. Lifecycle!Take(i, d)
        BY <2>3, <3>2 DEF TakeStep, Lifecycle!Take, life, worker
      <3>4. HeldItemsAreUnfinished'
        BY <2>3, <2>a, <2>b, <3>1 DEF TakeStep
      <3> QED BY <2>c, <3>3, <3>4
    <2>4. ASSUME NEW i \in Items, SubmitStep(i) \/ CancelStep(i)
          PROVE  HeldItemsAreUnfinished' /\ [Lifecycle!Next]_<<life, worker>>
      <3>1. worker' = worker
        BY <2>4, WorkersStay DEF SubmitStep, CancelStep, Works
      <3>2. Lifecycle!Submit(i) \/ Lifecycle!Cancel(i)
        BY <2>4, <3>1
        DEF SubmitStep, CancelStep, Lifecycle!Submit, Lifecycle!Cancel, life, worker
      <3>3. HeldItemsAreUnfinished'
        BY <2>4, <2>a, <2>b DEF SubmitStep, CancelStep
      <3> QED BY <2>c, <3>2, <3>3
    <2>5. CASE QuietStep
      BY <2>5, WorkersStay DEF QuietStep, Works
    <2> QED BY <2>1, <2>2, <2>3, <2>4, <2>5, StepKinds DEF RejectStep
  <1>3. [Lifecycle!Next]_<<life, worker>> => [Lifecycle!Next]_(Lifecycle!lifecycleVars)
    BY DEF Lifecycle!lifecycleVars, life, worker
  <1> QED
    BY <1>1, <1>2, <1>3, DaemonTypesHold, WorkersAreExclusive, PTL
    DEF Spec, ImplementsLifecycle, Lifecycle!Spec

-----------------------------------------------------------------------------
(* What a Work Item goes through *)

\* Plan files are edited only while nobody works on their items.
EditsWait == EditableIn \subseteq {"none", "pending", "waiting_approval"}

Passed(i, k) == phases[i][Workflow[k]] \in {"succeeded", "skipped"}

\* What a daemon can rely on at each place of processOne.
Owns(d) ==
  LET i == daemon[d].item IN
  daemon[d].pc \in Working => items[i].claimed_by = d /\ items[i].lifecycle # "completed"

Places(d) ==
  /\ daemon[d].pc \in {"plan", "planning", "planned"} => daemon[d].at = 1
  /\ daemon[d].pc \in {"enter", "exec", "building", "report"} => daemon[d].at > 1
  /\ daemon[d].pc = "building" => daemon[d].at = 2

Cleared(d) ==
  daemon[d].pc \in {"enter", "exec", "building", "report"} /\ Phase(d) \in Gated =>
    Approved(daemon[d].item, Phase(d))

Built(d) ==
  /\ daemon[d].pc \in Working /\ daemon[d].at > 2 =>
       ledger[daemon[d].item].status = "implemented"
  /\ daemon[d].pc = "report" /\ daemon[d].at = 2 /\ daemon[d].ok =>
       ledger[daemon[d].item].status = "implemented"

Progress(d) ==
  \A k \in Steps :
    /\ \/ daemon[d].pc \in Working /\ k < daemon[d].at
       \/ daemon[d].pc = "complete"
       \/ daemon[d].pc = "gate" /\ k = 1
    /\ RecordsPhase(Workflow[k])
    => Passed(daemon[d].item, k)

\* The text in hand was approved.
HashApproved(i, hash) ==
  \E a \in approvals : a.item = i /\ a.phase = "plan" /\ a.plan_hash = hash

Reads(d) ==
  /\ daemon[d].pc \in Working /\ daemon[d].at > 1 /\ "plan" \in Gated =>
       HashApproved(daemon[d].item, plan[daemon[d].item])
  /\ daemon[d].pc = "building" => daemon[d].hash = plan[daemon[d].item]

Knows(d) == Owns(d) /\ Places(d) /\ Cleared(d) /\ Built(d) /\ Progress(d)

-----------------------------------------------------------------------------
(* What a step leaves alone *)

\* The rows of item i, as the daemon that works on it left them.  Someone else may
\* have failed it.
RowsKept(i) ==
  /\ phases'[i] = phases[i] /\ ledger'[i] = ledger[i]
  /\ items'[i].claimed_by = items[i].claimed_by
  /\ items'[i].lifecycle \in {items[i].lifecycle, "failed"}

\* Approvals are kept.
LEMMA ApprovalsStay ==
  ASSUME [QueueNext]_queueVars PROVE approvals \subseteq approvals'
  BY DEF QueueNext, LeaseNext, ItemNext, queueVars, AcquireFactoryDaemonLease,
         RenewFactoryDaemonLease, ReleaseFactoryDaemonLease, ClaimNextFactoryWorkItem,
         UpdateFactoryWorkItemPhase, CompleteFactoryWorkItem, FailFactoryWorkItem,
         FinishFactoryWorkItem, CancelFactoryWorkItem, EnqueueFactoryWorkItem,
         InsertFactoryWorkItem, UpdatePendingFactoryWorkItem, RecordFactoryApproval

\* Calls about one item leave the others alone.
LEMMA PhaseWriteRows ==
  ASSUME QueueTypeOK, NEW i \in Items, NEW p \in Phases, NEW status,
         UpdateFactoryWorkItemPhase(i, p, status)
  PROVE  /\ \A j \in Items \ {i} : phases'[j] = phases[j] /\ items'[j] = items[j]
         /\ phases'[i][p] = status
         /\ \A q \in Phases \ {p} : phases'[i][q] = phases[i][q]
         /\ status # "waiting_approval" =>
              /\ items'[i].claimed_by = items[i].claimed_by
              /\ items'[i].lifecycle \in {items[i].lifecycle, "running"}
         /\ status = "waiting_approval" => items'[i].lifecycle = "waiting_approval"
         /\ items'[i].failure = items[i].failure
         /\ UNCHANGED approvals
  <1>a. items[i] \in WorkItem /\ items \in [Items -> WorkItem] /\ phases \in [Items -> [Phases -> PhaseStatuses]]
    BY DEF QueueTypeOK
  <1>1. /\ \A j \in Items \ {i} : phases'[j] = phases[j]
        /\ phases'[i][p] = status /\ \A q \in Phases \ {p} : phases'[i][q] = phases[i][q]
        /\ UNCHANGED approvals
    BY <1>a DEF UpdateFactoryWorkItemPhase
  <1>2. CASE status = "running"
    <2> DEFINE next == [items[i] EXCEPT !.lifecycle = "running", !.current_phase = p]
    <2>1. items' = [items EXCEPT ![i] = next]
      BY <1>2 DEF UpdateFactoryWorkItemPhase
    <2>2. next.failure = items[i].failure /\ next.claimed_by = items[i].claimed_by
          /\ next.lifecycle = "running"
      BY <1>a DEF WorkItem
    <2> HIDE DEF next
    <2> QED BY <1>a, <1>1, <1>2, <2>1, <2>2
  <1>3. CASE status = "waiting_approval"
    <2> DEFINE next == [items[i] EXCEPT !.lifecycle = "waiting_approval", !.current_phase = p,
                                        !.claimed_by = None]
    <2>1. items' = [items EXCEPT ![i] = next]
      BY <1>3 DEF UpdateFactoryWorkItemPhase
    <2>2. next.failure = items[i].failure /\ next.lifecycle = "waiting_approval"
      BY <1>a DEF WorkItem
    <2> HIDE DEF next
    <2> QED BY <1>a, <1>1, <1>3, <2>1, <2>2
  <1>4. CASE status \notin {"running", "waiting_approval"}
    BY <1>1, <1>4 DEF UpdateFactoryWorkItemPhase
  <1> QED BY <1>2, <1>3, <1>4

\* A closing write touches one row, and only its ending.
LEMMA FinishRows ==
  ASSUME QueueTypeOK, NEW i \in Items, NEW lifecycle, NEW cause,
         FinishFactoryWorkItem(i, lifecycle, cause)
  PROVE  /\ \A j \in Items \ {i} : items'[j] = items[j]
         /\ items'[i].claimed_by = items[i].claimed_by /\ items'[i].lifecycle = lifecycle
         /\ UNCHANGED <<phases, approvals>>
  BY DEF QueueTypeOK, WorkItem, FinishFactoryWorkItem

\* Where daemon d goes, and that it takes its item along.
Moved(d, pc, at) ==
  /\ Alone(d) /\ daemon'[d].pc = pc /\ daemon'[d].at = at
  /\ daemon'[d].item = daemon[d].item
Left(d) == Alone(d) /\ daemon'[d].pc = "idle"
WentOn(d) ==
  \/ daemon[d].at = Len(Workflow) /\ Moved(d, "complete", daemon[d].at)
  \/ daemon[d].at # Len(Workflow) /\ Moved(d, "gate", daemon[d].at + 1)

\* The places of processOne at which nothing is claimed of the phase it is at.
Between == {"planning", "planned", "wait", "enter", "exec", "report", "fail", "failagain"}

\* How processOne moves on, field by field.
LEMMA Moves ==
  ASSUME TypeOK, NEW d \in Daemons
  PROVE  /\ \A pc : Goto(d, pc) => Moved(d, pc, daemon[d].at) /\ daemon'[d].hash = daemon[d].hash
         /\ NextPhase(d) => WentOn(d)
         /\ Return(d) => Left(d)
         /\ \A ok : daemon' = [daemon EXCEPT ![d].pc = "report", ![d].ok = ok] =>
              Moved(d, "report", daemon[d].at) /\ daemon'[d].ok = ok
         /\ \A hash : daemon' = [daemon EXCEPT ![d].pc = "building", ![d].hash = hash] =>
              Moved(d, "building", daemon[d].at) /\ daemon'[d].hash = hash
  BY DEF TypeOK, DaemonState, Goto, NextPhase, Return, Free, Alone, Moved, Left, WentOn

\* What each step of processOne does, apart from the layout of its state.
Rows == <<items, phases, approvals>>

\* The gates (ensurePlanApproval and the other three): wait, fail, or pass on an approval.
LEMMA GateMoves ==
  ASSUME TypeOK, NEW d \in Daemons, Gate(d)
  PROVE  /\ daemon[d].pc = "gate" /\ UNCHANGED Rows /\ UNCHANGED <<plan, ledger>>
         /\ \/ Moved(d, "wait", daemon[d].at) \/ Moved(d, "failagain", daemon[d].at)
            \/ /\ Phase(d) = "plan" /\ WentOn(d)
               /\ Phase(d) \in Gated => HashApproved(daemon[d].item, plan[daemon[d].item])
            \/ /\ Phase(d) # "plan" /\ Moved(d, "enter", daemon[d].at)
               /\ Phase(d) \in Gated => Approved(daemon[d].item, Phase(d))
  <1> DEFINE i == daemon[d].item
  <1>1. daemon[d].pc = "gate" /\ UNCHANGED Rows /\ UNCHANGED <<plan, ledger>>
    BY DEF Gate, At, queueVars, Rows
  <1>2. Phase(d) = "plan" /\ Phase(d) \in Gated /\ Approved(i, Phase(d))
        /\ ApprovalOf(i, Phase(d)).plan_hash = plan[i] => HashApproved(i, plan[i])
    BY DEF Approved, ApprovalOf, HashApproved
  <1>3. \/ Goto(d, "wait") \/ Goto(d, "failagain")
        \/ /\ Phase(d) = "plan" /\ NextPhase(d)
           /\ Phase(d) \in Gated => HashApproved(i, plan[i])
        \/ /\ Phase(d) # "plan" /\ Goto(d, "enter")
           /\ Phase(d) \in Gated => Approved(i, Phase(d))
    BY <1>2 DEF Gate, PassGate
  <1> QED BY <1>1, <1>3, Moves

\* Where planexecute.Implement leaves the ledger before the agent runs.
LEMMA ImplementMoves ==
  ASSUME TypeOK, NEW d \in Daemons, StartImplement(d)
  PROVE  /\ daemon[d].pc = "exec" /\ Phase(d) = "implement"
         /\ UNCHANGED Rows /\ UNCHANGED plan
         /\ \/ /\ Moved(d, "report", daemon[d].at) /\ ledger' = ledger
               /\ daemon'[d].ok => ledger[daemon[d].item].status = "implemented"
            \/ /\ Moved(d, "report", daemon[d].at) /\ ~daemon'[d].ok
               /\ ledger' = [ledger EXCEPT ![daemon[d].item] =
                               [status |-> "pending", hash |-> plan[daemon[d].item]]]
            \/ /\ Moved(d, "building", daemon[d].at) /\ daemon'[d].hash = plan[daemon[d].item]
               /\ ledger' = [ledger EXCEPT ![daemon[d].item] =
                               [status |-> "in_progress", hash |-> plan[daemon[d].item]]]
  <1> DEFINE i == daemon[d].item
             done == ledger[i] = [status |-> "implemented", hash |-> plan[i]]
  <1>1. /\ daemon[d].pc = "exec" /\ Phase(d) = "implement" /\ UNCHANGED Rows /\ UNCHANGED plan
    BY DEF StartImplement, At, queueVars, Rows
  <1>2. done => ledger[i].status = "implemented"
    OBVIOUS
  <1>3. CASE \E ok \in BOOLEAN :
               /\ ok => done
               /\ daemon' = [daemon EXCEPT ![d].pc = "report", ![d].ok = ok]
               /\ UNCHANGED ledger
    BY <1>1, <1>2, <1>3, Moves
  <1>4. CASE /\ daemon' = [daemon EXCEPT ![d].pc = "building", ![d].hash = plan[i]]
             /\ ledger' = [ledger EXCEPT ![i] = [status |-> "in_progress", hash |-> plan[i]]]
    BY <1>1, <1>4, Moves
  <1>5. CASE /\ daemon' = [daemon EXCEPT ![d].pc = "report", ![d].ok = FALSE]
             /\ ledger' = [ledger EXCEPT ![i] = [status |-> "pending", hash |-> plan[i]]]
    BY <1>1, <1>5, Moves
  <1> QED BY <1>3, <1>4, <1>5, Zenon DEF StartImplement

\* A merge, deploy or verify target writes nothing itself.
LEMMA TargetMoves ==
  ASSUME TypeOK, NEW d \in Daemons, RunTarget(d)
  PROVE  /\ daemon[d].pc = "exec" /\ Phase(d) # "implement"
         /\ UNCHANGED Rows /\ UNCHANGED <<plan, ledger>>
         /\ \/ Moved(d, "report", daemon[d].at) \/ Moved(d, "fail", daemon[d].at)
            \/ ~RecordsPhase(Phase(d)) /\ WentOn(d)
  BY Moves DEF RunTarget, At, queueVars, Rows

\* What the agent's end writes into the ledger (planexecute.Implement).
LEMMA FinishMoves ==
  ASSUME TypeOK, NEW d \in Daemons, FinishImplement(d)
  PROVE  /\ daemon[d].pc = "building" /\ UNCHANGED Rows /\ UNCHANGED plan
         /\ Moved(d, "report", daemon[d].at)
         /\ \E status \in {"implemented", "failed"} :
              /\ daemon'[d].ok => status = "implemented"
              /\ ledger' = [ledger EXCEPT ![daemon[d].item] =
                              [status |-> status, hash |-> daemon[d].hash]]
  <1>1. PICK ok \in BOOLEAN :
          /\ daemon' = [daemon EXCEPT ![d].pc = "report", ![d].ok = ok]
          /\ ledger' = [ledger EXCEPT ![daemon[d].item] =
                          [status |-> IF ok THEN "implemented" ELSE "failed",
                           hash |-> daemon[d].hash]]
    BY DEF FinishImplement
  <1>2. Moved(d, "report", daemon[d].at) /\ daemon'[d].ok = ok
    BY <1>1, Moves
  <1> QED BY <1>1, <1>2 DEF FinishImplement, At, queueVars, Rows

\* An error of the store changes where the daemon goes and nothing else.
LEMMA ErrorMoves ==
  ASSUME TypeOK, NEW d \in Daemons, StoreError(d)
  PROVE  /\ StoreMayFail /\ UNCHANGED Rows /\ UNCHANGED <<plan, ledger>>
         /\ \/ Moved(d, "fail", daemon[d].at) \/ Moved(d, "failagain", daemon[d].at)
            \/ Left(d)
            \/ daemon[d].pc = "building" /\ Moved(d, "report", daemon[d].at) /\ ~daemon'[d].ok
  BY Moves DEF StoreError, At, queueVars, Rows

\* The spine begins with plan and implement, and names every phase once.
LEMMA Spine ==
  ASSUME TypeOK, NEW d \in Daemons
  PROVE  /\ Len(Workflow) \in Nat /\ Len(Workflow) >= 2 /\ Steps = 1 .. Len(Workflow)
         /\ daemon[d].at \in Steps /\ daemon[d].at \in 1 .. Len(Workflow)
         /\ Phase(d) \in Phases
         /\ Phase(d) = "plan" <=> daemon[d].at = 1
         /\ Phase(d) = "implement" <=> daemon[d].at = 2
         /\ \A k \in Steps : Workflow[k] = Phase(d) => k = daemon[d].at
         /\ RecordsPhase("plan") /\ RecordsPhase("implement")
         /\ Workflow[1] = "plan" /\ Workflow[2] = "implement" /\ 1 \in Steps
  BY DaemonAssumption, QueueAssumption, SpineTypes
  DEF TypeOK, DaemonState, Phase, Steps, RecordsPhase

-----------------------------------------------------------------------------
(* Gates *)

\* One step of processOne: where it is, and that it is there with its approval.
LEMMA OwnGates ==
  ASSUME TypeOK, Assigned, NEW d \in Daemons, daemon[d].pc \in Working,
         Places(d), Cleared(d), approvals \subseteq approvals', DaemonStep(d) \/ StoreError(d)
  PROVE  Places(d)' /\ Cleared(d)'
  <1> DEFINE i == daemon[d].item
  <1>a. \A j, p : Approved(j, p) => Approved(j, p)'
    BY Zenon DEF Approved
  <1>b. ASSUME NEW pc \in {"planning", "planned", "gate", "wait", "complete", "fail",
                           "failagain", "idle", "dead"},
               daemon'[d].pc = pc,
               pc \in {"planning", "planned"} => daemon'[d].at = 1
        PROVE  Places(d)' /\ Cleared(d)'
    BY <1>b DEF Places, Cleared
  <1>c. ASSUME daemon'[d].pc = "enter", daemon'[d].item = i, daemon'[d].at = daemon[d].at,
               daemon[d].at > 1, Phase(d) \in Gated => Approved(i, Phase(d))
        PROVE  Places(d)' /\ Cleared(d)'
    BY <1>a, <1>c DEF Places, Cleared, Phase
  <1>d. ASSUME daemon[d].pc \in {"enter", "exec", "building"},
               daemon'[d].pc \in {"exec", "building", "report"},
               daemon'[d].pc = "building" => daemon[d].at = 2,
               daemon'[d].item = i, daemon'[d].at = daemon[d].at
        PROVE  Places(d)' /\ Cleared(d)'
    BY <1>a, <1>d DEF Places, Cleared, Phase
  <1> USE Moves, Spine DEF At, Moved, WentOn, Left
  <1>1. CASE Claim(d)
    BY <1>1 DEF Claim, Working
  <1>2. CASE PlanPhase(d) \/ RunPlanner(d) \/ PlanSucceeded(d)
    <2>1. \/ daemon'[d].pc \in {"gate", "fail"}
          \/ daemon'[d].pc \in {"planning", "planned"} /\ daemon'[d].at = daemon[d].at
      BY <1>2 DEF PlanPhase, RunPlanner, PlanSucceeded
    <2>2. daemon[d].at = 1
      BY <1>2 DEF PlanPhase, RunPlanner, PlanSucceeded, Places
    <2> QED BY ONLY <1>b, <2>1, <2>2
  <1>3. CASE Gate(d)
    BY <1>3, <1>b, <1>c, GateMoves
  <1>4. CASE \/ WaitForApproval(d) \/ Complete(d) \/ FailItem(d) \/ ReportPhase(d)
    BY <1>4, <1>b DEF WaitForApproval, Complete, FailItem, ReportPhase
  <1>5. CASE EnterPhase(d)
    <2>1. /\ daemon[d].pc = "enter" /\ daemon'[d].pc = "exec"
          /\ daemon'[d].item = i /\ daemon'[d].at = daemon[d].at
      BY <1>5 DEF EnterPhase
    <2> QED BY ONLY <2>1, <1>d
  <1>6. CASE StartImplement(d)
    BY <1>6, <1>d, ImplementMoves
  <1>7. CASE FinishImplement(d)
    BY <1>7, <1>d, FinishMoves
  <1>8. CASE RunTarget(d)
    BY <1>8, <1>b, <1>d, TargetMoves
  <1>9. CASE StoreError(d)
    BY <1>9, <1>b, <1>d, ErrorMoves
  <1> QED BY <1>1, <1>2, <1>3, <1>4, <1>5, <1>6, <1>7, <1>8, <1>9 DEF DaemonStep

\* Who does not make the step keeps its place.
LEMMA OthersGates ==
  ASSUME NEW e \in Daemons, daemon'[e] = daemon[e], approvals \subseteq approvals'
  PROVE  /\ Places(e) => Places(e)'
         /\ Cleared(e) => Cleared(e)'
  <1>1. \A i, p : Approved(i, p) => Approved(i, p)'
    BY Zenon DEF Approved
  <1> QED BY <1>1 DEF Places, Cleared, Phase

\* A daemon that claims, starts, stops or dies has nothing to rely on yet.
LEMMA FreshDaemon ==
  ASSUME TypeOK, NEW d \in Daemons,
         Start(d) \/ Renew(d) \/ RenewRefused(d) \/ Stop(d) \/ Crash(d) \/ Claim(d)
  PROVE  /\ Alone(d) /\ UNCHANGED <<phases, approvals, plan, ledger>>
         /\ \/ daemon'[d].pc \in {"idle", "dead"} /\ UNCHANGED items
            \/ daemon'[d] = daemon[d] /\ UNCHANGED items
            \/ daemon'[d].pc = "plan" /\ daemon'[d].at = 1 /\ Claim(d)
  <1>a. daemon \in [Daemons -> DaemonState]
    BY DEF TypeOK
  <1>1. CASE Start(d) \/ Stop(d) \/ Crash(d)
    BY <1>a, <1>1
    DEF Start, Stop, Crash, Free, Alone, AcquireFactoryDaemonLease, ReleaseFactoryDaemonLease,
        queueVars
  <1>2. CASE Renew(d) \/ RenewRefused(d)
    BY <1>2 DEF Renew, RenewRefused, RenewFactoryDaemonLease, queueVars, daemonVars, Alone
  <1>3. CASE Claim(d)
    <2>1. PICK i \in Items : daemon' = [daemon EXCEPT ![d] = [Free("plan") EXCEPT !.item = i]]
      BY <1>3 DEF Claim
    <2>2. UNCHANGED <<phases, approvals, plan, ledger>>
      BY <1>3 DEF Claim, ClaimNextFactoryWorkItem
    <2> QED BY <1>a, <1>3, <2>1, <2>2 DEF Free, Alone
  <1> QED BY <1>1, <1>2, <1>3

\* Who makes a step: a daemon, or somebody who leaves the daemons alone.
LEMMA Actors ==
  ASSUME TypeOK, Assigned, [Next]_vars
  PROVE  \/ \E d \in Daemons :
              Start(d) \/ Renew(d) \/ RenewRefused(d) \/ Stop(d) \/ Crash(d) \/ Claim(d)
         \/ \E d \in Daemons :
              daemon[d].pc \in Working /\ ~Claim(d) /\ (DaemonStep(d) \/ StoreError(d))
         \/ ReviewNext /\ UNCHANGED <<daemon, phases, plan, ledger>>
         \/ UserNext /\ UNCHANGED <<daemon, phases, approvals, ledger>>
         \/ UNCHANGED vars
  <1>1. ReviewNext => UNCHANGED <<daemon, phases, plan, ledger>>
    BY DEF ReviewNext, ListWaiting, EndBatch, BeginProviderApproval, BeginCliApproval, Approve,
           EnqueueRetry, FailRejected, EnqueueFactoryWorkItem, InsertFactoryWorkItem,
           RecordFactoryApproval, FailFactoryWorkItem, FinishFactoryWorkItem, queueVars
  <1>2. UserNext => UNCHANGED <<daemon, phases, approvals, ledger>>
    BY DEF UserNext, Submit, Cancel, EditPlan, EnqueueFactoryWorkItem, InsertFactoryWorkItem,
           CancelFactoryWorkItem, queueVars, daemonVars
  <1>3. \A d \in Daemons : DaemonStep(d) \/ StoreError(d) =>
          Claim(d) \/ (daemon[d].pc \in Working /\ ~Claim(d))
    <2> SUFFICES ASSUME NEW d \in Daemons, DaemonStep(d) \/ StoreError(d), ~Claim(d)
                 PROVE  daemon[d].pc \in Working
      OBVIOUS
    <2>1. CASE PlanPhase(d) \/ RunPlanner(d) \/ PlanSucceeded(d) \/ Gate(d) \/ WaitForApproval(d)
      BY <2>1 DEF PlanPhase, RunPlanner, PlanSucceeded, Gate, WaitForApproval, At, Working
    <2>2. CASE EnterPhase(d) \/ StartImplement(d) \/ FinishImplement(d) \/ RunTarget(d)
      BY <2>2 DEF EnterPhase, StartImplement, FinishImplement, RunTarget, At, Working
    <2>3. CASE ReportPhase(d) \/ Complete(d) \/ FailItem(d) \/ StoreError(d)
      BY <2>3 DEF ReportPhase, Complete, FailItem, StoreError, At, Working
    <2> QED BY <2>1, <2>2, <2>3 DEF DaemonStep
  <1> QED BY <1>1, <1>2, <1>3 DEF Next, DaemonNext

GatesInv == \A d \in Daemons : Places(d) /\ Cleared(d)

\* Whoever stands at a phase that has a gate has its approval (ensureImplementApproval,
\* ensureMergeApproval, ensureDeployApproval).
LEMMA GatesKept ==
  ASSUME TypeOK, Assigned, GatesInv, [Next]_vars PROVE GatesInv'
  <1>0. approvals \subseteq approvals'
    BY EveryStepIsACall, ApprovalsStay
  <1> USE DEF GatesInv
  <1>1. ASSUME NEW d \in Daemons,
               Start(d) \/ Renew(d) \/ RenewRefused(d) \/ Stop(d) \/ Crash(d) \/ Claim(d)
        PROVE  GatesInv'
    <2>1. \A e \in Daemons \ {d} : (Places(e) /\ Cleared(e))'
      BY <1>0, <1>1, FreshDaemon, OthersGates DEF Alone
    <2>2. (Places(d) /\ Cleared(d))'
      <3>1. CASE daemon'[d] = daemon[d]
        BY <1>0, <3>1, OthersGates
      <3>2. CASE daemon'[d].pc \in {"idle", "dead", "plan"} /\ (daemon'[d].pc = "plan" => daemon'[d].at = 1)
        BY <3>2 DEF Places, Cleared
      <3> QED BY <1>1, <3>1, <3>2, FreshDaemon
    <2> QED BY <2>1, <2>2
  <1>2. ASSUME NEW d \in Daemons, daemon[d].pc \in Working, DaemonStep(d) \/ StoreError(d)
        PROVE  GatesInv'
    <2>1. \A e \in Daemons \ {d} : (Places(e) /\ Cleared(e))'
      BY <1>0, <1>2, WorkingStep, OthersGates DEF Alone
    <2>2. (Places(d) /\ Cleared(d))'
      BY <1>0, <1>2, OwnGates
    <2> QED BY <2>1, <2>2
  <1>3. CASE UNCHANGED daemon
    BY <1>0, <1>3, OthersGates
  <1> QED BY <1>1, <1>2, <1>3, Actors DEF vars, daemonVars

\* A daemon writes the row of the phase it is at, and nothing else of the item's phases.
LEMMA RowsWritten ==
  ASSUME TypeOK, Assigned, NEW d \in Daemons, daemon[d].pc \in Working, Places(d),
         DaemonStep(d) \/ StoreError(d)
  PROVE  \/ UNCHANGED phases
         \/ /\ daemon[d].pc \in {"plan", "planned", "wait", "enter", "report"}
            /\ \E status \in PhaseStatuses :
                 /\ UpdateFactoryWorkItemPhase(daemon[d].item, Phase(d), status)
                 /\ daemon[d].pc = "wait" => status = "waiting_approval"
  <1> USE Spine DEF At, PhaseStatuses
  <1>1. CASE Claim(d)
    BY <1>1 DEF Claim, Working
  <1>2. CASE PlanPhase(d) \/ PlanSucceeded(d)
    <2>1. Phase(d) = "plan" /\ daemon[d].pc \in {"plan", "planned"}
      BY <1>2 DEF PlanPhase, PlanSucceeded, Places
    <2> QED BY <1>2, <2>1 DEF PlanPhase, PlanSucceeded
  <1>3. CASE WaitForApproval(d) \/ ReportPhase(d) \/ EnterPhase(d)
    BY <1>3 DEF WaitForApproval, ReportPhase, EnterPhase, queueVars
  <1>4. CASE \/ RunPlanner(d) \/ Gate(d) \/ StartImplement(d) \/ FinishImplement(d)
             \/ RunTarget(d) \/ StoreError(d)
    BY <1>4 DEF RunPlanner, Gate, StartImplement, FinishImplement, RunTarget, StoreError, queueVars
  <1>5. CASE Complete(d) \/ FailItem(d)
    <2>1. UNCHANGED phases
      BY <1>5
      DEF Complete, FailItem, CompleteFactoryWorkItem, FailFactoryWorkItem, FinishFactoryWorkItem
    <2> QED BY <2>1
  <1> QED BY <1>1, <1>2, <1>3, <1>4, <1>5 DEF DaemonStep

\* No gated phase runs without an approval of its own, whatever crashes, is taken over,
\* rejected or resumed, and whether or not the store fails (processOne).
THEOREM GatesAlwaysHold == Spec => []GatesHold
  <1>1. Init => GatesInv /\ GatesHold
    BY DaemonAssumption DEF Init, QueueInit, Free, GatesInv, Places, Cleared, GatesHold
  <1>2. TypeOK /\ Assigned /\ GatesInv /\ GatesHold /\ [Next]_vars => GatesHold'
    <2> SUFFICES ASSUME TypeOK, Assigned, GatesInv, GatesHold, [Next]_vars,
                        NEW i \in Items, NEW p \in Gated \ {"plan"},
                        phases'[i][p] \in {"running", "succeeded", "failed"}
                 PROVE  Approved(i, p)'
      BY DEF GatesHold
    <2>a. \A j, q : Approved(j, q) => Approved(j, q)'
      <3>1. approvals \subseteq approvals'
        BY EveryStepIsACall, ApprovalsStay
      <3> QED BY <3>1, Zenon DEF Approved
    <2>1. CASE phases' = phases
      BY <2>1, <2>a DEF GatesHold
    <2>2. ASSUME NEW d \in Daemons, daemon[d].pc \in Working, DaemonStep(d) \/ StoreError(d),
                 phases' # phases
          PROVE  Approved(i, p)'
      <3> DEFINE j == daemon[d].item
      <3>1. PICK status \in PhaseStatuses :
              /\ UpdateFactoryWorkItemPhase(j, Phase(d), status)
              /\ daemon[d].pc \in {"plan", "planned", "wait", "enter", "report"}
              /\ daemon[d].pc = "wait" => status = "waiting_approval"
        BY <2>2, RowsWritten DEF GatesInv
      <3>2. j \in Items /\ Phase(d) \in Phases /\ QueueTypeOK /\ p \in Phases
        BY <2>2, Spine, DaemonAssumption DEF Assigned, TypeOK
      <3>3. CASE i = j /\ p = Phase(d)
        <4>1. phases'[i][p] = status
          BY <3>1, <3>2, <3>3, PhaseWriteRows
        <4>2. daemon[d].pc \in {"enter", "report"}
          BY <3>1, <3>3, <4>1, Spine DEF GatesInv, Places
        <4> QED BY <2>a, <3>3, <4>2 DEF GatesInv, Cleared
      <3>4. CASE ~(i = j /\ p = Phase(d))
        <4>1. phases'[i][p] = phases[i][p]
          BY <3>1, <3>2, <3>4, PhaseWriteRows
        <4> QED BY <2>a, <4>1 DEF GatesHold
      <3> QED BY <3>3, <3>4
    <2>3. ASSUME NEW d \in Daemons,
                 Start(d) \/ Renew(d) \/ RenewRefused(d) \/ Stop(d) \/ Crash(d) \/ Claim(d)
          PROVE  phases' = phases
      BY <2>3, FreshDaemon
    <2> QED BY <2>1, <2>2, <2>3, Actors DEF vars, queueVars
  <1> QED BY <1>1, <1>2, GatesKept, DaemonTypesHold, PTL DEF Spec

-----------------------------------------------------------------------------
(* What others leave to a daemon *)

\* A daemon touches the rows of its own item only.
LEMMA OwnRowsOnly ==
  ASSUME TypeOK, Assigned, NEW d \in Daemons, daemon[d].pc \in Working, ~Claim(d),
         DaemonStep(d) \/ StoreError(d)
  PROVE  \A j \in Items \ {daemon[d].item} :
           /\ items'[j] = items[j] /\ phases'[j] = phases[j]
           /\ ledger'[j] = ledger[j] /\ plan'[j] = plan[j]
  <1> DEFINE i == daemon[d].item
  <1>a. i \in Items /\ QueueTypeOK /\ Phase(d) \in Phases /\ "plan" \in Phases
    BY Spine, QueueAssumption DEF Assigned, TypeOK
  <1>b. /\ ledger \in [Items -> LedgerState] /\ plan \in [Items -> Hashes \cup {None}]
    BY DEF TypeOK
  <1>c. ASSUME NEW p \in Phases, NEW status, UpdateFactoryWorkItemPhase(i, p, status)
        PROVE  \A j \in Items \ {i} : items'[j] = items[j] /\ phases'[j] = phases[j]
    BY <1>a, <1>c, PhaseWriteRows
  <1>1. CASE PlanPhase(d) \/ PlanSucceeded(d)
    BY <1>1, <1>a, <1>c DEF PlanPhase, PlanSucceeded
  <1>2. CASE WaitForApproval(d) \/ ReportPhase(d)
    BY <1>2, <1>a, <1>c DEF WaitForApproval, ReportPhase
  <1>3. CASE EnterPhase(d)
    BY <1>3, <1>a, <1>c DEF EnterPhase, queueVars
  <1>4. CASE Complete(d) \/ FailItem(d)
    BY <1>4, <1>a, FinishRows
    DEF Complete, FailItem, CompleteFactoryWorkItem, FailFactoryWorkItem
  <1>5. CASE RunPlanner(d)
    BY <1>5, <1>b DEF RunPlanner, queueVars
  <1>6. CASE Gate(d)
    BY <1>6 DEF Gate, queueVars
  <1>7. CASE StartImplement(d)
    BY <1>7, <1>b, ImplementMoves DEF Rows
  <1>8. CASE FinishImplement(d)
    BY <1>8, <1>b, FinishMoves DEF Rows
  <1>9. CASE RunTarget(d) \/ StoreError(d)
    BY <1>9 DEF RunTarget, StoreError, queueVars
  <1> QED BY <1>1, <1>2, <1>3, <1>4, <1>5, <1>6, <1>7, <1>8, <1>9 DEF DaemonStep

Exclusive == OneWorkerPerItem /\ HeldItemsAreNotOffered

\* What another daemon does leaves the rows of e's item alone.
LEMMA DaemonsKeep ==
  ASSUME TypeOK, Assigned, Exclusive, NEW e \in Daemons, daemon[e].pc \in Working,
         NEW d \in Daemons, d # e,
         \/ Start(d) \/ Renew(d) \/ RenewRefused(d) \/ Stop(d) \/ Crash(d) \/ Claim(d)
         \/ daemon[d].pc \in Working /\ ~Claim(d) /\ (DaemonStep(d) \/ StoreError(d))
  PROVE  RowsKept(daemon[e].item) /\ plan'[daemon[e].item] = plan[daemon[e].item]
         /\ daemon'[e] = daemon[e]
  <1> DEFINE i == daemon[e].item
  <1>a. i \in Items /\ items[i].lifecycle \in {"claimed", "running", "completed", "failed"}
    BY DEF Assigned, Exclusive, HeldItemsAreNotOffered, life
  <1>1. CASE Claim(d)
    <2>1. PICK now \in Times, j \in Items : ClaimNextFactoryWorkItem(Factory, d, now, j)
      BY <1>1 DEF Claim
    <2>2. j # i
      BY <1>a, <2>1 DEF ClaimNextFactoryWorkItem, Claimable
    <2>3. items'[i] = items[i]
      BY <1>a, <2>1, <2>2 DEF ClaimNextFactoryWorkItem, TypeOK, QueueTypeOK
    <2>4. UNCHANGED <<phases, plan, ledger>> /\ daemon'[e] = daemon[e]
      BY <1>1, FreshDaemon DEF Alone
    <2> QED BY <2>3, <2>4 DEF RowsKept
  <1>2. CASE (Start(d) \/ Renew(d) \/ RenewRefused(d) \/ Stop(d) \/ Crash(d)) /\ ~Claim(d)
    BY <1>2, FreshDaemon DEF Alone, RowsKept
  <1>3. CASE daemon[d].pc \in Working /\ ~Claim(d) /\ (DaemonStep(d) \/ StoreError(d))
    <2>1. daemon[d].item # i
      BY <1>3, <1>a DEF Exclusive, OneWorkerPerItem, Works
    <2>2. daemon'[e] = daemon[e]
      BY <1>3, WorkingStep DEF Alone
    <2> QED BY <1>3, <1>a, <2>1, <2>2, OwnRowsOnly DEF RowsKept
  <1> QED BY <1>1, <1>2, <1>3

\* So do the pollers and the operators, but for failing it.
LEMMA PeopleKeep ==
  ASSUME TypeOK, Assigned, Exclusive, NEW e \in Daemons, daemon[e].pc \in Working,
         ReviewNext \/ UserNext \/ UNCHANGED vars
  PROVE  /\ RowsKept(daemon[e].item) /\ daemon'[e] = daemon[e]
         /\ EditsWait => plan'[daemon[e].item] = plan[daemon[e].item]
  <1> DEFINE i == daemon[e].item
  <1>a. /\ i \in Items /\ items[i].lifecycle \in {"claimed", "running", "completed", "failed"}
        /\ items \in [Items -> WorkItem] /\ QueueTypeOK
        /\ plan \in [Items -> Hashes \cup {None}]
    BY DEF Assigned, Exclusive, HeldItemsAreNotOffered, life, TypeOK, QueueTypeOK
  <1>b. ASSUME NEW j \in Items, NEW new, EnqueueFactoryWorkItem(j, new)
        PROVE  items'[i] = items[i]
    BY <1>a, <1>b DEF EnqueueFactoryWorkItem, InsertFactoryWorkItem
  <1>c. items'[i] = items[i] /\ UNCHANGED <<daemon, phases, ledger>> =>
          RowsKept(i) /\ daemon'[e] = daemon[e]
    BY DEF RowsKept
  <1>1. ASSUME NEW r \in Reviewers,
               \/ ListWaiting(r) \/ EndBatch(r) \/ BeginProviderApproval(r)
               \/ \E j \in Items, p \in Phases : BeginCliApproval(r, j, p)
               \/ Approve(r)
        PROVE  RowsKept(i) /\ UNCHANGED <<daemon, plan>>
    BY <1>1, <1>c
    DEF ListWaiting, EndBatch, BeginProviderApproval, BeginCliApproval, Approve,
        RecordFactoryApproval, queueVars
  <1>2. ASSUME NEW r \in Reviewers, EnqueueRetry(r)
        PROVE  RowsKept(i) /\ UNCHANGED <<daemon, plan>>
    <2>1. UNCHANGED <<daemon, phases, ledger, plan>>
      BY <1>2 DEF EnqueueRetry, EnqueueFactoryWorkItem, InsertFactoryWorkItem, queueVars
    <2>2. items'[i] = items[i]
      BY <1>2, <1>b DEF EnqueueRetry, queueVars
    <2> QED BY <1>c, <2>1, <2>2
  <1>3. ASSUME NEW r \in Reviewers, FailRejected(r)
        PROVE  RowsKept(i) /\ UNCHANGED <<daemon, plan>>
    <2>1. UNCHANGED <<daemon, ledger, plan>> /\ reviewer[r].item \in Items
      BY <1>3 DEF FailRejected, Assigned
    <2>2. PICK cause : FailFactoryWorkItem(reviewer[r].item, cause)
      BY <1>3 DEF FailRejected
    <2>3. /\ items'[i].claimed_by = items[i].claimed_by
          /\ items'[i].lifecycle \in {items[i].lifecycle, "failed"} /\ UNCHANGED phases
      BY <1>a, <2>1, <2>2, FinishRows DEF FailFactoryWorkItem
    <2> QED BY <2>1, <2>3 DEF RowsKept
  <1>4. ASSUME NEW j \in Items, Submit(j) \/ Cancel(j)
        PROVE  RowsKept(i) /\ UNCHANGED <<daemon, plan>>
    <2>1. UNCHANGED <<daemon, phases, ledger, plan>>
      BY <1>4 DEF Submit, Cancel, EnqueueFactoryWorkItem, InsertFactoryWorkItem,
                  CancelFactoryWorkItem, daemonVars
    <2>2. items'[i] = items[i]
      BY <1>4, <1>a, <1>b DEF Submit, Cancel, CancelFactoryWorkItem
    <2> QED BY <1>c, <2>1, <2>2
  <1>5. ASSUME NEW j \in Items, EditPlan(j)
        PROVE  RowsKept(i) /\ UNCHANGED daemon /\ (EditsWait => plan'[i] = plan[i])
    BY <1>5, <1>a, <1>c DEF EditPlan, queueVars, EditsWait
  <1>6. CASE UNCHANGED vars
    BY <1>6, <1>c DEF vars, queueVars, daemonVars
  <1> QED BY <1>1, <1>2, <1>3, <1>4, <1>5, <1>6 DEF ReviewNext, UserNext

\* A daemon whose item's rows are kept knows what it knew.
LEMMA KnowsKept ==
  ASSUME TypeOK, NEW e \in Daemons, daemon[e].pc \in Working, RowsKept(daemon[e].item),
         daemon'[e] = daemon[e], approvals \subseteq approvals', Knows(e)
  PROVE  Knows(e)' /\ (Reads(e) /\ plan'[daemon[e].item] = plan[daemon[e].item] => Reads(e)')
  <1> DEFINE i == daemon[e].item
  <1>1. (Places(e) /\ Cleared(e))'
    BY OthersGates DEF Knows
  <1>2. Owns(e)'
    BY DEF Knows, Owns, RowsKept
  <1>3. Built(e)'
    BY DEF Knows, Built, RowsKept
  <1>4. Progress(e)'
    BY DEF Knows, Progress, Passed, RowsKept
  <1>5. ASSUME Reads(e), plan'[i] = plan[i] PROVE Reads(e)'
    <2>1. \A j, hash : HashApproved(j, hash) => HashApproved(j, hash)'
      BY Zenon DEF HashApproved
    <2> QED BY <1>5, <2>1 DEF Reads
  <1> QED BY <1>1, <1>2, <1>3, <1>4, <1>5 DEF Knows

-----------------------------------------------------------------------------
(* What a daemon knows of its own item *)

\* The item stays its own until it lets go.
LEMMA OwnOwns ==
  ASSUME TypeOK, Assigned, NEW d \in Daemons, daemon[d].pc \in Working, ~Claim(d),
         Knows(d), DaemonStep(d) \/ StoreError(d)
  PROVE  Owns(d)'
  <1> DEFINE i == daemon[d].item
  <1>a. i \in Items /\ QueueTypeOK /\ Phase(d) \in Phases /\ "plan" \in Phases
    BY Spine, QueueAssumption DEF Assigned, TypeOK
  <1>b. items[i].claimed_by = d /\ items[i].lifecycle # "completed"
    BY DEF Knows, Owns
  <1>c. ASSUME daemon'[d].item = i, items'[i].claimed_by = d, items'[i].lifecycle # "completed"
        PROVE  Owns(d)'
    BY <1>c DEF Owns
  <1>d. daemon'[d].pc = "idle" => Owns(d)'
    BY DEF Owns, Working
  <1>e. ASSUME NEW p \in Phases, NEW status, status # "waiting_approval",
               UpdateFactoryWorkItemPhase(i, p, status)
        PROVE  items'[i].claimed_by = d /\ items'[i].lifecycle # "completed"
    BY <1>a, <1>b, <1>e, PhaseWriteRows
  <1> USE Moves DEF Moved, Left, WentOn
  <1>1. CASE PlanPhase(d) \/ PlanSucceeded(d)
    BY <1>1, <1>a, <1>c, <1>e DEF PlanPhase, PlanSucceeded
  <1>2. CASE WaitForApproval(d) \/ Complete(d)
    BY <1>2, <1>d DEF WaitForApproval, Complete
  <1>3. CASE ReportPhase(d)
    BY <1>3, <1>a, <1>c, <1>e DEF ReportPhase
  <1>4. CASE EnterPhase(d)
    <2>1. items'[i].claimed_by = d /\ items'[i].lifecycle # "completed"
      BY <1>4, <1>a, <1>b, <1>e DEF EnterPhase, queueVars
    <2>2. daemon'[d].item = i
      BY <1>4 DEF EnterPhase
    <2> QED BY ONLY <2>1, <2>2, <1>c
  <1>5. CASE FailItem(d)
    <2>1. items'[i].claimed_by = d /\ items'[i].lifecycle = "failed"
      BY <1>5, <1>a, <1>b, FinishRows DEF FailItem, FailFactoryWorkItem
    <2>2. daemon'[d].item = i \/ daemon'[d].pc = "idle"
      BY <1>5 DEF FailItem
    <2> QED BY <2>1, <2>2, <1>c, <1>d
  <1>6. ASSUME UNCHANGED items, daemon'[d].item = i \/ daemon'[d].pc = "idle" PROVE Owns(d)'
    BY <1>6, <1>b, <1>c, <1>d
  <1>7. CASE RunPlanner(d)
    BY <1>7, <1>6 DEF RunPlanner, queueVars
  <1>8. CASE Gate(d)
    BY <1>8, <1>6, GateMoves DEF Rows
  <1>9. CASE StartImplement(d)
    BY <1>9, <1>6, ImplementMoves DEF Rows
  <1>10. CASE FinishImplement(d)
    BY <1>10, <1>6, FinishMoves DEF Rows
  <1>11. CASE RunTarget(d)
    BY <1>11, <1>6, TargetMoves DEF Rows
  <1>12. CASE StoreError(d)
    BY <1>12, <1>6, ErrorMoves DEF Rows
  <1> QED
    BY <1>1, <1>2, <1>3, <1>4, <1>5, <1>7, <1>8, <1>9, <1>10, <1>11, <1>12 DEF DaemonStep

\* Beyond implement the ledger says implemented.
LEMMA OwnBuilt ==
  ASSUME TypeOK, Assigned, NEW d \in Daemons, daemon[d].pc \in Working, ~Claim(d),
         Knows(d), DaemonStep(d) \/ StoreError(d)
  PROVE  Built(d)'
  <1> DEFINE i == daemon[d].item
  <1>a. /\ i \in Items /\ daemon[d].at \in Nat /\ daemon[d].at > 0
        /\ ledger \in [Items -> LedgerState] /\ Places(d) /\ Built(d)
        /\ Phase(d) = "plan" <=> daemon[d].at = 1
        /\ Phase(d) = "implement" <=> daemon[d].at = 2
    BY Spine, SpineTypes DEF Assigned, TypeOK, Knows
  <1>b. ASSUME ledger' = ledger, daemon'[d].item = i, daemon'[d].at = daemon[d].at,
               daemon'[d].pc # "report"
        PROVE  Built(d)'
    BY <1>a, <1>b DEF Built
  <1>f. ASSUME ledger' = ledger, daemon'[d].item = i, daemon'[d].at = daemon[d].at,
               daemon[d].at # 2 \/ ~daemon'[d].ok \/ ledger[i].status = "implemented"
        PROVE  Built(d)'
    BY <1>a, <1>f DEF Built
  <1>c. ASSUME ledger' = ledger, daemon'[d].pc \in {"gate", "complete"}, daemon'[d].item = i,
               daemon'[d].at > 2 => ledger[i].status = "implemented"
        PROVE  Built(d)'
    BY <1>c DEF Built
  <1>d. daemon'[d].pc = "idle" => Built(d)'
    BY DEF Built, Working
  <1>e. ASSUME ledger' = ledger, WentOn(d),
               daemon[d].at = 2 => ledger[i].status = "implemented"
        PROVE  Built(d)'
    <2>1. daemon[d].at >= 2 => ledger[i].status = "implemented"
      BY <1>a, <1>e DEF Built
    <2> QED BY ONLY <1>a, <1>c, <1>e, <2>1 DEF WentOn, Moved
  <1>g. ASSUME NEW pc, pc # "report", Goto(d, pc), ledger' = ledger PROVE Built(d)'
    <2>1. Moved(d, pc, daemon[d].at)
      BY <1>g, Moves
    <2> QED BY ONLY <1>b, <1>g, <2>1 DEF Moved
  <1>h. Return(d) => Built(d)'
    BY <1>d, Moves DEF Left
  <1>1. CASE PlanPhase(d) \/ PlanSucceeded(d) \/ RunPlanner(d)
    <2>1. ledger' = ledger /\ \E pc : pc # "report" /\ Goto(d, pc)
      BY <1>1 DEF PlanPhase, PlanSucceeded, RunPlanner
    <2> QED BY ONLY <1>g, <2>1
  <1>2. CASE WaitForApproval(d) \/ Complete(d)
    BY <1>2, <1>h DEF WaitForApproval, Complete
  <1>3. CASE ReportPhase(d)
    <2>1. CASE daemon[d].ok
      BY <1>3, <1>a, <1>e, <2>1, Moves DEF ReportPhase, At, Built
    <2>2. CASE ~daemon[d].ok
      <3>1. ledger' = ledger /\ Goto(d, "fail")
        BY <1>3, <2>2 DEF ReportPhase
      <3> QED BY ONLY <1>g, <3>1
    <2> QED BY <2>1, <2>2
  <1>4. CASE EnterPhase(d)
    <2>1. ledger' = ledger /\ Goto(d, "exec")
      BY <1>4 DEF EnterPhase
    <2> QED BY ONLY <1>g, <2>1
  <1>5. CASE FailItem(d)
    <2>1. ledger' = ledger /\ (Goto(d, "fail") \/ Return(d))
      BY <1>5 DEF FailItem
    <2> QED BY ONLY <1>g, <1>h, <2>1
  <1> USE DEF Moved, Left
  <1>6. CASE Gate(d)
    BY <1>6, <1>a, <1>b, <1>e, GateMoves
  <1>7. CASE StartImplement(d)
    <2>1. daemon[d].at = 2
      BY <1>7, <1>a, ImplementMoves
    <2>2. CASE daemon'[d].pc = "report" /\ ledger' = ledger
      BY <1>7, <1>f, <2>2, ImplementMoves
    <2>3. CASE daemon'[d].pc = "building" \/ (daemon'[d].pc = "report" /\ ~daemon'[d].ok)
      <3>1. daemon'[d].at = 2
        BY <1>7, <2>1, ImplementMoves
      <3> QED BY ONLY <2>3, <3>1 DEF Built
    <2> QED BY <1>7, <2>2, <2>3, ImplementMoves
  <1>8. CASE FinishImplement(d)
    <2>1. daemon[d].at = 2 /\ daemon'[d].at = 2 /\ daemon'[d].item = i
      BY <1>8, <1>a, FinishMoves DEF Places
    <2>2. daemon'[d].ok => ledger'[i].status = "implemented"
      <3>1. PICK status \in {"implemented", "failed"} :
              /\ daemon'[d].ok => status = "implemented"
              /\ ledger' = [ledger EXCEPT ![i] = [status |-> status, hash |-> daemon[d].hash]]
        BY <1>8, FinishMoves
      <3>2. ledger'[i].status = status
        BY <1>a, <3>1
      <3> QED BY ONLY <3>1, <3>2
    <2> QED BY ONLY <2>1, <2>2 DEF Built
  <1>9. CASE RunTarget(d)
    <2>1. daemon[d].at > 2 /\ daemon[d].pc = "exec"
      <3>1. daemon[d].at # 2 /\ daemon[d].pc = "exec"
        BY <1>9, <1>a, TargetMoves
      <3> QED BY ONLY <1>a, <3>1 DEF Places
    <2> QED BY <1>9, <1>b, <1>e, <1>f, <2>1, TargetMoves
  <1>10. CASE StoreError(d)
    BY <1>10, <1>b, <1>d, <1>f, ErrorMoves
  <1> QED BY <1>1, <1>2, <1>3, <1>4, <1>5, <1>6, <1>7, <1>8, <1>9, <1>10 DEF DaemonStep

\* Every phase behind it succeeded or was skipped.
LEMMA OwnProgress ==
  ASSUME TypeOK, Assigned, NEW d \in Daemons, daemon[d].pc \in Working, ~Claim(d),
         Knows(d), DaemonStep(d) \/ StoreError(d)
  PROVE  Progress(d)'
  <1>0. PICK i \in Items : i = daemon[d].item
    BY DEF Assigned
  <1> DEFINE done(k) == phases'[i][Workflow[k]] \in {"succeeded", "skipped"}
             at == daemon[d].at
  <1>a. /\ Len(Workflow) \in Nat /\ Len(Workflow) >= 2 /\ Steps = 1 .. Len(Workflow)
        /\ at \in 1 .. Len(Workflow) /\ Phase(d) \in Phases /\ QueueTypeOK
        /\ Phase(d) = "plan" <=> at = 1
        /\ \A k \in Steps : Workflow[k] \in Phases /\ (Workflow[k] = Phase(d) => k = at)
        /\ Workflow[at] = Phase(d) /\ Workflow[1] = "plan" /\ "plan" \in Phases
    BY Spine, SpineTypes DEF TypeOK, Phase
  <1>b. ASSUME NEW status, UpdateFactoryWorkItemPhase(i, Phase(d), status)
        PROVE  /\ \A k \in Steps \ {at} : phases'[i][Workflow[k]] = phases[i][Workflow[k]]
               /\ phases'[i][Phase(d)] = status
    BY <1>a, <1>b, PhaseWriteRows
  <1>c. \A k \in Steps : k < at /\ RecordsPhase(Workflow[k]) => done(k)
    <2>1. \A k \in Steps : k < at /\ RecordsPhase(Workflow[k]) =>
            phases[i][Workflow[k]] \in {"succeeded", "skipped"}
      BY <1>0 DEF Knows, Progress, Passed
    <2>2. CASE UNCHANGED phases
      BY <2>1, <2>2
    <2>3. CASE \E status : UpdateFactoryWorkItemPhase(i, Phase(d), status)
      <3>1. \A k \in Steps \ {at} : phases'[i][Workflow[k]] = phases[i][Workflow[k]]
        BY <1>b, <2>3
      <3> QED BY <1>a, <2>1, <3>1
    <2> QED BY <1>0, <2>2, <2>3, RowsWritten DEF Knows
  <1>d. ASSUME daemon'[d].item = i, daemon'[d].at \in Nat,
               \A k \in Steps :
                 /\ k < daemon'[d].at \/ daemon'[d].pc = "complete" \/ (daemon'[d].pc = "gate" /\ k = 1)
                 /\ RecordsPhase(Workflow[k])
                 => done(k)
        PROVE  Progress(d)'
    BY <1>d DEF Progress, Passed
  <1>e. ASSUME NEW pc \in Between \cup {"building"}, Moved(d, pc, at) PROVE Progress(d)'
    BY ONLY <1>0, <1>a, <1>c, <1>d, <1>e DEF Moved, Between
  <1>i. ASSUME NEW pc \in Between, Goto(d, pc) PROVE Progress(d)'
    BY <1>e, <1>i, Moves DEF at
  <1>f. ASSUME at = 1, Moved(d, "gate", at), done(1) PROVE Progress(d)'
    BY ONLY <1>0, <1>a, <1>c, <1>d, <1>f DEF Moved
  <1>g. ASSUME WentOn(d), RecordsPhase(Phase(d)) => done(at) PROVE Progress(d)'
    <2>1. \A k \in Steps : k <= at /\ RecordsPhase(Workflow[k]) => done(k)
      BY ONLY <1>a, <1>c, <1>g
    <2>2. CASE at = Len(Workflow)
      BY ONLY <1>0, <1>a, <1>d, <1>g, <2>1, <2>2 DEF WentOn, Moved
    <2>3. CASE at # Len(Workflow)
      BY ONLY <1>0, <1>a, <1>d, <1>g, <2>1, <2>3 DEF WentOn, Moved
    <2> QED BY <2>2, <2>3
  <1>h. Left(d) => Progress(d)'
    BY DEF Left, Progress, Working
  <1> HIDE DEF done, at
  <1>1. CASE PlanPhase(d) \/ PlanSucceeded(d)
    <2>1. at = 1 /\ Phase(d) = "plan"
      BY <1>1, <1>a DEF PlanPhase, PlanSucceeded, At, Knows, Places, at
    <2>2. \/ Goto(d, "planning")
          \/ /\ Goto(d, "gate")
             /\ \E status \in {"skipped", "succeeded"} :
                  UpdateFactoryWorkItemPhase(i, Phase(d), status)
      BY <1>0, <1>1, <2>1 DEF PlanPhase, PlanSucceeded
    <2>3. CASE Goto(d, "planning")
      BY ONLY <1>i, <2>3 DEF Between
    <2>4. CASE Goto(d, "gate") /\ \E status \in {"skipped", "succeeded"} :
                 UpdateFactoryWorkItemPhase(i, Phase(d), status)
      <3>1. done(1)
        BY <1>a, <1>b, <2>1, <2>4 DEF done
      <3> QED BY <1>f, <2>1, <2>4, <3>1, Moves DEF at
    <2> QED BY <2>2, <2>3, <2>4
  <1>2. CASE WaitForApproval(d) \/ Complete(d)
    BY <1>2, <1>h, Moves DEF WaitForApproval, Complete
  <1>3. CASE ReportPhase(d)
    <2>1. CASE daemon[d].ok
      <3>1. UpdateFactoryWorkItemPhase(i, Phase(d), "succeeded") /\ NextPhase(d)
        BY <1>0, <1>3, <2>1 DEF ReportPhase
      <3>2. done(at)
        BY <1>a, <1>b, <3>1 DEF done
      <3> QED BY <1>g, <3>1, <3>2, Moves
    <2>2. CASE ~daemon[d].ok
      <3>1. Goto(d, "fail")
        BY <1>3, <2>2 DEF ReportPhase
      <3> QED BY ONLY <1>i, <3>1 DEF Between
    <2> QED BY <2>1, <2>2
  <1>4. CASE EnterPhase(d)
    <2>1. Goto(d, "exec")
      BY <1>4 DEF EnterPhase
    <2> QED BY ONLY <1>i, <2>1 DEF Between
  <1>5. CASE RunPlanner(d)
    <2>1. Goto(d, "planned") \/ Goto(d, "fail")
      BY <1>5 DEF RunPlanner
    <2> QED BY ONLY <1>i, <2>1 DEF Between
  <1>6. CASE FailItem(d)
    <2>1. Goto(d, "fail") \/ Left(d)
      BY <1>6, Moves DEF FailItem
    <2> QED BY ONLY <1>i, <1>h, <2>1 DEF Between
  <1>7. CASE Gate(d)
    <2>1. CASE Phase(d) = "plan" /\ WentOn(d)
      <3>1. daemon[d].pc = "gate" /\ UNCHANGED phases
        BY <1>7, GateMoves DEF Rows
      <3>2. RecordsPhase("plan") => phases[i]["plan"] \in {"succeeded", "skipped"}
        BY <1>0, <1>a, <3>1 DEF Knows, Progress, Passed
      <3>3. RecordsPhase(Phase(d)) => done(at)
        BY <1>a, <2>1, <3>1, <3>2 DEF done
      <3> QED BY <1>g, <2>1, <3>3
    <2>2. CASE \E pc \in {"wait", "failagain", "enter"} : Moved(d, pc, at)
      BY ONLY <1>e, <2>2 DEF Between
    <2> QED BY <1>7, <2>1, <2>2, GateMoves DEF at
  <1>8. CASE StartImplement(d)
    <2>1. Moved(d, "report", at) \/ Moved(d, "building", at)
      BY <1>8, ImplementMoves DEF at
    <2> QED BY ONLY <1>e, <2>1 DEF Between
  <1>9. CASE FinishImplement(d)
    <2>1. Moved(d, "report", at)
      BY <1>9, FinishMoves DEF at
    <2> QED BY ONLY <1>e, <2>1 DEF Between
  <1>10. CASE RunTarget(d)
    <2>1. \/ Moved(d, "report", at) \/ Moved(d, "fail", at)
          \/ ~RecordsPhase(Phase(d)) /\ WentOn(d)
      BY <1>10, TargetMoves DEF at
    <2> QED BY ONLY <1>e, <1>g, <2>1 DEF Between
  <1>11. CASE StoreError(d)
    <2>1. Moved(d, "fail", at) \/ Moved(d, "failagain", at) \/ Left(d) \/ Moved(d, "report", at)
      BY <1>11, ErrorMoves DEF at
    <2> QED BY ONLY <1>e, <1>h, <2>1 DEF Between
  <1> QED
    BY <1>1, <1>2, <1>3, <1>4, <1>5, <1>6, <1>7, <1>8, <1>9, <1>10, <1>11 DEF DaemonStep

\* The text in hand is one that was approved.
LEMMA OwnReads ==
  ASSUME TypeOK, Assigned, NEW d \in Daemons, daemon[d].pc \in Working, ~Claim(d),
         Knows(d), Reads(d), approvals \subseteq approvals', DaemonStep(d) \/ StoreError(d)
  PROVE  Reads(d)'
  <1>0. PICK i \in Items : i = daemon[d].item
    BY DEF Assigned
  <1>a. \A hash : HashApproved(i, hash) => HashApproved(i, hash)'
    BY Zenon DEF HashApproved
  <1>b. ASSUME plan' = plan, daemon'[d].item = i, daemon'[d].at = daemon[d].at,
               daemon'[d].pc = "building" => daemon'[d].hash = plan[i]
        PROVE  Reads(d)'
    BY <1>0, <1>a, <1>b DEF Reads
  <1>c. ASSUME plan' = plan, WentOn(d), daemon[d].at > 1 \/ HashApproved(i, plan[i]) \/ "plan" \notin Gated
        PROVE  Reads(d)'
    <2>1. "plan" \in Gated => HashApproved(i, plan[i])'
      <3>1. "plan" \in Gated => HashApproved(i, plan[i])
        BY <1>0, <1>c DEF Reads
      <3> QED BY <1>a, <1>c, <3>1 DEF HashApproved
    <2> QED BY <1>0, <1>c, <2>1 DEF Reads, WentOn, Moved
  <1>d. daemon'[d].pc \notin Working \/ (daemon'[d].at = 1 /\ daemon'[d].pc # "building") => Reads(d)'
    BY DEF Reads, Working
  <1>e. ASSUME plan' = plan, NEW pc \in Between, Moved(d, pc, daemon[d].at) PROVE Reads(d)'
    BY ONLY <1>0, <1>b, <1>e DEF Moved, Between
  <1>f. ASSUME plan' = plan, NEW pc \in Between, Goto(d, pc) PROVE Reads(d)'
    BY <1>e, <1>f, Moves
  <1>g. Left(d) => Reads(d)'
    BY <1>d DEF Left, Working
  <1>1. CASE PlanPhase(d) \/ PlanSucceeded(d) \/ RunPlanner(d)
    <2>1. daemon[d].at = 1
      BY <1>1 DEF PlanPhase, PlanSucceeded, RunPlanner, At, Knows, Places
    <2>2. \E pc \in {"planning", "gate", "planned", "fail"} : Goto(d, pc)
      BY <1>1 DEF PlanPhase, PlanSucceeded, RunPlanner
    <2>3. daemon'[d].at = 1 /\ daemon'[d].pc \in {"planning", "gate", "planned", "fail"}
      BY <2>1, <2>2, Moves DEF Moved
    <2> QED BY ONLY <1>d, <2>3
  <1>2. CASE WaitForApproval(d) \/ Complete(d)
    BY <1>2, <1>g, Moves DEF WaitForApproval, Complete
  <1>3. CASE ReportPhase(d)
    <2>1. CASE daemon[d].ok
      <3>1. WentOn(d) /\ plan' = plan /\ daemon[d].at > 1
        BY <1>3, <2>1, Moves DEF ReportPhase, At, Knows, Places
      <3> QED BY <1>c, <3>1
    <2>2. CASE ~daemon[d].ok
      <3>1. plan' = plan /\ Goto(d, "fail")
        BY <1>3, <2>2 DEF ReportPhase
      <3> QED BY ONLY <1>f, <3>1 DEF Between
    <2> QED BY <2>1, <2>2
  <1>4. CASE EnterPhase(d)
    <2>1. plan' = plan /\ Goto(d, "exec")
      BY <1>4 DEF EnterPhase
    <2> QED BY ONLY <1>f, <2>1 DEF Between
  <1>5. CASE FailItem(d)
    <2>1. plan' = plan /\ (Goto(d, "fail") \/ Left(d))
      BY <1>5, Moves DEF FailItem
    <2> QED BY ONLY <1>f, <1>g, <2>1 DEF Between
  <1>6. CASE Gate(d)
    <2>1. /\ plan' = plan
          /\ \/ \E pc \in Between : Moved(d, pc, daemon[d].at)
             \/ WentOn(d) /\ (HashApproved(i, plan[i]) \/ "plan" \notin Gated)
      BY <1>0, <1>6, GateMoves DEF Between
    <2> QED BY ONLY <1>c, <1>e, <2>1
  <1>7. CASE StartImplement(d)
    <2>1. /\ plan' = plan
          /\ \/ Moved(d, "report", daemon[d].at)
             \/ Moved(d, "building", daemon[d].at) /\ daemon'[d].hash = plan[i]
      BY <1>0, <1>7, ImplementMoves
    <2>2. CASE Moved(d, "report", daemon[d].at)
      BY ONLY <1>e, <2>1, <2>2 DEF Between
    <2>3. CASE Moved(d, "building", daemon[d].at) /\ daemon'[d].hash = plan[i]
      BY ONLY <1>0, <1>b, <2>1, <2>3 DEF Moved
    <2> QED BY <2>1, <2>2, <2>3
  <1>8. CASE FinishImplement(d)
    <2>1. plan' = plan /\ Moved(d, "report", daemon[d].at)
      BY <1>8, FinishMoves
    <2> QED BY ONLY <1>e, <2>1 DEF Between
  <1>9. CASE RunTarget(d)
    <2>1. daemon[d].at > 1
      BY <1>9 DEF RunTarget, At, Knows, Places
    <2>2. /\ plan' = plan
          /\ (\E pc \in Between : Moved(d, pc, daemon[d].at)) \/ WentOn(d)
      BY <1>9, TargetMoves DEF Between
    <2> QED BY ONLY <1>c, <1>e, <2>1, <2>2
  <1>10. CASE StoreError(d)
    <2>1. plan' = plan /\ ((\E pc \in Between : Moved(d, pc, daemon[d].at)) \/ Left(d))
      BY <1>10, ErrorMoves DEF Between
    <2> QED BY ONLY <1>e, <1>g, <2>1
  <1> QED BY <1>1, <1>2, <1>3, <1>4, <1>5, <1>6, <1>7, <1>8, <1>9, <1>10 DEF DaemonStep

-----------------------------------------------------------------------------
(* What all daemons know *)

SpineInv == \A d \in Daemons : Knows(d)
ReadsInv == \A d \in Daemons : Reads(d)

\* Who works on nothing relies on nothing.
LEMMA NothingToKnow ==
  ASSUME NEW e \in Daemons
  PROVE  /\ daemon[e].pc \notin Working => Knows(e) /\ Reads(e)
         /\ daemon'[e].pc \notin Working => Knows(e)' /\ Reads(e)'
  BY DEF Knows, Reads, Owns, Places, Cleared, Built, Progress, Working

\* A claimed item is the daemon's own, and it starts from the plan.
LEMMA ClaimKnows ==
  ASSUME TypeOK, NEW d \in Daemons, Claim(d) PROVE Knows(d)' /\ Reads(d)'
  <1>1. PICK now \in Times, i \in Items :
          /\ ClaimNextFactoryWorkItem(Factory, d, now, i)
          /\ daemon' = [daemon EXCEPT ![d] = [Free("plan") EXCEPT !.item = i]]
    BY DEF Claim
  <1>2. daemon'[d].pc = "plan" /\ daemon'[d].item = i /\ daemon'[d].at = 1
    BY <1>1 DEF Free, TypeOK
  <1>3. items'[i].claimed_by = d /\ items'[i].lifecycle = "claimed"
    BY <1>1 DEF ClaimNextFactoryWorkItem, TypeOK, QueueTypeOK, WorkItem
  <1>4. \A k \in Steps : ~(k < 1)
    BY SpineTypes DEF Steps
  <1> QED BY <1>2, <1>3, <1>4 DEF Knows, Reads, Owns, Places, Cleared, Built, Progress

\* Every step leaves every daemon with what it relies on, and, while plan files are left
\* alone that somebody works from, with an approved text.
LEMMA SpineKept ==
  ASSUME TypeOK, Assigned, Exclusive, SpineInv, [Next]_vars
  PROVE  SpineInv' /\ (EditsWait /\ ReadsInv => ReadsInv')
  <1>0. approvals \subseteq approvals'
    BY EveryStepIsACall, ApprovalsStay
  <1> SUFFICES ASSUME NEW e \in Daemons
               PROVE  Knows(e)' /\ (EditsWait /\ Reads(e) => Reads(e)')
    BY DEF SpineInv, ReadsInv
  <1>a. Knows(e)
    BY DEF SpineInv
  <1>b. ASSUME daemon[e].pc \in Working, RowsKept(daemon[e].item), daemon'[e] = daemon[e],
               EditsWait => plan'[daemon[e].item] = plan[daemon[e].item]
        PROVE  Knows(e)' /\ (EditsWait /\ Reads(e) => Reads(e)')
    BY <1>0, <1>a, <1>b, KnowsKept
  <1>c. daemon'[e].pc \notin Working => Knows(e)' /\ Reads(e)'
    BY NothingToKnow
  <1>1. ASSUME NEW d \in Daemons,
               Start(d) \/ Renew(d) \/ RenewRefused(d) \/ Stop(d) \/ Crash(d) \/ Claim(d)
        PROVE  Knows(e)' /\ (EditsWait /\ Reads(e) => Reads(e)')
    <2>1. CASE d # e /\ daemon[e].pc \in Working
      BY <1>1, <1>b, <2>1, DaemonsKeep
    <2>2. CASE d # e /\ daemon[e].pc \notin Working
      BY <1>1, <1>c, <2>2, FreshDaemon DEF Alone
    <2>3. CASE d = e
      <3>1. CASE Claim(d)
        BY <2>3, <3>1, ClaimKnows
      <3>2. CASE daemon'[d].pc \in {"idle", "dead"}
        BY <1>c, <2>3, <3>2 DEF Working
      <3>3. CASE daemon'[d] = daemon[d] /\ UNCHANGED items
        <4>1. RowsKept(daemon[e].item) /\ plan' = plan
          BY <1>1, <2>3, <3>3, FreshDaemon DEF RowsKept, Renew, RenewRefused, Start, Stop, Crash, Claim, daemonVars
        <4> QED BY <1>b, <1>c, <2>3, <3>3, <4>1
      <3> QED BY <1>1, <3>1, <3>2, <3>3, FreshDaemon
    <2> QED BY <2>1, <2>2, <2>3
  <1>2. ASSUME NEW d \in Daemons, daemon[d].pc \in Working, ~Claim(d),
               DaemonStep(d) \/ StoreError(d)
        PROVE  Knows(e)' /\ (EditsWait /\ Reads(e) => Reads(e)')
    <2>1. CASE d # e /\ daemon[e].pc \in Working
      BY <1>2, <1>b, <2>1, DaemonsKeep
    <2>2. CASE d # e /\ daemon[e].pc \notin Working
      BY <1>2, <1>c, <2>2, WorkingStep DEF Alone
    <2>3. CASE d = e
      <3>1. (Places(d) /\ Cleared(d))'
        BY <1>0, <1>2, <1>a, <2>3, OwnGates DEF Knows
      <3>2. Owns(d)' /\ Built(d)' /\ Progress(d)'
        BY <1>2, <1>a, <2>3, OwnOwns, OwnBuilt, OwnProgress
      <3>3. Reads(d) => Reads(d)'
        BY <1>0, <1>2, <1>a, <2>3, OwnReads
      <3> QED BY <2>3, <3>1, <3>2, <3>3 DEF Knows
    <2> QED BY <2>1, <2>2, <2>3
  <1>3. CASE ReviewNext \/ UserNext \/ UNCHANGED vars
    <2>1. CASE daemon[e].pc \in Working
      BY <1>3, <1>b, <2>1, PeopleKeep
    <2>2. CASE daemon[e].pc \notin Working
      <3>1. UNCHANGED daemon
        BY <1>3, Actors, StepTypesReviewer, StepTypesUser DEF vars, daemonVars, ReviewNext
      <3> QED BY <1>c, <2>2, <3>1
    <2> QED BY <2>1, <2>2
  <1> QED BY <1>1, <1>2, <1>3, Actors

\* What the daemons rely on holds from the start.
LEMMA SpineInit == Init => SpineInv /\ ReadsInv
  <1>1. Init => \A d \in Daemons : daemon[d].pc \notin Working
    BY DEF Init, Free, Working
  <1> QED BY <1>1, NothingToKnow DEF SpineInv, ReadsInv

\* Whatever happens around them, the daemons can rely on what processOne takes for granted.
THEOREM SpineHolds == Spec => [](TypeOK /\ Assigned /\ Exclusive /\ SpineInv)
  <1>1. TypeOK /\ Assigned /\ Exclusive /\ SpineInv /\ [Next]_vars => SpineInv'
    BY SpineKept
  <1>2. OneWorkerPerItem /\ HeldItemsAreNotOffered <=> Exclusive
    BY DEF Exclusive
  <1> QED BY <1>1, <1>2, SpineInit, DaemonTypesHold, WorkersAreExclusive, PTL DEF Spec

-----------------------------------------------------------------------------
(* What is shipped was approved *)

\* Only Implement writes the ledger, with the text it read.
LEMMA LedgerWritten ==
  ASSUME TypeOK, Assigned, Exclusive, SpineInv, ReadsInv, [Next]_vars, "plan" \in Gated,
         NEW i \in Items, ledger'[i] # ledger[i]
  PROVE  HashApproved(i, ledger'[i].hash)
  <1>1. PICK d \in Daemons :
          daemon[d].pc \in Working /\ ~Claim(d) /\ (DaemonStep(d) \/ StoreError(d))
    BY Actors, FreshDaemon DEF vars, daemonVars
  <1>2. daemon[d].item = i /\ Knows(d) /\ Reads(d)
    BY <1>1, OwnRowsOnly DEF SpineInv, ReadsInv
  <1>3. StartImplement(d) \/ FinishImplement(d)
    BY <1>1
    DEF DaemonStep, PlanPhase, RunPlanner, PlanSucceeded, Gate, WaitForApproval, EnterPhase,
        RunTarget, ReportPhase, Complete, FailItem, StoreError
  <1>a. ledger \in [Items -> LedgerState]
    BY DEF TypeOK
  <1>4. CASE StartImplement(d)
    <2>1. ledger'[i].hash = plan[i]
      <3>1. PICK status : ledger' = [ledger EXCEPT ![i] = [status |-> status, hash |-> plan[i]]]
        BY <1>2, <1>4, ImplementMoves
      <3> QED BY ONLY <1>a, <3>1
    <2>2. HashApproved(i, plan[i])
      BY <1>2, <1>4, ImplementMoves DEF Knows, Places, Reads, Working
    <2> QED BY <2>1, <2>2
  <1>5. CASE FinishImplement(d)
    <2>1. ledger'[i].hash = daemon[d].hash
      <3>1. PICK status :
              ledger' = [ledger EXCEPT ![i] = [status |-> status, hash |-> daemon[d].hash]]
        BY <1>2, <1>5, FinishMoves
      <3> QED BY ONLY <1>a, <3>1
    <2>2. HashApproved(i, daemon[d].hash)
      BY <1>2, <1>5, FinishMoves DEF Knows, Places, Reads, Working
    <2> QED BY <2>1, <2>2
  <1> QED BY <1>3, <1>4, <1>5

\* What is implemented was approved, what is shipped was implemented, if nobody edits the plan
\* of an item in work (ensurePlanApproval, Implement, processOne).
THEOREM ShippedWasApproved ==
  ASSUME EditsWait PROVE Spec => []ShipsWhatWasApproved
  <1>1. Init => ApprovedPlanOnly
    BY DEF Init, ApprovedPlanOnly
  <1>2. TypeOK /\ Assigned /\ Exclusive /\ SpineInv /\ ReadsInv /\ ApprovedPlanOnly /\ [Next]_vars
          => ApprovedPlanOnly'
    <2> SUFFICES ASSUME TypeOK, Assigned, Exclusive, SpineInv, ReadsInv, ApprovedPlanOnly,
                        [Next]_vars
                 PROVE  ApprovedPlanOnly'
      OBVIOUS
    <2>1. ASSUME "plan" \in Gated, NEW i \in Items, ledger'[i].status # "none"
          PROVE  \E a \in approvals' :
                   a.item = i /\ a.phase = "plan" /\ a.plan_hash = ledger'[i].hash
      <3>1. HashApproved(i, ledger'[i].hash)
        <4>1. CASE ledger'[i] = ledger[i]
          <5>1. ledger[i].status # "none"
            BY <2>1, <4>1
          <5>2. HashApproved(i, ledger[i].hash)
            BY ONLY ApprovedPlanOnly, <2>1, <5>1 DEF ApprovedPlanOnly, HashApproved
          <5> QED BY ONLY <4>1, <5>2
        <4>2. CASE ledger'[i] # ledger[i]
          BY <2>1, <4>2, LedgerWritten
        <4> QED BY <4>1, <4>2
      <3>2. approvals \subseteq approvals'
        BY EveryStepIsACall, ApprovalsStay
      <3> QED BY <3>1, <3>2, Zenon DEF HashApproved
    <2> QED BY <2>1, Zenon DEF ApprovedPlanOnly
  <1>3. SpineInv => ShipsOnlyImplemented
    BY DEF SpineInv, Knows, Built, ShipsOnlyImplemented, At, Working
  <1>4. TypeOK /\ Assigned /\ Exclusive /\ SpineInv /\ ReadsInv /\ [Next]_vars => ReadsInv'
    BY SpineKept
  <1> QED BY <1>1, <1>2, <1>3, <1>4, SpineInit, SpineHolds, PTL DEF Spec, ShipsWhatWasApproved

-----------------------------------------------------------------------------
(* What becomes of items *)

EndsWell(d, i) ==
  /\ items'[i].lifecycle = "completed" => Complete(d)
  /\ items'[i].failure = "rejected" => items[i].failure = "rejected"
  /\ items'[i].lifecycle \in {"claimed", "running"} /\ ~StoreMayFail => Keeps(d)

\* A daemon completes an item by Complete alone, rejects none, and lets go of none that is
\* not at a gate or closed, unless the store fails.
LEMMA OwnEnds ==
  ASSUME TypeOK, Assigned, NEW d \in Daemons, daemon[d].pc \in Working, ~Claim(d), Knows(d),
         DaemonStep(d) \/ StoreError(d), NEW i \in Items, daemon[d].item = i
  PROVE  EndsWell(d, i)
  <1>0. QueueTypeOK /\ Phase(d) \in Phases /\ "plan" \in Phases /\ items[i] \in WorkItem
    BY Spine, QueueAssumption DEF TypeOK, QueueTypeOK
  <1>a. items[i].lifecycle # "completed"
    BY DEF Knows, Owns
  <1>b. ASSUME items' = items, Keeps(d) PROVE EndsWell(d, i)
    BY <1>a, <1>b DEF EndsWell
  <1>c. ASSUME NEW p \in Phases, NEW status, UpdateFactoryWorkItemPhase(i, p, status),
               Keeps(d) \/ status = "waiting_approval"
        PROVE  EndsWell(d, i)
    <2>1. /\ items'[i].failure = items[i].failure
          /\ items'[i].lifecycle \in {items[i].lifecycle, "running", "waiting_approval"}
          /\ status = "waiting_approval" => items'[i].lifecycle = "waiting_approval"
      BY <1>0, <1>c, PhaseWriteRows
    <2> QED BY ONLY <1>a, <1>c, <2>1 DEF EndsWell
  <1>d. ASSUME NEW pc \in Between \cup {"gate"}, Goto(d, pc) PROVE Keeps(d)
    BY <1>d, Moves DEF Moved, Keeps, Between, Working
  <1>e. WentOn(d) \/ Moved(d, "report", daemon[d].at) \/ Moved(d, "building", daemon[d].at)
          \/ (\E pc \in Between : Moved(d, pc, daemon[d].at)) => Keeps(d)
    BY DEF WentOn, Moved, Keeps, Between, Working
  <1>1. CASE PlanPhase(d) \/ PlanSucceeded(d)
    <2>1. Keeps(d)
      <3>1. \E pc \in {"planning", "gate"} : Goto(d, pc)
        BY <1>1 DEF PlanPhase, PlanSucceeded
      <3> QED BY ONLY <1>d, <3>1 DEF Between
    <2> QED BY <1>0, <1>1, <1>c, <2>1 DEF PlanPhase, PlanSucceeded
  <1>2. CASE WaitForApproval(d)
    BY <1>0, <1>2, <1>c DEF WaitForApproval
  <1>3. CASE Complete(d)
    <2>1. items'[i].lifecycle = "completed" /\ items'[i].failure = "none"
      BY <1>0, <1>3
      DEF Complete, CompleteFactoryWorkItem, FinishFactoryWorkItem, QueueTypeOK, WorkItem
    <2> QED BY <1>3, <2>1 DEF EndsWell
  <1>4. CASE ReportPhase(d)
    <2>1. Keeps(d)
      <3>1. Goto(d, "fail") \/ WentOn(d)
        BY <1>4, Moves DEF ReportPhase
      <3> QED BY ONLY <1>d, <1>e, <3>1 DEF Between
    <2> QED BY <1>0, <1>4, <1>c, <2>1 DEF ReportPhase
  <1>5. CASE EnterPhase(d)
    <2>1. Keeps(d)
      <3>1. Goto(d, "exec")
        BY <1>5 DEF EnterPhase
      <3> QED BY ONLY <1>d, <3>1 DEF Between
    <2>2. CASE UpdateFactoryWorkItemPhase(i, Phase(d), "running")
      BY <1>0, <1>c, <2>1, <2>2
    <2>3. CASE UNCHANGED queueVars
      BY <1>b, <2>1, <2>3 DEF queueVars
    <2> QED BY <1>5, <2>2, <2>3 DEF EnterPhase
  <1>6. CASE FailItem(d)
    <2>1. items'[i].lifecycle = "failed" /\ items'[i].failure = "phase"
      BY <1>0, <1>6
      DEF FailItem, FailFactoryWorkItem, FinishFactoryWorkItem, QueueTypeOK, WorkItem
    <2> QED BY <2>1 DEF EndsWell
  <1>7. CASE RunPlanner(d)
    <2>1. Keeps(d)
      <3>1. \E pc \in {"planned", "fail"} : Goto(d, pc)
        BY <1>7 DEF RunPlanner
      <3> QED BY ONLY <1>d, <3>1 DEF Between
    <2> QED BY <1>7, <1>b, <2>1 DEF RunPlanner, queueVars
  <1>8. CASE Gate(d)
    <2>1. WentOn(d) \/ \E pc \in Between : Moved(d, pc, daemon[d].at)
      BY <1>8, GateMoves DEF Between
    <2> QED BY <1>8, <1>b, <1>e, <2>1, GateMoves DEF Rows
  <1>9. CASE StartImplement(d)
    BY <1>9, <1>b, <1>e, ImplementMoves DEF Rows
  <1>10. CASE FinishImplement(d)
    BY <1>10, <1>b, <1>e, FinishMoves DEF Rows
  <1>11. CASE RunTarget(d)
    <2>1. WentOn(d) \/ \E pc \in Between : Moved(d, pc, daemon[d].at)
      BY <1>11, TargetMoves DEF Between
    <2> QED BY <1>11, <1>b, <1>e, <2>1, TargetMoves DEF Rows
  <1>12. CASE StoreError(d)
    BY <1>12, <1>a, ErrorMoves DEF Rows, EndsWell
  <1> QED
    BY <1>1, <1>2, <1>3, <1>4, <1>5, <1>6, <1>7, <1>8, <1>9, <1>10, <1>11, <1>12 DEF DaemonStep

\* The pollers, the operators and the users only submit, cancel and reject.
LEMMA PeopleItems ==
  ASSUME TypeOK, Assigned, ReviewNext \/ UserNext, NEW i \in Items
  PROVE  \/ items'[i] = items[i]
         \/ items'[i].lifecycle \in {"pending", "cancelled", "failed"}
  <1>a. QueueTypeOK
    BY DEF TypeOK
  <1>b. QuietStep \/ \E j \in Items : SubmitStep(j) \/ CancelStep(j) \/ RejectStep(j)
    BY ReviewStepKinds, UserStepKinds
  <1>1. ASSUME NEW j \in Items, NEW new, EnqueueFactoryWorkItem(j, new)
        PROVE  items'[i] = items[i] \/ items'[i].lifecycle = "pending"
    BY <1>a, <1>1 DEF EnqueueFactoryWorkItem, InsertFactoryWorkItem, QueueTypeOK
  <1>2. ASSUME NEW r \in Reviewers,
               \/ ListWaiting(r) \/ EndBatch(r) \/ BeginProviderApproval(r)
               \/ \E j \in Items, p \in Phases : BeginCliApproval(r, j, p)
               \/ Approve(r)
        PROVE  items' = items
    BY <1>2 DEF ListWaiting, EndBatch, BeginProviderApproval, BeginCliApproval, Approve,
                RecordFactoryApproval, queueVars
  <1>3. ASSUME NEW r \in Reviewers, EnqueueRetry(r)
        PROVE  items'[i] = items[i] \/ items'[i].lifecycle = "pending"
    BY <1>1, <1>3 DEF EnqueueRetry, queueVars
  <1>4. ASSUME NEW r \in Reviewers, FailRejected(r)
        PROVE  items'[i] = items[i] \/ items'[i].lifecycle = "failed"
    BY <1>a, <1>4, FinishRows DEF FailRejected, FailFactoryWorkItem, Assigned
  <1>5. ASSUME NEW j \in Items, Submit(j) \/ Cancel(j) \/ EditPlan(j)
        PROVE  items'[i] = items[i] \/ items'[i].lifecycle \in {"pending", "cancelled"}
    BY <1>a, <1>1, <1>5
    DEF Submit, Cancel, EditPlan, CancelFactoryWorkItem, QueueTypeOK, WorkItem, queueVars
  <1> QED BY <1>2, <1>3, <1>4, <1>5 DEF ReviewNext, UserNext

\* A claim leaves the other items alone.
LEMMA ClaimItems ==
  ASSUME TypeOK, NEW d \in Daemons, Claim(d)
  PROVE  \E i \in Items :
           /\ daemon[d].pc = "idle" /\ daemon'[d].pc = "plan" /\ daemon'[d].item = i
           /\ items'[i].lifecycle = "claimed" /\ items'[i].claimed_by = d
           /\ items[i].lifecycle \in {"pending", "waiting_approval"}
           /\ items'[i].failure = items[i].failure
           /\ \A j \in Items \ {i} : items'[j] = items[j]
  <1>1. PICK now \in Times, i \in Items :
          /\ ClaimNextFactoryWorkItem(Factory, d, now, i)
          /\ daemon' = [daemon EXCEPT ![d] = [Free("plan") EXCEPT !.item = i]]
    BY DEF Claim
  <1>2. daemon'[d].pc = "plan" /\ daemon'[d].item = i
    BY <1>1 DEF Free, TypeOK
  <1>3. /\ items'[i].claimed_by = d /\ items'[i].lifecycle = "claimed"
        /\ items[i].lifecycle \in {"pending", "waiting_approval"}
        /\ items'[i].failure = items[i].failure
        /\ \A j \in Items \ {i} : items'[j] = items[j]
    BY <1>1 DEF ClaimNextFactoryWorkItem, Claimable, TypeOK, QueueTypeOK, WorkItem
  <1> QED BY <1>2, <1>3 DEF Claim, At

\* An item that completes has every phase behind it, one that is skipped or succeeded
\* (processOne).
THEOREM CompletesInFull == Spec => []CompletedInFull
  <1>1. Init => CompletedInFull
    BY DEF Init, QueueInit, NoItem, CompletedInFull
  <1>2. TypeOK /\ Assigned /\ Exclusive /\ SpineInv /\ CompletedInFull /\ [Next]_vars
          => CompletedInFull'
    <2> SUFFICES ASSUME TypeOK, Assigned, Exclusive, SpineInv, CompletedInFull, [Next]_vars
                 PROVE  CompletedInFull'
      OBVIOUS
    <2> SUFFICES ASSUME NEW i \in Items, NEW k \in Steps, items'[i].lifecycle = "completed",
                        RecordsPhase(Workflow[k])
                 PROVE  phases'[i][Workflow[k]] \in {"succeeded", "skipped"}
      BY DEF CompletedInFull
    <2>a. items[i].lifecycle = "completed" /\ phases'[i] = phases[i] =>
            phases'[i][Workflow[k]] \in {"succeeded", "skipped"}
      BY DEF CompletedInFull
    <2>1. ASSUME NEW d \in Daemons,
                 Start(d) \/ Renew(d) \/ RenewRefused(d) \/ Stop(d) \/ Crash(d) \/ Claim(d)
          PROVE  items[i].lifecycle = "completed" /\ phases'[i] = phases[i]
      <3>1. phases' = phases /\ (items' = items \/ Claim(d))
        BY <2>1, FreshDaemon
      <3>2. Claim(d) => items[i].lifecycle = "completed"
        BY ClaimItems
      <3> QED BY <3>1, <3>2
    <2>2. ASSUME NEW d \in Daemons, daemon[d].pc \in Working, ~Claim(d),
                 DaemonStep(d) \/ StoreError(d), daemon[d].item = i
          PROVE  phases'[i][Workflow[k]] \in {"succeeded", "skipped"}
      <3>1. Complete(d)
        BY <2>2, OwnEnds DEF SpineInv, EndsWell
      <3>2. daemon[d].pc = "complete" /\ phases' = phases
        BY <3>1 DEF Complete, At, CompleteFactoryWorkItem, FinishFactoryWorkItem
      <3>3. Passed(i, k)
        BY <2>2, <3>2 DEF SpineInv, Knows, Progress
      <3> QED BY <3>2, <3>3 DEF Passed
    <2>3. ASSUME NEW d \in Daemons, daemon[d].pc \in Working, ~Claim(d),
                 DaemonStep(d) \/ StoreError(d), daemon[d].item # i
          PROVE  items[i].lifecycle = "completed" /\ phases'[i] = phases[i]
      BY <2>3, OwnRowsOnly
    <2>4. CASE (ReviewNext \/ UserNext) /\ UNCHANGED phases
      BY <2>4, <2>a, PeopleItems
    <2>5. CASE UNCHANGED vars
      BY <2>5, <2>a DEF vars, queueVars
    <2> QED BY <2>a, <2>1, <2>2, <2>3, <2>4, <2>5, Actors
  <1> QED BY <1>1, <1>2, SpineHolds, PTL DEF Spec

\* No living daemon leaves an item behind that reads claimed or running, as long as the store
\* answers: whoever claimed it works on it, or died over it (processOne, failItem).
THEOREM NothingIsAbandoned ==
  ASSUME ~StoreMayFail PROVE Spec => []NoAbandonedItem
  <1>1. Init => NoAbandonedItem
    BY DEF Init, QueueInit, NoItem, NoAbandonedItem
  <1>2. TypeOK /\ Assigned /\ Exclusive /\ SpineInv /\ NoAbandonedItem /\ [Next]_vars
          => NoAbandonedItem'
    <2> SUFFICES ASSUME TypeOK, Assigned, Exclusive, SpineInv, NoAbandonedItem, [Next]_vars
                 PROVE  NoAbandonedItem'
      OBVIOUS
    <2> SUFFICES ASSUME NEW i \in Items, items'[i].lifecycle \in {"claimed", "running"}
                 PROVE  \E d \in Daemons :
                          /\ items'[i].claimed_by = d
                          /\ (daemon'[d].pc \in Working /\ daemon'[d].item = i) \/ daemon'[d].pc = "dead"
      BY DEF NoAbandonedItem, Works
    <2>a. ASSUME items'[i] = items[i]
          PROVE  \E d \in Daemons :
                   /\ items'[i].claimed_by = d
                   /\ (daemon[d].pc \in Working /\ daemon[d].item = i) \/ daemon[d].pc = "dead"
      BY <2>a DEF NoAbandonedItem, Works
    <2>1. ASSUME NEW d \in Daemons,
                 Start(d) \/ Renew(d) \/ RenewRefused(d) \/ Stop(d) \/ Crash(d), items' = items
          PROVE  \E e \in Daemons :
                   /\ items'[i].claimed_by = e
                   /\ (daemon'[e].pc \in Working /\ daemon'[e].item = i) \/ daemon'[e].pc = "dead"
      <3>1. Alone(d)
        BY <2>1, FreshDaemon
      <3>2. daemon'[d] = daemon[d] \/ daemon'[d].pc = "dead" \/ daemon[d].pc = "off"
        BY <2>1 DEF Start, Renew, RenewRefused, Stop, Crash, At, daemonVars, Free, TypeOK
      <3> QED BY <2>a, <2>1, <3>1, <3>2 DEF Alone, Working
    <2>2. ASSUME NEW d \in Daemons, Claim(d)
          PROVE  \E e \in Daemons :
                   /\ items'[i].claimed_by = e
                   /\ (daemon'[e].pc \in Working /\ daemon'[e].item = i) \/ daemon'[e].pc = "dead"
      <3>1. Alone(d)
        BY <2>2, FreshDaemon
      <3> QED BY <2>a, <2>2, <3>1, ClaimItems DEF Alone, Working
    <2>3. ASSUME NEW d \in Daemons, daemon[d].pc \in Working, ~Claim(d),
                 DaemonStep(d) \/ StoreError(d)
          PROVE  \E e \in Daemons :
                   /\ items'[i].claimed_by = e
                   /\ (daemon'[e].pc \in Working /\ daemon'[e].item = i) \/ daemon'[e].pc = "dead"
      <3>1. CASE daemon[d].item = i
        <4>1. Keeps(d)
          BY <2>3, <3>1, OwnEnds DEF SpineInv, EndsWell
        <4>2. Owns(d)'
          BY <2>3, OwnOwns DEF SpineInv
        <4> QED BY <3>1, <4>1, <4>2 DEF Keeps, Owns
      <3>2. CASE daemon[d].item # i
        <4>1. Alone(d) /\ items'[i] = items[i]
          BY <2>3, <3>2, WorkingStep, OwnRowsOnly
        <4> QED BY <2>3, <2>a, <3>2, <4>1 DEF Alone, Working
      <3> QED BY <3>1, <3>2
    <2>4. CASE (ReviewNext \/ UserNext) /\ UNCHANGED daemon
      BY <2>4, <2>a, PeopleItems
    <2>5. CASE UNCHANGED vars
      BY <2>5, <2>a DEF vars, queueVars, daemonVars
    <2> QED BY <2>1, <2>2, <2>3, <2>4, <2>5, Actors, FreshDaemon
  <1> QED BY <1>1, <1>2, SpineHolds, PTL DEF Spec

-----------------------------------------------------------------------------
(* Retries and keys *)

\* A row that is there keeps its key and what it retries; one that is not comes in as new.
LEMMA KeysStay ==
  ASSUME QueueTypeOK, [QueueNext]_queueVars, NEW i \in Items
  PROVE  /\ items[i].lifecycle # "none" =>
              /\ items'[i].lifecycle # "none"
              /\ items'[i].dedupe_key = items[i].dedupe_key
              /\ items'[i].retry_of = items[i].retry_of
         /\ items[i].lifecycle = "none" =>
              items'[i] = items[i] \/ items'[i].lifecycle = "pending"
  <1> DEFINE Stays == /\ items'[i].lifecycle # "none"
                      /\ items'[i].dedupe_key = items[i].dedupe_key
                      /\ items'[i].retry_of = items[i].retry_of
             Goal == /\ items[i].lifecycle # "none" => Stays
                     /\ items[i].lifecycle = "none" =>
                          items'[i] = items[i] \/ items'[i].lifecycle = "pending"
  <1>0. items \in [Items -> WorkItem]
    BY DEF QueueTypeOK
  <1>a. items'[i] = items[i] => Goal
    OBVIOUS
  <1>b. ASSUME items[i].lifecycle # "none", Stays PROVE Goal
    BY <1>b
  <1>c. ASSUME NEW j \in Items, NEW next, items' = [items EXCEPT ![j] = next],
               items[j].lifecycle # "none", next.lifecycle # "none",
               next.dedupe_key = items[j].dedupe_key, next.retry_of = items[j].retry_of
        PROVE  Goal
    BY <1>0, <1>c
  <1> HIDE DEF Goal
  <1>1. ASSUME LeaseNext PROVE Goal
    BY <1>1, <1>a
    DEF LeaseNext, AcquireFactoryDaemonLease, RenewFactoryDaemonLease, ReleaseFactoryDaemonLease
  <1>2. ASSUME UNCHANGED queueVars PROVE Goal
    BY <1>2, <1>a DEF queueVars
  <1>3. ASSUME NEW j \in Items, NEW f, NEW d, NEW now, ClaimNextFactoryWorkItem(f, d, now, j)
        PROVE  Goal
    BY <1>0, <1>3, <1>a, <1>b DEF ClaimNextFactoryWorkItem, Claimable, WorkItem
  <1>4. ASSUME NEW j \in Items, NEW p, NEW status, UpdateFactoryWorkItemPhase(j, p, status)
        PROVE  Goal
    <2>0. items[j].lifecycle # "none" /\ items[j] \in WorkItem
      BY <1>0, <1>4 DEF UpdateFactoryWorkItemPhase
    <2>1. CASE status = "running"
      <3> DEFINE next == [items[j] EXCEPT !.lifecycle = "running", !.current_phase = p]
      <3>1. items' = [items EXCEPT ![j] = next]
        BY <1>4, <2>1 DEF UpdateFactoryWorkItemPhase
      <3>2. /\ next.lifecycle # "none" /\ next.dedupe_key = items[j].dedupe_key
            /\ next.retry_of = items[j].retry_of
        BY <2>0 DEF WorkItem
      <3> HIDE DEF next
      <3> QED BY <1>c, <2>0, <3>1, <3>2
    <2>2. CASE status = "waiting_approval"
      <3> DEFINE next == [items[j] EXCEPT !.lifecycle = "waiting_approval", !.current_phase = p,
                                          !.claimed_by = None]
      <3>1. items' = [items EXCEPT ![j] = next]
        BY <1>4, <2>2 DEF UpdateFactoryWorkItemPhase
      <3>2. /\ next.lifecycle # "none" /\ next.dedupe_key = items[j].dedupe_key
            /\ next.retry_of = items[j].retry_of
        BY <2>0 DEF WorkItem
      <3> HIDE DEF next
      <3> QED BY <1>c, <2>0, <3>1, <3>2
    <2>3. CASE status \notin {"running", "waiting_approval"}
      BY <1>4, <1>a, <2>3 DEF UpdateFactoryWorkItemPhase
    <2> QED BY <2>1, <2>2, <2>3
  <1>5. ASSUME NEW j \in Items, NEW lifecycle \in Closed, NEW cause,
               FinishFactoryWorkItem(j, lifecycle, cause)
        PROVE  Goal
    <2> DEFINE next == [items[j] EXCEPT !.lifecycle = lifecycle, !.current_phase = None,
                                        !.attempt = lifecycle, !.failure = cause]
    <2>1. items[j].lifecycle # "none" /\ items[j] \in WorkItem /\ items' = [items EXCEPT ![j] = next]
      BY <1>0, <1>5 DEF FinishFactoryWorkItem
    <2>2. /\ next.lifecycle # "none" /\ next.dedupe_key = items[j].dedupe_key
          /\ next.retry_of = items[j].retry_of
      BY <2>1 DEF WorkItem, Closed
    <2> HIDE DEF next
    <2> QED BY <1>c, <2>1, <2>2
  <1>6. ASSUME NEW j \in Items, CancelFactoryWorkItem(j) PROVE Goal
    BY <1>0, <1>6, <1>a, <1>b DEF CancelFactoryWorkItem, WorkItem
  <1>7. ASSUME NEW j \in Items, NEW new, EnqueueFactoryWorkItem(j, new) PROVE Goal
    <2>1. CASE i = j
      BY <1>0, <1>7, <2>1 DEF EnqueueFactoryWorkItem, InsertFactoryWorkItem, Goal
    <2>2. CASE i # j
      BY <1>0, <1>7, <1>a, <2>2 DEF EnqueueFactoryWorkItem, InsertFactoryWorkItem
    <2> QED BY <2>1, <2>2
  <1>8. ASSUME NEW j \in Items, NEW revision, NEW priority,
               UpdatePendingFactoryWorkItem(j, revision, priority)
        PROVE  Goal
    BY <1>0, <1>8, <1>a, <1>b DEF UpdatePendingFactoryWorkItem, WorkItem
  <1>9. ASSUME NEW j \in Items, NEW p, NEW hash, RecordFactoryApproval(j, p, hash) PROVE Goal
    BY <1>9, <1>a DEF RecordFactoryApproval
  <1>10. ASSUME ItemNext PROVE Goal
    <2>1. PICK j \in Items :
            \/ \E f, d, now : ClaimNextFactoryWorkItem(f, d, now, j)
            \/ \E p, status : UpdateFactoryWorkItemPhase(j, p, status)
            \/ \E cause : \E lifecycle \in Closed : FinishFactoryWorkItem(j, lifecycle, cause)
            \/ CancelFactoryWorkItem(j)
            \/ \E new : EnqueueFactoryWorkItem(j, new)
            \/ \E revision, priority : UpdatePendingFactoryWorkItem(j, revision, priority)
            \/ \E p, hash : RecordFactoryApproval(j, p, hash)
      BY <1>10, Zenon DEF ItemNext, CompleteFactoryWorkItem, FailFactoryWorkItem, Closed
    <2>a. CASE \E f, d, now : ClaimNextFactoryWorkItem(f, d, now, j)
      BY <1>3, <2>a
    <2>b. CASE \E p, status : UpdateFactoryWorkItemPhase(j, p, status)
      BY <1>4, <2>b
    <2>c. CASE \E cause : \E lifecycle \in Closed : FinishFactoryWorkItem(j, lifecycle, cause)
      BY <1>5, <2>c
    <2>d. CASE \E new : EnqueueFactoryWorkItem(j, new)
      BY <1>7, <2>d
    <2>e. CASE \E revision, priority : UpdatePendingFactoryWorkItem(j, revision, priority)
      BY <1>8, <2>e
    <2>f. CASE \E p, hash : RecordFactoryApproval(j, p, hash)
      BY <1>9, <2>f
    <2> QED BY <1>6, <2>1, <2>a, <2>b, <2>c, <2>d, <2>e, <2>f
  <1>11. Goal
    <2>1. LeaseNext \/ ItemNext \/ UNCHANGED queueVars
      BY DEF QueueNext
    <2> QED BY <1>1, <1>2, <1>10, <2>1
  <1> QED BY <1>11 DEF Goal

\* Submissions carry keys of their own: those of retries are made by rejectItem alone.
SubmitsOwnKeys == SubmitKeys \cap (Items \X (1 .. MaxRejections)) = {}

Retried(i) == \E j \in Items : items[j].retry_of = i

RetryInv ==
  /\ \A j \in Items : items[j].lifecycle = "none" => items[j].retry_of = None
  /\ \A i, j \in Items, n \in 1 .. MaxRejections :
       items[j].dedupe_key = <<i, n>> => items[j].retry_of = i
  /\ \A r \in Reviewers : reviewer[r].pc = "reject" => Retried(reviewer[r].item)
  /\ RejectedHasRetry

\* A retry that was enqueued stays in the queue.
LEMMA RetriesStay ==
  ASSUME TypeOK, Assigned, RetryInv, [Next]_vars, NEW i \in Items, Retried(i)
  PROVE  \E j \in Items : items'[j].retry_of = i
  <1>1. PICK j \in Items : items[j].retry_of = i
    BY DEF Retried
  <1>2. items[j].lifecycle # "none"
    BY <1>1, QueueAssumption DEF RetryInv
  <1>3. items'[j].retry_of = i
    BY <1>1, <1>2, EveryStepIsACall, KeysStay DEF TypeOK
  <1> QED BY <1>3

\* What a new row says, and that the others stay.
LEMMA NewRows ==
  ASSUME QueueTypeOK, NEW i \in Items, NEW new, EnqueueFactoryWorkItem(i, new)
  PROVE  /\ \A j \in Items \ {i} : items'[j] = items[j]
         /\ items'[i].dedupe_key = new.dedupe_key /\ items'[i].retry_of = new.retry_of
         /\ items'[i].failure = "none" /\ items'[i].lifecycle = "pending"
  BY DEF QueueTypeOK, EnqueueFactoryWorkItem, InsertFactoryWorkItem

\* A row keeps its key, what it retries and why it failed.
SameRetry(j) ==
  /\ items'[j].dedupe_key = items[j].dedupe_key /\ items'[j].retry_of = items[j].retry_of
  /\ items'[j].failure = "rejected" => items[j].failure = "rejected"

\* The daemons leave retries alone.
LEMMA DaemonsRetryNothing ==
  ASSUME TypeOK, Assigned, Exclusive, SpineInv, [Next]_vars, NEW d \in Daemons,
         \/ Start(d) \/ Renew(d) \/ RenewRefused(d) \/ Stop(d) \/ Crash(d) \/ Claim(d)
         \/ daemon[d].pc \in Working /\ ~Claim(d) /\ (DaemonStep(d) \/ StoreError(d)),
         NEW j \in Items
  PROVE  SameRetry(j)
  <1>a. items[j].lifecycle # "none" /\ (items'[j].failure = "rejected" => items[j].failure = "rejected")
          => SameRetry(j)
    BY EveryStepIsACall, KeysStay DEF TypeOK, SameRetry
  <1>b. items'[j] = items[j] => SameRetry(j)
    BY DEF SameRetry
  <1>1. CASE Claim(d)
    BY <1>1, <1>a, <1>b, ClaimItems
  <1>2. CASE (Start(d) \/ Renew(d) \/ RenewRefused(d) \/ Stop(d) \/ Crash(d)) /\ ~Claim(d)
    BY <1>2, <1>b, FreshDaemon
  <1>3. CASE daemon[d].pc \in Working /\ ~Claim(d) /\ (DaemonStep(d) \/ StoreError(d))
    <2>1. CASE daemon[d].item = j
      <3>1. items'[j].failure = "rejected" => items[j].failure = "rejected"
        BY <1>3, <2>1, OwnEnds DEF SpineInv, EndsWell
      <3>2. items[j].lifecycle # "none"
        BY <1>3, <2>1 DEF Exclusive, HeldItemsAreNotOffered, life
      <3> QED BY <1>a, <3>1, <3>2
    <2>2. CASE daemon[d].item # j
      BY <1>3, <1>b, <2>2, OwnRowsOnly
    <2> QED BY <2>1, <2>2
  <1> QED BY <1>1, <1>2, <1>3

\* An item that a rejection failed has a retry, had it crashed between the two calls or not
\* (rejectItem, Service.Reject).
LEMMA RetryKept ==
  ASSUME SubmitsOwnKeys, TypeOK, Assigned, Exclusive, SpineInv, RetryInv, [Next]_vars
  PROVE  RetryInv'
  <1>0. QueueTypeOK /\ items \in [Items -> WorkItem] /\ reviewer \in [Reviewers -> ReviewerState]
    BY DEF TypeOK, QueueTypeOK
  <1>1. \A j \in Items : items'[j].lifecycle = "none" => items'[j].retry_of = None
    BY EveryStepIsACall, KeysStay, <1>0 DEF RetryInv
  <1> DEFINE Found(i) == \E j \in Items : items'[j].retry_of = i
             Keyed(j) == \A i \in Items, n \in 1 .. MaxRejections :
                           items'[j].dedupe_key = <<i, n>> => items'[j].retry_of = i
             Told == \A r \in Reviewers : reviewer'[r].pc = "reject" => Found(reviewer'[r].item)
             Rejected(j) == items'[j].failure = "rejected" => Found(j)
             Done == Told /\ \A j \in Items : Keyed(j) /\ Rejected(j)
  <1>2. \A i \in Items : Retried(i) => Found(i)
    BY RetriesStay
  <1>g. \A r \in Reviewers : reviewer[r].pc = "reject" => Found(reviewer[r].item)
    <2>1. \A r \in Reviewers : reviewer[r].pc = "reject" => reviewer[r].item \in Items
      BY DEF Assigned
    <2> QED BY <1>2, <2>1 DEF RetryInv
  <1>h. \A j \in Items : items[j].failure = "rejected" => Found(j)
    BY <1>2 DEF RetryInv, RejectedHasRetry, Retried
  <1> HIDE DEF Found
  <1>a. ASSUME NEW j \in Items, SameRetry(j) PROVE Keyed(j) /\ Rejected(j)
    BY <1>h, <1>a DEF SameRetry, RetryInv
  <1>b. UNCHANGED reviewer => Told
    BY <1>g
  <1>c. ASSUME NEW r \in Reviewers, NEW next, reviewer' = [reviewer EXCEPT ![r] = next],
               next.pc # "reject"
        PROVE  Told
    <2>1. \A q \in Reviewers \ {r} : reviewer'[q] = reviewer[q]
      BY <1>0, <1>c
    <2>2. reviewer'[r] = next
      BY <1>0, <1>c
    <2> QED BY ONLY <1>c, <1>g, <2>1, <2>2
  <1>d. \A j \in Items : items'[j] = items[j] => SameRetry(j)
    BY DEF SameRetry
  <1>f. NoDecision.pc # "reject"
    BY DEF NoDecision
  <1>e. ASSUME NEW r \in Reviewers, reviewer[r].pc # "idle", Decided(r) PROVE Told
    <2>1. CASE r \in Pollers
      <3> DEFINE next == [reviewer[r] EXCEPT !.pc = "listed", !.hash = None]
      <3>1. reviewer' = [reviewer EXCEPT ![r] = next]
        BY <1>0, <1>e, <2>1 DEF Decided
      <3>2. next.pc # "reject"
        BY <1>0 DEF ReviewerState
      <3> HIDE DEF next
      <3> QED BY <1>c, <3>1, <3>2
    <2>2. CASE r \notin Pollers
      <3>1. reviewer' = [reviewer EXCEPT ![r] = NoDecision]
        BY <1>e, <2>2 DEF Decided
      <3> QED BY <1>c, <1>f, <3>1
    <2> QED BY <2>1, <2>2
  <1> HIDE DEF Told, Keyed, Rejected
  <1>3. ASSUME NEW d \in Daemons,
               \/ Start(d) \/ Renew(d) \/ RenewRefused(d) \/ Stop(d) \/ Crash(d) \/ Claim(d)
               \/ daemon[d].pc \in Working /\ ~Claim(d) /\ (DaemonStep(d) \/ StoreError(d))
        PROVE  Done
    <2>1. \A j \in Items : Keyed(j) /\ Rejected(j)
      BY <1>3, <1>a, DaemonsRetryNothing
    <2>2. UNCHANGED reviewer \/ reviewer' = [reviewer EXCEPT ![d] = NoDecision]
      BY <1>3
      DEF Start, Renew, RenewRefused, Stop, Crash, Claim, daemonVars, DaemonStep, PlanPhase,
          RunPlanner, PlanSucceeded, Gate, WaitForApproval, EnterPhase, StartImplement,
          FinishImplement, RunTarget, ReportPhase, Complete, FailItem, StoreError
    <2> QED BY <1>b, <1>c, <1>f, <2>1, <2>2 DEF Reviewers
  <1>4. ASSUME NEW r \in Reviewers, ListWaiting(r) PROVE Done
    <2>1. UNCHANGED items
      BY <1>4 DEF ListWaiting, queueVars
    <2>2. PICK i \in Items : reviewer' = [reviewer EXCEPT ![r] =
            [pc |-> "listed", item |-> i, phase |-> items[i].current_phase,
             count |-> items[i].rejection_count, hash |-> None]]
      BY <1>4 DEF ListWaiting
    <2> DEFINE next == [pc |-> "listed", item |-> i, phase |-> items[i].current_phase,
                        count |-> items[i].rejection_count, hash |-> None]
    <2>3. reviewer' = [reviewer EXCEPT ![r] = next] /\ next.pc # "reject"
      BY <2>2
    <2> HIDE DEF next
    <2> QED BY <1>a, <1>c, <1>d, <2>1, <2>3
  <1>5. ASSUME NEW r \in Reviewers, EndBatch(r) PROVE Done
    BY <1>5, <1>a, <1>c, <1>d, <1>f DEF EndBatch, queueVars
  <1>6. ASSUME NEW r \in Reviewers, BeginProviderApproval(r) PROVE Done
    <2> DEFINE next == [reviewer[r] EXCEPT !.pc = "approve",
                          !.hash = Evidence(reviewer[r].item, reviewer[r].phase)]
    <2>1. UNCHANGED items /\ reviewer' = [reviewer EXCEPT ![r] = next]
      BY <1>0, <1>6 DEF BeginProviderApproval, queueVars
    <2>2. next.pc # "reject"
      BY <1>0 DEF ReviewerState
    <2> HIDE DEF next
    <2> QED BY <1>a, <1>c, <1>d, <2>1, <2>2
  <1>7. ASSUME NEW r \in Reviewers, NEW i \in Items, NEW p \in Phases, BeginCliApproval(r, i, p)
        PROVE  Done
    <2>1. UNCHANGED items
      BY <1>7 DEF BeginCliApproval, queueVars
    <2> DEFINE next == [pc |-> "approve", item |-> i, phase |-> p, count |-> 0,
                        hash |-> Evidence(i, p)]
    <2>2. reviewer' = [reviewer EXCEPT ![r] = next] /\ next.pc # "reject"
      BY <1>7 DEF BeginCliApproval
    <2> HIDE DEF next
    <2> QED BY <1>a, <1>c, <1>d, <2>1, <2>2
  <1>8. ASSUME NEW r \in Reviewers, Approve(r) PROVE Done
    <2>1. UNCHANGED items /\ Decided(r) /\ reviewer[r].pc # "idle"
      BY <1>8 DEF Approve, RecordFactoryApproval, queueVars
    <2> QED BY <1>a, <1>d, <1>e, <2>1
  <1>9. ASSUME NEW r \in Reviewers, EnqueueRetry(r) PROVE Done
    <2> DEFINE i == reviewer[r].item
               n == reviewer[r].count + 1
    <2>1. /\ i \in Items /\ n \in 1 .. MaxRejections /\ reviewer[r].pc = "listed"
          /\ reviewer[r] \in ReviewerState
      BY <1>0, <1>9, QueueAssumption DEF EnqueueRetry, ReviewerState, Assigned
    <2>2. ASSUME Decide(r, "reject"), Found(i) PROVE Told
      <3> DEFINE next == [reviewer[r] EXCEPT !.pc = "reject"]
      <3>1. reviewer' = [reviewer EXCEPT ![r] = next]
        BY <1>0, <2>2 DEF Decide
      <3>2. next.item = i
        BY <2>1 DEF ReviewerState
      <3> HIDE DEF next
      <3>3. \A q \in Reviewers \ {r} : reviewer'[q] = reviewer[q]
        BY <1>0, <3>1
      <3>4. reviewer'[r].item = i
        BY <1>0, <3>1, <3>2
      <3> QED BY <1>g, <2>2, <3>3, <3>4 DEF Told
    <2>3. ASSUME UNCHANGED items,
                 Decided(r) \/ (Decide(r, "reject") /\ OpenWithKey(<<i, n>>) # {})
          PROVE  Done
      <3>1. OpenWithKey(<<i, n>>) # {} => Retried(i)
        BY <2>1 DEF OpenWithKey, RetryInv, Retried
      <3>2. Told
        BY <1>2, <1>e, <2>1, <2>2, <2>3, <3>1
      <3> QED BY <1>a, <1>d, <2>3, <3>2
    <2>4. ASSUME NEW j \in Items, NEW new, EnqueueFactoryWorkItem(j, new),
                 new.dedupe_key = <<i, n>>, new.retry_of = i, Decide(r, "reject")
          PROVE  Done
      <3>1. /\ items'[j].dedupe_key = <<i, n>> /\ items'[j].retry_of = i
            /\ items'[j].failure = "none" /\ \A k \in Items \ {j} : items'[k] = items[k]
        BY <1>0, <2>4, NewRows
      <3>2. Keyed(j) /\ Rejected(j)
        BY <3>1 DEF Keyed, Rejected
      <3>3. Told
        BY <2>2, <2>4, <3>1 DEF Found
      <3> QED BY <1>a, <1>d, <3>1, <3>2, <3>3
    <2>5. \/ /\ UNCHANGED items
             /\ Decided(r) \/ (Decide(r, "reject") /\ OpenWithKey(<<i, n>>) # {})
          \/ \E reason \in Revisions, j \in Items :
               /\ EnqueueFactoryWorkItem(j,
                    [factory |-> Factory, dedupe_key |-> <<i, n>>,
                     priority |-> items[i].priority, revision |-> reason,
                     rejection_count |-> n, retry_of |-> i])
               /\ Decide(r, "reject")
      BY <1>9 DEF EnqueueRetry, RetryKey, queueVars
    <2>6. \A reason, f, k, c :
            /\ [factory |-> f, dedupe_key |-> <<i, n>>, priority |-> k, revision |-> reason,
                rejection_count |-> c, retry_of |-> i].dedupe_key = <<i, n>>
            /\ [factory |-> f, dedupe_key |-> <<i, n>>, priority |-> k, revision |-> reason,
                rejection_count |-> c, retry_of |-> i].retry_of = i
      OBVIOUS
    <2> QED BY <2>3, <2>4, <2>5, <2>6
  <1>10. ASSUME NEW r \in Reviewers, FailRejected(r) PROVE Done
    <2> DEFINE i == reviewer[r].item
    <2>1. i \in Items /\ reviewer[r].pc # "idle" /\ Decided(r)
      BY <1>10 DEF FailRejected, Assigned
    <2>2. PICK cause \in Failures :
            FailFactoryWorkItem(i, cause) /\ (cause = "rejected" => reviewer[r].pc = "reject")
      BY <1>10 DEF FailRejected, Failures
    <2>3. Found(i) \/ cause # "rejected"
      BY <1>g, <2>2
    <2>4. /\ \A j \in Items \ {i} : items'[j] = items[j]
          /\ items[i].lifecycle # "none" /\ items'[i].failure = cause
      BY <1>0, <2>1, <2>2
      DEF FailFactoryWorkItem, FinishFactoryWorkItem, WorkItem
    <2>5. Keyed(i)
      <3>1. items'[i].dedupe_key = items[i].dedupe_key /\ items'[i].retry_of = items[i].retry_of
        BY <1>0, <2>1, <2>4, EveryStepIsACall, KeysStay
      <3> QED BY <2>1, <3>1 DEF Keyed, RetryInv
    <2>6. Rejected(i)
      BY <2>3, <2>4 DEF Rejected
    <2> QED BY <1>a, <1>d, <1>e, <2>1, <2>4, <2>5, <2>6
  <1>11. ASSUME NEW i \in Items, Submit(i) PROVE Done
    <2>1. PICK key \in SubmitKeys, priority \in Priorities, revision \in Revisions :
            EnqueueFactoryWorkItem(i,
              [factory |-> Factory, dedupe_key |-> key, priority |-> priority,
               revision |-> revision, rejection_count |-> 0, retry_of |-> None])
      BY <1>11 DEF Submit
    <2>2. /\ \A j \in Items \ {i} : items'[j] = items[j]
          /\ items'[i].dedupe_key = key /\ items'[i].failure = "none"
      BY <1>0, <2>1, NewRows
    <2>3. \A j \in Items, n \in 1 .. MaxRejections : key # <<j, n>>
      BY DEF SubmitsOwnKeys
    <2>4. Keyed(i) /\ Rejected(i)
      BY <2>2, <2>3 DEF Keyed, Rejected
    <2> QED BY <1>11, <1>a, <1>b, <1>d, <2>2, <2>4 DEF Submit, daemonVars
  <1>12. ASSUME NEW i \in Items, Cancel(i) PROVE Done
    <2>1. \A j \in Items : SameRetry(j)
      BY <1>0, <1>12, <1>d
      DEF Cancel, CancelFactoryWorkItem, SameRetry, WorkItem
    <2> QED BY <1>12, <1>a, <1>b, <2>1 DEF Cancel, daemonVars
  <1>13. ASSUME NEW i \in Items, EditPlan(i) PROVE Done
    BY <1>13, <1>a, <1>b, <1>d DEF EditPlan, queueVars
  <1>14. ASSUME UNCHANGED vars PROVE Done
    <2>1. UNCHANGED <<items, reviewer>>
      BY <1>14 DEF vars, queueVars, daemonVars
    <2> QED BY <1>a, <1>b, <1>d, <2>1
  <1>15. Done
    <2> HIDE DEF Done
    <2>1. CASE ReviewNext
      BY <1>4, <1>5, <1>6, <1>7, <1>8, <1>9, <1>10, <2>1 DEF ReviewNext
    <2>2. CASE UserNext
      BY <1>11, <1>12, <1>13, <2>2 DEF UserNext
    <2> QED BY <1>3, <1>14, <2>1, <2>2, Actors
  <1> QED BY <1>1, <1>15 DEF RetryInv, RejectedHasRetry, Retried, Told, Keyed, Rejected, Found

\* What is over is over soundly: an item completes with every phase behind it, and one that was
\* given up for a rejection goes on as its retry, a crash between the two calls or not
\* (processOne, rejectItem, Service.Reject).
THEOREM EndsAreAlwaysSound ==
  ASSUME SubmitsOwnKeys PROVE Spec => []EndsAreSound
  <1>1. Init => RetryInv
    <2> SUFFICES ASSUME Init PROVE RetryInv
      OBVIOUS
    <2>1. \A j \in Items : /\ items[j].dedupe_key = None /\ items[j].retry_of = None
                           /\ items[j].failure # "rejected"
      BY DEF Init, QueueInit, NoItem
    <2>2. \A i \in Items, n \in 1 .. MaxRejections : <<i, n>> \in DedupeKeys
      BY DaemonAssumption
    <2>3. \A i \in Items, n \in 1 .. MaxRejections : <<i, n>> # None
      BY <2>2, QueueAssumption
    <2>4. \A r \in Reviewers : reviewer[r].pc # "reject"
      BY DEF Init, NoDecision
    <2> QED BY <2>1, <2>3, <2>4 DEF RetryInv, RejectedHasRetry
  <1>2. TypeOK /\ Assigned /\ Exclusive /\ SpineInv /\ RetryInv /\ [Next]_vars => RetryInv'
    BY RetryKept
  <1>3. RetryInv => RejectedHasRetry
    BY DEF RetryInv
  <1> QED BY <1>1, <1>2, <1>3, SpineHolds, CompletesInFull, PTL DEF Spec, EndsAreSound

-----------------------------------------------------------------------------
(* One open item per key *)

\* The only call that brings a row into being is an enqueue of that row.
LEMMA RowsComeByEnqueue ==
  ASSUME QueueTypeOK, [QueueNext]_queueVars, NEW i \in Items,
         items[i].lifecycle = "none", items'[i].lifecycle # "none"
  PROVE  \E new : EnqueueFactoryWorkItem(i, new)
  <1>0. items \in [Items -> WorkItem]
    BY DEF QueueTypeOK
  <1>1. items' # items
    OBVIOUS
  <1>2. ItemNext
    BY <1>1
    DEF QueueNext, queueVars, LeaseNext, AcquireFactoryDaemonLease, RenewFactoryDaemonLease,
        ReleaseFactoryDaemonLease
  <1>3. PICK j \in Items :
          \/ \E f \in Factories, d \in Daemons, now \in Times :
               ClaimNextFactoryWorkItem(f, d, now, j)
          \/ \E p \in Phases, status \in PhaseStatuses \ {"none"} :
               UpdateFactoryWorkItemPhase(j, p, status)
          \/ CompleteFactoryWorkItem(j)
          \/ \E cause \in Failures \ {"none"} : FailFactoryWorkItem(j, cause)
          \/ CancelFactoryWorkItem(j)
          \/ \E new \in NewItem : EnqueueFactoryWorkItem(j, new)
          \/ \E revision \in Revisions, priority \in Priorities :
               UpdatePendingFactoryWorkItem(j, revision, priority)
          \/ \E p \in Phases, hash \in Hashes \cup {None} : RecordFactoryApproval(j, p, hash)
    BY <1>2 DEF ItemNext
  <1>4. ASSUME items[j].lifecycle # "none", \A k \in Items \ {j} : items'[k] = items[k]
        PROVE  FALSE
    BY <1>4
  <1>5. ~\E f \in Factories, d \in Daemons, now \in Times : ClaimNextFactoryWorkItem(f, d, now, j)
    <2> SUFFICES ASSUME NEW f, NEW d, NEW now, ClaimNextFactoryWorkItem(f, d, now, j) PROVE FALSE
      OBVIOUS
    <2>1. items[j].lifecycle # "none" /\ \A k \in Items \ {j} : items'[k] = items[k]
      BY <1>0 DEF ClaimNextFactoryWorkItem, Claimable
    <2> QED BY <1>4, <2>1
  <1>6. ~\E p \in Phases, status \in PhaseStatuses \ {"none"} :
           UpdateFactoryWorkItemPhase(j, p, status)
    <2> SUFFICES ASSUME NEW p, NEW status, UpdateFactoryWorkItemPhase(j, p, status) PROVE FALSE
      OBVIOUS
    <2>1. items[j].lifecycle # "none" /\ \A k \in Items \ {j} : items'[k] = items[k]
      BY <1>0 DEF UpdateFactoryWorkItemPhase
    <2> QED BY <1>4, <2>1
  <1>7. ~CompleteFactoryWorkItem(j) /\ ~\E cause \in Failures \ {"none"} : FailFactoryWorkItem(j, cause)
    <2> SUFFICES ASSUME NEW lifecycle, NEW cause, FinishFactoryWorkItem(j, lifecycle, cause)
                 PROVE  FALSE
      BY Zenon DEF CompleteFactoryWorkItem, FailFactoryWorkItem
    <2>1. items[j].lifecycle # "none" /\ \A k \in Items \ {j} : items'[k] = items[k]
      BY <1>0 DEF FinishFactoryWorkItem
    <2> QED BY <1>4, <2>1
  <1>8. ~CancelFactoryWorkItem(j)
    <2> SUFFICES ASSUME CancelFactoryWorkItem(j) PROVE FALSE
      OBVIOUS
    <2>1. items[j].lifecycle # "none" /\ \A k \in Items \ {j} : items'[k] = items[k]
      BY <1>0 DEF CancelFactoryWorkItem
    <2> QED BY <1>4, <2>1
  <1>9. ~\E revision \in Revisions, priority \in Priorities :
           UpdatePendingFactoryWorkItem(j, revision, priority)
    <2> SUFFICES ASSUME NEW revision, NEW priority,
                        UpdatePendingFactoryWorkItem(j, revision, priority)
                 PROVE  FALSE
      OBVIOUS
    <2>1. items[j].lifecycle # "none" /\ \A k \in Items \ {j} : items'[k] = items[k]
      BY <1>0 DEF UpdatePendingFactoryWorkItem
    <2> QED BY <1>4, <2>1
  <1>10. ~\E p \in Phases, hash \in Hashes \cup {None} : RecordFactoryApproval(j, p, hash)
    BY <1>1 DEF RecordFactoryApproval
  <1>11. PICK new : EnqueueFactoryWorkItem(j, new)
    BY <1>3, <1>5, <1>6, <1>7, <1>8, <1>9, <1>10
  <1>12. i = j
    BY <1>0, <1>11 DEF EnqueueFactoryWorkItem, InsertFactoryWorkItem
  <1> QED BY <1>11, <1>12

\* What the promise of the lifecycle means for a row: it is open after a step only if it was
\* open before it, or is new.
LEMMA OpenOnlyIfNew ==
  ASSUME QueueTypeOK, [Lifecycle!Next]_<<life, worker>>, NEW i \in Items,
         items'[i].lifecycle \in Open
  PROVE  items[i].lifecycle \in Open \cup {"none"}
  BY DEF Lifecycle!Next, Lifecycle!Submit, Lifecycle!Cancel, Lifecycle!Take, Lifecycle!Run,
         Lifecycle!Pause, Lifecycle!Finish, Lifecycle!Leave, life, Open

\* As long as nobody rejects, no two unfinished items of the workflow have the same dedupe key:
\* a submission that finds an open one is refused, and no item that is over opens again
\* (findOpenFactoryWorkItemByDedupe, processOne).
THEOREM KeysAreOpenOnce ==
  ASSUME Rejecters = {} PROVE Spec => []OneOpenItemPerKey
  <1>1. Init => OneOpenItemPerKey
    BY DEF Init, QueueInit, NoItem, OneOpenItemPerKey, Open
  <1>2. /\ TypeOK /\ Assigned /\ OneOpenItemPerKey
        /\ [Next]_vars /\ [Lifecycle!Next]_<<life, worker>>
        => OneOpenItemPerKey'
    <2> SUFFICES ASSUME TypeOK, Assigned, OneOpenItemPerKey, [Next]_vars,
                        [Lifecycle!Next]_<<life, worker>>
                 PROVE  OneOpenItemPerKey'
      OBVIOUS
    <2>1. QueueTypeOK /\ [QueueNext]_queueVars
      BY EveryStepIsACall DEF TypeOK
    <2> DEFINE Same(j) == /\ items[j].lifecycle \in Open
                          /\ items'[j].dedupe_key = items[j].dedupe_key
               New(j) == items[j].lifecycle = "none" /\ items'[j].lifecycle # "none"
    <2>2. ASSUME NEW j \in Items, items'[j].lifecycle \in Open PROVE Same(j) \/ New(j)
      BY <2>1, <2>2, OpenOnlyIfNew, KeysStay DEF Open
    <2>3. ASSUME NEW i \in Items, New(i) PROVE
            /\ \A j \in Items \ {i} : items'[j] = items[j]
            /\ items'[i].dedupe_key # None => OpenWithKey(items'[i].dedupe_key) = {}
      <3>1. PICK new : EnqueueFactoryWorkItem(i, new)
        BY <2>1, <2>3, RowsComeByEnqueue
      <3>2. items'[i].dedupe_key = new.dedupe_key
        BY <2>1, <3>1, NewRows
      <3> QED BY <2>1, <3>1, <3>2, NewRows DEF EnqueueFactoryWorkItem
    <2>4. ASSUME NEW i \in Items, NEW j \in Items, New(i), i # j,
                 items'[j].lifecycle \in Open, items'[i].dedupe_key # None
          PROVE  items'[i].dedupe_key # items'[j].dedupe_key
      BY <2>3, <2>4 DEF OpenWithKey
    <2>5. ASSUME NEW i \in Items, NEW j \in Items,
                 items'[i].lifecycle \in Open, items'[j].lifecycle \in Open,
                 items'[i].dedupe_key = items'[j].dedupe_key, items'[i].dedupe_key # None
          PROVE  i = j
      <3>1. CASE New(i)
        BY <2>4, <2>5, <3>1
      <3>2. CASE New(j)
        BY <2>4, <2>5, <3>2
      <3>3. CASE Same(i) /\ Same(j)
        BY <2>5, <3>3 DEF OneOpenItemPerKey
      <3> QED BY <2>2, <2>5, <3>1, <3>2, <3>3
    <2> QED BY <2>5 DEF OneOpenItemPerKey
  <1>3. Spec => [][Lifecycle!Next]_<<life, worker>>
    BY DaemonImplementsLifecycle, PTL
    DEF ImplementsLifecycle, Lifecycle!Spec, Lifecycle!lifecycleVars, life, worker
  <1> QED BY <1>1, <1>2, <1>3, DaemonTypesHold, PTL DEF Spec
=============================================================================
