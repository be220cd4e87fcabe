---------------------------- MODULE FactoryIntake ----------------------------
(***************************************************************************)
(* Provider intake: the trigger pollers of daemons (internal/factorydaemon *)
(* triggers.go), the GitHub Issue provider they poll, ProviderIntake of    *)
(* the Service, and the durable cursor.  A poll fetches page by page, the  *)
(* batch is then taken in item by item, each in up to three store calls,   *)
(* and only then is the cursor moved; the daemon takes and finishes Work   *)
(* Items meanwhile.  A daemon that lost its lease polls on until its item  *)
(* is done, so two pollers of one trigger may be at work.                  *)
(***************************************************************************)
EXTENDS FactoryQueue, Sequences, SequencesExt

CONSTANTS
  Factory,     \* the factory whose trigger this is
  Issues,      \* issue numbers
  Workflows,   \* workflows the trigger routes to
  Route,       \* RouteWorkflow: by content, a workflow, or None for an error
  Pollers,     \* daemons' trigger pollers
  PerPage,     \* per_page
  MaxPages,    \* max_pages
  MaxTime,     \* bound on the seconds that pass at GitHub
  SameSecond,  \* TRUE when two updates may carry the same updated_at
  Faults       \* TRUE when calls may fail and daemons may die

ASSUME IntakeAssumption ==
  /\ Factory \in Factories
  /\ Issues \subseteq Nat /\ IsFiniteSet(Issues) /\ Issues \X Workflows \subseteq DedupeKeys
  /\ Route \in [Revisions -> Workflows \cup {None}]
  /\ PerPage \in Nat \ {0} /\ MaxPages \in Nat \ {0} /\ MaxTime \in Nat
  /\ SameSecond \in BOOLEAN /\ Faults \in BOOLEAN

VARIABLES
  clock,   \* the second it is at GitHub
  issues,  \* GitHub's issues: when last updated (0: not yet there), and content
  cursor,  \* the cursor in factory_trigger_cursors, 0 when empty
  poller   \* by poller: what poll holds on its stack

intakeVars == <<queueVars, clock, issues, cursor, poller>>

Second == 0 .. MaxTime
Delivery == [issue : Issues, revision : Revisions]
PollerState ==
  [pc : {"idle", "fetch", "batch", "found", "changed"}, since : Second,
   next : Second, page : 1 .. MaxPages, batch : Seq(Delivery), item : Items \cup {None}]

IntakeTypeOK ==
  /\ QueueTypeOK
  /\ clock \in Second /\ cursor \in Second
  /\ issues \in [Issues -> [updated : Second, revision : Revisions \cup {None}]]
  /\ poller \in [Pollers -> PollerState]

Idle == [pc |-> "idle", since |-> 0, next |-> 0, page |-> 1, batch |-> <<>>, item |-> None]

IntakeInit ==
  /\ QueueInit
  /\ clock = 0 /\ cursor = 0
  /\ issues = [x \in Issues |-> [updated |-> 0, revision |-> None]]
  /\ poller = [p \in Pollers |-> Idle]

-----------------------------------------------------------------------------
(* GitHub *)

\* An issue is opened or edited.
EditIssue(x) ==
  /\ clock' \in (IF SameSecond THEN {clock, clock + 1} ELSE {clock + 1}) \ {0}
  /\ clock' <= MaxTime
  /\ \E revision \in Revisions \ {issues[x].revision} :
       issues' = [issues EXCEPT ![x] = [updated |-> clock', revision |-> revision]]
  /\ UNCHANGED <<queueVars, cursor, poller>>

\* sort=updated, direction=asc: what comes first, and the issues of S as they come.
Earlier(x, y) ==
  \/ issues[x].updated < issues[y].updated
  \/ issues[x].updated = issues[y].updated /\ x < y

InOrder(S) ==
  CHOOSE list \in [1 .. Cardinality(S) -> S] :
    \A i, j \in 1 .. Cardinality(S) : i < j => Earlier(list[i], list[j])

\* since: as the list is at this moment.
Listing(since) == InOrder({x \in Issues : issues[x].updated # 0 /\ issues[x].updated >= since})

\* Page k of a listing.
Page(list, k) == SubSeq(list, (k - 1) * PerPage + 1, Min({k * PerPage, Len(list)}))

-----------------------------------------------------------------------------
(* The poller *)

\* One store call moves the cursor, and the poller waits for its next tick.
RecordCursor(p, value) ==
  /\ cursor' = value
  /\ poller' = [poller EXCEPT ![p] = Idle]

\* Slip: the cursor of the poll result is recorded with the error.
NackAtResult(p) == RecordCursor(p, poller[p].next)

\* recordErrorCursor: the cursor that was read when the poll began.
Nack(p) == RecordCursor(p, poller[p].since)

BeginPoll(p) ==
  /\ poller[p].pc = "idle"
  /\ poller' = [poller EXCEPT ![p] =
                  [Idle EXCEPT !.pc = "fetch", !.since = cursor, !.next = cursor]]
  /\ UNCHANGED <<queueVars, clock, issues, cursor>>

\* fetchIssuePage and the loop body of fetchIssues: the list is asked for anew
\* for every page.  What is not newer than the cursor is suppressed.
FetchPage(p) ==
  /\ poller[p].pc = "fetch"
  /\ LET me == poller[p]
         page == Page(Listing(me.since), me.page)
         fresh == InOrder({x \in ToSet(page) : issues[x].updated > me.since})
         more == Len(page) = PerPage /\ me.page < MaxPages
     IN poller' = [poller EXCEPT ![p] =
          [me EXCEPT !.pc = IF more THEN "fetch" ELSE "batch",
                     !.page = IF more THEN @ + 1 ELSE @,
                     !.next = Max({@} \cup {issues[x].updated : x \in ToSet(fresh)}),
                     !.batch = @ \o [k \in DOMAIN fresh |->
                        [issue |-> fresh[k], revision |-> issues[fresh[k]].revision]]]]
  /\ UNCHANGED <<queueVars, clock, issues, cursor>>

FirstOf(p) == Head(poller[p].batch)
KeyOf(delivery) == <<delivery.issue, Route[delivery.revision]>>

\* Ids are used in order; which daemon drew which makes no difference here.
Unused == {i \in Items : items[i].lifecycle = "none"}
NextId == Min(Unused)

\* ProviderIntake returned without an error.
NextItem(p) ==
  poller' = [poller EXCEPT ![p] =
               [@ EXCEPT !.pc = "batch", !.batch = Tail(poller[p].batch), !.item = None]]

\* Routing and the first call of ProviderIntake.  An open item found by its key
\* is left as it is; only an event row is added to it.
Intake(p) ==
  /\ poller[p].pc = "batch" /\ poller[p].batch # <<>>
  /\ LET new == FirstOf(p) IN
       \/ Route[new.revision] = None /\ Nack(p) /\ UNCHANGED queueVars
       \/ /\ Route[new.revision] # None /\ Unused # {}
          /\ \E priority \in Priorities :
               EnqueueFactoryWorkItem(NextId,
                 [factory |-> Factory, dedupe_key |-> KeyOf(new), priority |-> priority,
                  revision |-> new.revision, rejection_count |-> 0, retry_of |-> None])
          /\ NextItem(p) /\ UNCHANGED cursor
       \/ /\ Route[new.revision] # None
          /\ \E i \in OpenWithKey(KeyOf(new)) :
               poller' = [poller EXCEPT ![p] = [@ EXCEPT !.pc = "found", !.item = i]]
          /\ UNCHANGED <<queueVars, cursor>>
  /\ UNCHANGED <<clock, issues>>

\* The item is read again: started work is not touched, nor is an item that
\* says the same (providerItemChanged).
Examine(p) ==
  /\ poller[p].pc = "found"
  /\ LET i == poller[p].item IN
       IF items[i].lifecycle # "pending" \/ items[i].revision = FirstOf(p).revision
       THEN NextItem(p)
       ELSE poller' = [poller EXCEPT ![p].pc = "changed"]
  /\ UNCHANGED <<queueVars, clock, issues, cursor>>

\* UpdatePending.  Its event carries updateEventID, the id under which Enqueue has
\* just stored its dedupe event, and ids are unique: the transaction that would
\* refresh a pending item always fails, and with it the batch.
Refresh(p) ==
  /\ poller[p].pc = "changed"
  /\ IF items[poller[p].item].lifecycle = "pending"
     THEN Nack(p)
     ELSE NextItem(p) /\ UNCHANGED cursor
  /\ UNCHANGED <<queueVars, clock, issues>>

\* recordAckCursor.  The acknowledgement that follows changes nothing here, and
\* the provider ignores it.
Ack(p) ==
  /\ poller[p].pc = "batch" /\ poller[p].batch = <<>>
  /\ RecordCursor(p, poller[p].next)
  /\ UNCHANGED <<queueVars, clock, issues>>

\* The provider or the store returns an error, and recording that may fail too.
PollFails(p) ==
  /\ Faults /\ poller[p].pc # "idle"
  /\ \/ Nack(p)
     \/ poller' = [poller EXCEPT ![p] = Idle] /\ UNCHANGED cursor
  /\ UNCHANGED <<queueVars, clock, issues>>

Poll(p) ==
  \/ BeginPoll(p) \/ FetchPage(p) \/ Intake(p) \/ Examine(p) \/ Refresh(p) \/ Ack(p)

-----------------------------------------------------------------------------
(* What becomes of the Work Items meanwhile *)

Take(i) ==
  /\ items[i].lifecycle = "pending"
  /\ UpdateFactoryWorkItemPhase(i, "plan", "running")
  /\ UNCHANGED <<clock, issues, cursor, poller>>

Finish(i) ==
  /\ items[i].lifecycle = "running"
  /\ CompleteFactoryWorkItem(i)
  /\ UNCHANGED <<clock, issues, cursor, poller>>

Cancel(i) == CancelFactoryWorkItem(i) /\ UNCHANGED <<clock, issues, cursor, poller>>

IntakeNext ==
  \/ \E x \in Issues : EditIssue(x)
  \/ \E p \in Pollers : Poll(p) \/ PollFails(p)
  \/ \E i \in Items : Take(i) \/ Finish(i) \/ Cancel(i)

IntakeSpec == IntakeInit /\ [][IntakeNext]_intakeVars

\* Pollers tick for ever.
PollersRun == \A p \in Pollers : WF_intakeVars(Poll(p))

\* The daemon's loop takes what is pending.
ItemsAreTaken == \A i \in Items : WF_intakeVars(Take(i))

PollingSpec == IntakeSpec /\ PollersRun
ServingSpec == PollingSpec /\ ItemsAreTaken

-----------------------------------------------------------------------------
\* Some Work Item carries what issue x says now, or carried on from an earlier
\* text of it when it was started or cancelled.
TakenIn(x) ==
  issues[x].updated # 0 /\ \E i \in Items :
    /\ items[i].dedupe_key = KeyOf([issue |-> x, revision |-> issues[x].revision])
    /\ items[i].lifecycle # "pending" \/ items[i].revision = issues[x].revision

\* The provider "suppresses issues at or before the stored cursor to avoid
\* duplicate delivery": what is suppressed was taken in, whichever of two pollers
\* moved the cursor, whatever failed between two items of a batch.
SuppressesOnlyDuplicates ==
  \A x \in Issues :
    issues[x].updated \in 1 .. cursor => TakenIn(x)

\* The cursor is that of issues taken in, in states that stay well-formed (poll,
\* RecordFactoryTriggerCursor).
CursorIsEarned == IntakeTypeOK /\ SuppressesOnlyDuplicates

\* Every issue becomes a Work Item in the end, though a changed pending item
\* holds up the batch it is in until the daemon takes it (poll, ProviderIntake).
IssuesAreTakenIn ==
  \A x \in Issues :
    issues[x].updated # 0 ~> \E i \in Items : items[i].dedupe_key \in {x} \X Workflows

\* The daemon "enqueues or updates pending Work Items": a pending item whose
\* issue was edited is brought up to date, if it stays pending.
PendingItemsAreUpdated ==
  \A x \in Issues : issues[x].updated # 0 ~> TakenIn(x)
=============================================================================
