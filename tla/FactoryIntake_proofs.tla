------------------------- MODULE FactoryIntake_proofs -------------------------
(***************************************************************************)
(* The intake and the approval provider, proved, for any number of issues, *)
(* pull requests, pollers and Work Items, whatever fails: the cursor never *)
(* passes an issue that was not taken in, while a poll is one page and no  *)
(* two updates fall into one second; and what is approved was the latest   *)
(* word on a pull request of the item at some moment of the poll.          *)
(***************************************************************************)
EXTENDS PullApprovals, FiniteSetTheorems, SequenceTheorems, WellFoundedInduction, TLAPS

-----------------------------------------------------------------------------
(* The calls of the store that the intake meets *)

\* The tables start well formed.
LEMMA InitTypes == QueueInit => QueueTypeOK
  <1>1. NoLease \in Lease
    BY QueueAssumption DEF NoLease, Lease, LeaseStatuses
  <1>2. NoItem \in WorkItem
    BY QueueAssumption DEF NoItem, WorkItem, AttemptStatuses, Failures
  <1> QED
    BY <1>1, <1>2 DEF QueueInit, QueueTypeOK, PhaseStatuses

\* Writing one row of the right columns keeps the table of Work Items typed.
LEMMA RowTypes ==
  ASSUME NEW i \in Items, NEW row \in WorkItem, QueueTypeOK,
         items' = [items EXCEPT ![i] = row],
         leases' = leases, phases' \in [Items -> [Phases -> PhaseStatuses]],
         approvals' = approvals
  PROVE  QueueTypeOK'
  BY DEF QueueTypeOK

\* What is done to item i beside the pollers: it is put in, taken, made to wait, goes
\* on, ends or is cancelled.
CallOn(i) ==
  \/ \E new \in NewItem : EnqueueFactoryWorkItem(i, new)
  \/ \E p \in Phases : \/ UpdateFactoryWorkItemPhase(i, p, "running")
                       \/ UpdateFactoryWorkItemPhase(i, p, "waiting_approval")
  \/ CompleteFactoryWorkItem(i) \/ FailFactoryWorkItem(i, "phase")
  \/ CancelFactoryWorkItem(i)

\* None of it spoils the tables.
LEMMA CallsKeepTypes ==
  ASSUME QueueTypeOK, NEW i \in Items, CallOn(i)
  PROVE  QueueTypeOK'
  <1>1. items[i] \in WorkItem /\ phases \in [Items -> [Phases -> PhaseStatuses]]
    BY DEF QueueTypeOK
  <1>2. ASSUME NEW new \in NewItem, EnqueueFactoryWorkItem(i, new) PROVE QueueTypeOK'
    <2>1. [factory |-> new.factory, lifecycle |-> "pending", current_phase |-> "plan",
           dedupe_key |-> new.dedupe_key, priority |-> new.priority,
           revision |-> new.revision, claimed_by |-> None, attempt |-> "pending",
           failure |-> "none", rejection_count |-> new.rejection_count,
           retry_of |-> new.retry_of] \in WorkItem
      BY QueueAssumption DEF NewItem, WorkItem, Open, AttemptStatuses, Failures
    <2> QED
      BY <1>1, <1>2, <2>1, RowTypes DEF EnqueueFactoryWorkItem, InsertFactoryWorkItem
  <1>3. ASSUME NEW p \in Phases, NEW status \in {"running", "waiting_approval"},
               UpdateFactoryWorkItemPhase(i, p, status)
        PROVE  QueueTypeOK'
    <2>1. PICK claimed \in {items[i].claimed_by, None} :
            items' = [items EXCEPT ![i] =
                        [items[i] EXCEPT !.lifecycle = status, !.current_phase = p,
                                         !.claimed_by = claimed]]
      <3>1. [items[i] EXCEPT !.lifecycle = "running", !.current_phase = p] =
              [items[i] EXCEPT !.lifecycle = "running", !.current_phase = p,
                               !.claimed_by = items[i].claimed_by]
        BY <1>1 DEF WorkItem
      <3> QED BY <1>3, <3>1 DEF UpdateFactoryWorkItemPhase
    <2>2. [items[i] EXCEPT !.lifecycle = status, !.current_phase = p, !.claimed_by = claimed]
            \in WorkItem
      BY <1>1 DEF WorkItem, Open
    <2>3. phases' \in [Items -> [Phases -> PhaseStatuses]]
      BY <1>1, <1>3 DEF UpdateFactoryWorkItemPhase, PhaseStatuses
    <2> QED BY <1>3, <2>1, <2>2, <2>3, RowTypes DEF UpdateFactoryWorkItemPhase
  <1>4. ASSUME NEW end \in {"completed", "failed"}, NEW cause \in {"none", "phase"},
               FinishFactoryWorkItem(i, end, cause)
        PROVE  QueueTypeOK'
    <2>1. [items[i] EXCEPT !.lifecycle = end, !.current_phase = None,
                           !.attempt = end, !.failure = cause] \in WorkItem
      <3>1. end \in Closed /\ end \in AttemptStatuses /\ cause \in Failures
        BY DEF Closed, AttemptStatuses, Failures
      <3> QED BY <1>1, <3>1 DEF WorkItem
    <2> QED
      BY <1>1, <1>4, <2>1, RowTypes DEF FinishFactoryWorkItem
  <1>5. CASE CancelFactoryWorkItem(i)
    <2> DEFINE attempt ==
                 IF items[i].attempt = "pending" THEN "cancelled" ELSE items[i].attempt
               row == [items[i] EXCEPT !.lifecycle = "cancelled", !.attempt = attempt]
    <2>1. attempt \in AttemptStatuses
      BY <1>1 DEF WorkItem, AttemptStatuses
    <2>2. items' = [items EXCEPT ![i] = row]
      BY <1>5 DEF CancelFactoryWorkItem
    <2> HIDE DEF attempt
    <2>3. row \in WorkItem
      BY <1>1, <2>1 DEF WorkItem, Closed
    <2> HIDE DEF row
    <2> QED BY <1>1, <1>5, <2>2, <2>3, RowTypes DEF CancelFactoryWorkItem
  <1> QED BY <1>2, <1>3, <1>4, <1>5 DEF CallOn, CompleteFactoryWorkItem, FailFactoryWorkItem

-----------------------------------------------------------------------------
(* Lists of issues *)

\* Numbers that are there have a least one.
LEMMA MinIs ==
  ASSUME NEW T, T \subseteq Nat, T # {}
  PROVE  Min(T) \in T /\ \A y \in T : Min(T) <= y
  <1>1. \E x \in T : \A y \in T : ~ (<<y, x>> \in OpToRel(<, Nat))
    BY WFMin, NatLessThanWellFounded, Zenon
  <1>2. PICK x \in T : \A y \in T : ~ (<<y, x>> \in OpToRel(<, Nat))
    BY <1>1
  <1>3. \A y \in T : ~ (y < x)
    BY <1>2, Zenon DEF OpToRel
  <1>4. \A y \in T : x <= y
    BY <1>3
  <1>5. \E z \in T : \A y \in T : z <= y
    BY <1>4
  <1> QED BY <1>5, Zenon DEF Min

\* Numbers up to n have a greatest one.
LEMMA MaxIs ==
  ASSUME NEW n \in Nat, NEW T, T \subseteq 0 .. n, T # {}
  PROVE  Max(T) \in T /\ \A y \in T : Max(T) >= y
  <1> DEFINE Gaps == {n - y : y \in T}
  <1>1. Gaps \subseteq Nat /\ Gaps # {}
    <2>1. \A y \in T : n - y \in Nat
      OBVIOUS
    <2> QED BY <2>1
  <1> HIDE DEF Gaps
  <1>2. PICK gap \in Gaps : \A y \in Gaps : gap <= y
    BY <1>1, MinIs
  <1>3. PICK x \in T : gap = n - x
    BY DEF Gaps
  <1>4. ASSUME NEW y \in T PROVE x >= y
    <2>1. n - y \in Gaps
      BY DEF Gaps
    <2> QED BY <2>1, <1>2, <1>3
  <1>5. \E z \in T : \A y \in T : z >= y
    BY <1>4
  <1> QED BY <1>5, Zenon DEF Max

\* Every issue has a time.
Timed == \A x \in Issues : issues[x].updated \in Nat

\* Issues come one after the other.
LEMMA IssuesAreOrdered ==
  ASSUME Timed
  PROVE  /\ \A x \in Issues : ~Earlier(x, x)
         /\ \A x, y \in Issues : x = y \/ Earlier(x, y) \/ Earlier(y, x)
         /\ \A x, y, z \in Issues : Earlier(x, y) /\ Earlier(y, z) => Earlier(x, z)
  <1> \A x \in Issues : x \in Nat /\ issues[x].updated \in Nat
    BY IntakeAssumption DEF IntakeAssumption, Timed
  <1> QED BY DEF Earlier

\* Of issues that are there, one is the last.
LEMMA LastOne ==
  ASSUME Timed, NEW S, S \subseteq Issues, S # {}
  PROVE  \E x \in S : \A y \in S \ {x} : Earlier(y, x)
  <1> DEFINE After(x) == {y \in S : Earlier(x, y)}
             Counts == {Cardinality(After(x)) : x \in S}
  <1>f. \A x \in S : IsFiniteSet(After(x)) /\ Cardinality(After(x)) \in Nat
    <2> TAKE x \in S
    <2>1. IsFiniteSet(Issues)
      BY IntakeAssumption DEF IntakeAssumption
    <2>2. IsFiniteSet(After(x))
      BY <2>1, FS_Subset
    <2> QED BY <2>2, FS_CardinalityType
  <1>1. Counts \subseteq Nat /\ Counts # {}
    BY <1>f
  <1>2. PICK least \in Counts : \A c \in Counts : least <= c
    <2> HIDE DEF Counts
    <2> QED BY <1>1, MinIs
  <1>3. PICK x \in S : least = Cardinality(After(x))
    OBVIOUS
  <1>4. ASSUME NEW y \in S \ {x}, ~Earlier(y, x) PROVE FALSE
    <2>1. Earlier(x, y)
      BY <1>4, IssuesAreOrdered
    <2>2. After(y) \subseteq After(x) /\ y \in After(x) /\ y \notin After(y)
      BY <2>1, IssuesAreOrdered
    <2>3. Cardinality(After(y)) \in Counts
      OBVIOUS
    <2> HIDE DEF After, Counts
    <2>4. /\ Cardinality(After(y)) <= Cardinality(After(x))
          /\ Cardinality(After(y)) # Cardinality(After(x))
      BY <1>f, <2>2, FS_Subset, Zenon
    <2>5. Cardinality(After(x)) <= Cardinality(After(y))
      BY <1>2, <1>3, <2>3
    <2> QED BY <2>4, <2>5, <1>f
  <1> QED BY <1>4

\* A list of the issues of S as they come.
Lists(list, S) ==
  /\ list \in [1 .. Cardinality(S) -> S]
  /\ \A i, j \in 1 .. Cardinality(S) : i < j => Earlier(list[i], list[j])

\* Any issues can be listed in the order in which they come.
LEMMA CanBeListed ==
  ASSUME Timed, NEW S, S \subseteq Issues
  PROVE  \E list : Lists(list, S)
  <1> DEFINE Without == {T \in SUBSET Issues : ~ \E list : Lists(list, T)}
             Counts == {Cardinality(T) : T \in Without}
  <1>f. \A T \in SUBSET Issues : IsFiniteSet(T) /\ Cardinality(T) \in Nat
    <2> TAKE T \in SUBSET Issues
    <2>1. IsFiniteSet(Issues)
      BY IntakeAssumption DEF IntakeAssumption
    <2>2. IsFiniteSet(T)
      BY <2>1, FS_Subset
    <2> QED BY <2>2, FS_CardinalityType
  <1>1. SUFFICES ASSUME Without # {} PROVE FALSE
    OBVIOUS
  <1>2. Counts \subseteq Nat /\ Counts # {}
    BY <1>f, <1>1
  <1>3. PICK least \in Counts : \A c \in Counts : least <= c
    <2> HIDE DEF Counts
    <2> QED BY <1>2, MinIs
  <1>4. PICK T \in Without : least = Cardinality(T)
    OBVIOUS
  <1>5. T \subseteq Issues /\ Cardinality(T) \in Nat /\ IsFiniteSet(T)
    BY <1>f
  <1>6. CASE T = {}
    <2>1. Cardinality(T) = 0
      BY <1>6, FS_EmptySet
    <2>2. Lists([i \in 1 .. 0 |-> i], T)
      BY <2>1 DEF Lists
    <2> QED BY <2>2
  <1>7. CASE T # {}
    <2>1. PICK x \in T : \A y \in T \ {x} : Earlier(y, x)
      BY <1>5, <1>7, LastOne
    <2> DEFINE Rest == T \ {x}
               n == Cardinality(T)
    <2>2. Cardinality(Rest) = n - 1 /\ Rest \subseteq Issues
      BY <1>5, FS_RemoveElement
    <2>3. Rest \notin Without
      <3>1. ASSUME Rest \in Without PROVE FALSE
        <4>1. Cardinality(Rest) \in Counts
          BY <3>1
        <4>2. n <= Cardinality(Rest)
          BY <4>1, <1>3, <1>4
        <4> QED BY <4>2, <2>2, <1>5
      <3> QED BY <3>1
    <2>4. PICK list : Lists(list, Rest)
      BY <2>2, <2>3
    <2> DEFINE longer == [i \in 1 .. n |-> IF i = n THEN x ELSE list[i]]
    <2> HIDE DEF Without, Counts
    <2>5. /\ list \in [1 .. n - 1 -> Rest]
          /\ \A i, j \in 1 .. n - 1 : i < j => Earlier(list[i], list[j])
      BY <2>2, <2>4 DEF Lists
    <2>6. \A i \in 1 .. n : i # n => i \in 1 .. n - 1
      BY <1>5
    <2>7. longer \in [1 .. n -> T]
      BY <2>5, <2>6
    <2>8. \A i, j \in 1 .. n : i < j => Earlier(longer[i], longer[j])
      <3> SUFFICES ASSUME NEW i \in 1 .. n, NEW j \in 1 .. n, i < j
                   PROVE  Earlier(longer[i], longer[j])
        OBVIOUS
      <3>1. i # n /\ i \in 1 .. n - 1
        BY <1>5
      <3>2. longer[i] = list[i] /\ list[i] \in Rest
        BY <3>1, <2>5
      <3>3. CASE j = n
        <4>1. longer[j] = x
          BY <3>3
        <4> QED BY <4>1, <3>2, <2>1
      <3>4. CASE j # n
        <4>1. j \in 1 .. n - 1 /\ longer[j] = list[j]
          BY <3>4, <2>6
        <4> QED BY <4>1, <3>1, <3>2, <2>5
      <3> QED BY <3>3, <3>4
    <2>9. Lists(longer, T)
      BY <2>7, <2>8 DEF Lists
    <2> QED BY <2>9 DEF Without
  <1> QED BY <1>6, <1>7

\* So InOrder lists issues as they come, each of them.
LEMMA InOrderIs ==
  ASSUME Timed, NEW S, S \subseteq Issues
  PROVE  /\ Cardinality(S) \in Nat
         /\ Lists(InOrder(S), S)
         /\ \A x \in S : \E i \in 1 .. Cardinality(S) : InOrder(S)[i] = x
  <1> DEFINE n == Cardinality(S)
             list == InOrder(S)
  <1>f. IsFiniteSet(S) /\ n \in Nat
    <2>1. IsFiniteSet(Issues)
      BY IntakeAssumption DEF IntakeAssumption
    <2>2. IsFiniteSet(S)
      BY <2>1, FS_Subset
    <2> QED BY <2>2, FS_CardinalityType
  <1>1. \E l \in [1 .. n -> S] : \A i, j \in 1 .. n : i < j => Earlier(l[i], l[j])
    BY CanBeListed DEF Lists
  <1>2. /\ list \in [1 .. n -> S]
        /\ \A i, j \in 1 .. n : i < j => Earlier(list[i], list[j])
    BY <1>1, Zenon DEF InOrder
  <1> HIDE DEF list
  <1>3. \A i, j \in 1 .. n : list[i] = list[j] => i = j
    <2> SUFFICES ASSUME NEW i \in 1 .. n, NEW j \in 1 .. n, list[i] = list[j], i # j
                 PROVE  FALSE
      OBVIOUS
    <2>1. list[i] \in Issues /\ ~Earlier(list[i], list[i])
      BY <1>2, IssuesAreOrdered
    <2>2. i < j \/ j < i
      BY <1>f
    <2> QED BY <2>1, <2>2, <1>2
  <1>4. list \in Injection(1 .. n, S)
    BY <1>2, <1>3 DEF Injection, IsInjective
  <1>5. Cardinality(1 .. n) = n
    BY <1>f, FS_Interval
  <1>6. list \in Surjection(1 .. n, S)
    BY <1>4, <1>5, <1>f, FS_Injection
  <1> QED BY <1>2, <1>6, <1>f DEF Surjection, Lists, list

-----------------------------------------------------------------------------
(* The page of a poll *)

\* The first page has issues of the list, and with an issue whatever comes earlier.
LEMMA FirstPage ==
  ASSUME Timed, NEW S, S \subseteq Issues
  PROVE  /\ ToSet(Page(InOrder(S), 1)) \subseteq S
         /\ \A y \in ToSet(Page(InOrder(S), 1)), x \in S :
              Earlier(x, y) => x \in ToSet(Page(InOrder(S), 1))
  <1> DEFINE n == Cardinality(S)
             list == InOrder(S)
             m == Min({1 * PerPage, Len(list)})
             page == Page(list, 1)
  <1>1. /\ n \in Nat /\ list \in [1 .. n -> S]
        /\ \A i, j \in 1 .. n : i < j => Earlier(list[i], list[j])
        /\ \A x \in S : \E i \in 1 .. n : list[i] = x
    BY InOrderIs DEF Lists
  <1> HIDE DEF list
  <1>2. list \in Seq(S) /\ Len(list) = n
    BY <1>1
  <1>3. PerPage \in Nat /\ 1 * PerPage = PerPage /\ (1 - 1) * PerPage + 1 = 1
    BY IntakeAssumption DEF IntakeAssumption
  <1>4. m \in Nat /\ m <= n
    <2>1. {1 * PerPage, Len(list)} \subseteq Nat
      BY <1>1, <1>2, <1>3
    <2>2. m \in {1 * PerPage, Len(list)} /\ \A y \in {1 * PerPage, Len(list)} : m <= y
      BY <2>1, MinIs
    <2> QED BY <2>1, <2>2, <1>2
  <1>5. page = SubSeq(list, 1, m)
    BY <1>3 DEF Page
  <1> HIDE DEF m, page
  <1>6. \A i \in 1 .. m : list[i] \in S
    BY <1>1, <1>4
  <1>7. /\ page \in Seq(S) /\ Len(page) = m
        /\ \A i \in 1 .. m : page[i] = list[i]
    <2>1. /\ page \in Seq(S)
          /\ Len(page) = IF 1 <= m THEN m - 1 + 1 ELSE 0
          /\ \A i \in 1 .. m - 1 + 1 : page[i] = list[1 + i - 1]
      BY <1>4, <1>5, <1>6, SubSeqProperties
    <2> QED BY <2>1, <1>4
  <1>8. ToSet(page) = {list[i] : i \in 1 .. m}
    BY <1>7 DEF ToSet
  <1>9. ASSUME NEW y \in ToSet(page), NEW x \in S, Earlier(x, y)
        PROVE  x \in ToSet(page)
    <2>1. PICK k \in 1 .. m : y = list[k]
      BY <1>8
    <2>2. PICK j \in 1 .. n : x = list[j]
      BY <1>1
    <2>3. k \in 1 .. n /\ y \in Issues /\ x \in Issues
      BY <2>1, <1>1, <1>4, <1>6
    <2>4. ~Earlier(y, x)
      BY <2>3, <1>9, IssuesAreOrdered
    <2>5. ASSUME k < j PROVE FALSE
      <3>1. Earlier(list[k], list[j])
        BY <2>3, <2>5, <1>1
      <3> QED BY <3>1, <2>1, <2>2, <2>4
    <2> QED BY <2>1, <2>2, <2>5, <1>4, <1>8
  <1>10. ToSet(page) \subseteq S
    BY <1>6, <1>8
  <1> QED BY <1>9, <1>10 DEF page, list

-----------------------------------------------------------------------------
(* The inductive invariant *)

\* In items its and issues iss, issue x has a Work Item that carries what it says, or
\* did when it was started or cancelled.
TakenUp(x, its, iss) ==
  \E i \in Items :
    /\ its[i].lifecycle # "none"
    /\ its[i].dedupe_key = KeyOf([issue |-> x, revision |-> iss[x].revision])
    /\ its[i].lifecycle # "pending" \/ its[i].revision = iss[x].revision

\* Cursor s has passed only issues that were taken in.
Earned(s, its, iss) == \A x \in Issues : iss[x].updated \in 1 .. s => TakenUp(x, its, iss)

\* The batch has what issue x says.
InHand(x, batch, iss) ==
  \E k \in 1 .. Len(batch) : batch[k] = [issue |-> x, revision |-> iss[x].revision]

\* What a poll has on its stack, at second now: it began at an earned cursor, and everything up to
\* the cursor it will record is taken in or still in its batch.
Polls(me, now, its, iss) ==
  /\ me.since <= now /\ me.next <= now /\ Earned(me.since, its, iss)
  /\ me.pc = "fetch" => me.next = me.since /\ me.page = 1 /\ me.batch = <<>>
  /\ me.pc \in {"batch", "found", "changed"} =>
       \A x \in Issues : iss[x].updated \in 1 .. me.next =>
         TakenUp(x, its, iss) \/ InHand(x, me.batch, iss)
  /\ me.pc \in {"found", "changed"} =>
       /\ me.batch # <<>> /\ me.item \in Items
       /\ its[me.item].lifecycle # "none"
       /\ its[me.item].dedupe_key = KeyOf(Head(me.batch))

\* Updates are of the past, and each has its own second.
Dated(now, iss) ==
  /\ \A x \in Issues : iss[x].updated <= now
  /\ \A x \in Issues : iss[x].updated # 0 => iss[x].revision \in Revisions
  /\ \A x, y \in Issues : iss[x].updated = iss[y].updated /\ iss[x].updated # 0 => x = y

EarnInv ==
  /\ IntakeTypeOK
  /\ Dated(clock, issues)
  /\ cursor <= clock /\ Earned(cursor, items, issues)
  /\ \A p \in Pollers : Polls(poller[p], clock, items, issues)

\* What becomes of the items: none is lost, started work stays started, and what waits
\* keeps its text.
Grows(its, new) ==
  \A i \in Items : its[i].lifecycle # "none" =>
    /\ new[i].lifecycle # "none" /\ new[i].dedupe_key = its[i].dedupe_key
    /\ its[i].lifecycle # "pending" => new[i].lifecycle # "pending"
    /\ new[i].lifecycle = "pending" => new[i].revision = its[i].revision

\* Every call lets the items grow, and approves nothing.
LEMMA CallsGrow ==
  ASSUME QueueTypeOK, NEW i \in Items, CallOn(i)
  PROVE  Grows(items, items') /\ approvals' = approvals
  <1>1. items \in [Items -> WorkItem] /\ items[i] \in WorkItem
    BY DEF QueueTypeOK
  <1>2. ASSUME NEW new \in NewItem, EnqueueFactoryWorkItem(i, new)
        PROVE  Grows(items, items') /\ approvals' = approvals
    <2>1. items[i].lifecycle = "none" /\ \A j \in Items : j # i => items'[j] = items[j]
      BY <1>1, <1>2 DEF EnqueueFactoryWorkItem, InsertFactoryWorkItem
    <2>2. approvals' = approvals
      BY <1>2 DEF EnqueueFactoryWorkItem, InsertFactoryWorkItem
    <2> QED BY <2>1, <2>2 DEF Grows
  <1>3. ASSUME items[i].lifecycle # "none", \A j \in Items : j # i => items'[j] = items[j],
               items'[i].lifecycle \notin {"none", "pending"},
               items'[i].dedupe_key = items[i].dedupe_key
        PROVE  Grows(items, items')
    BY <1>3 DEF Grows
  <1>4. ASSUME NEW p \in Phases, NEW status \in {"running", "waiting_approval"},
               UpdateFactoryWorkItemPhase(i, p, status)
        PROVE  Grows(items, items') /\ approvals' = approvals
    <2>1. /\ items[i].lifecycle # "none" /\ \A j \in Items : j # i => items'[j] = items[j]
          /\ items'[i].lifecycle = status
          /\ items'[i].dedupe_key = items[i].dedupe_key
      <3>1. \/ items' = [items EXCEPT ![i] = [@ EXCEPT !.lifecycle = status, !.current_phase = p]]
            \/ items' = [items EXCEPT ![i] = [@ EXCEPT !.lifecycle = status, !.current_phase = p,
                                                       !.claimed_by = None]]
        BY <1>4 DEF UpdateFactoryWorkItemPhase
      <3>2. items[i].lifecycle # "none"
        BY <1>4 DEF UpdateFactoryWorkItemPhase
      <3>3. \A j \in Items : j # i => items'[j] = items[j]
        BY <1>1, <3>1
      <3>4. \/ items'[i] = [items[i] EXCEPT !.lifecycle = status, !.current_phase = p]
            \/ items'[i] = [items[i] EXCEPT !.lifecycle = status, !.current_phase = p,
                                            !.claimed_by = None]
        BY <1>1, <3>1
      <3>5. items'[i].lifecycle = status
        BY <1>1, <3>4 DEF WorkItem
      <3>6. items'[i].dedupe_key = items[i].dedupe_key
        BY <1>1, <3>4 DEF WorkItem
      <3> QED BY <3>2, <3>3, <3>5, <3>6
    <2>2. approvals' = approvals
      BY <1>4 DEF UpdateFactoryWorkItemPhase
    <2> QED BY <1>3, <2>1, <2>2
  <1>5. ASSUME NEW end \in {"completed", "failed"}, NEW cause \in {"none", "phase"},
               FinishFactoryWorkItem(i, end, cause)
        PROVE  Grows(items, items') /\ approvals' = approvals
    <2>1. /\ items[i].lifecycle # "none" /\ \A j \in Items : j # i => items'[j] = items[j]
          /\ items'[i].lifecycle = end
          /\ items'[i].dedupe_key = items[i].dedupe_key
      BY <1>1, <1>5 DEF FinishFactoryWorkItem, WorkItem
    <2>2. approvals' = approvals
      BY <1>5 DEF FinishFactoryWorkItem
    <2> QED BY <1>3, <2>1, <2>2
  <1>6. ASSUME CancelFactoryWorkItem(i)
        PROVE  Grows(items, items') /\ approvals' = approvals
    <2>1. /\ items[i].lifecycle # "none" /\ \A j \in Items : j # i => items'[j] = items[j]
          /\ items'[i].lifecycle = "cancelled"
          /\ items'[i].dedupe_key = items[i].dedupe_key
      BY <1>1, <1>6 DEF CancelFactoryWorkItem, WorkItem
    <2>2. approvals' = approvals
      BY <1>6 DEF CancelFactoryWorkItem
    <2> QED BY <1>3, <2>1, <2>2
  <1> QED BY <1>2, <1>4, <1>5, <1>6 DEF CallOn, CompleteFactoryWorkItem, FailFactoryWorkItem

\* What was taken in stays so.
LEMMA TakenUpStays ==
  ASSUME NEW its, NEW new, Grows(its, new), NEW iss, NEW x, TakenUp(x, its, iss)
  PROVE  TakenUp(x, new, iss)
  <1>1. PICK i \in Items :
          /\ its[i].lifecycle # "none"
          /\ its[i].dedupe_key = KeyOf([issue |-> x, revision |-> iss[x].revision])
          /\ its[i].lifecycle # "pending" \/ its[i].revision = iss[x].revision
    BY DEF TakenUp
  <1>2. /\ new[i].lifecycle # "none" /\ new[i].dedupe_key = its[i].dedupe_key
        /\ its[i].lifecycle # "pending" => new[i].lifecycle # "pending"
        /\ new[i].lifecycle = "pending" => new[i].revision = its[i].revision
    BY <1>1 DEF Grows
  <1> QED BY <1>1, <1>2 DEF TakenUp

\* So an earned cursor stays earned.
LEMMA EarnedStays ==
  ASSUME NEW its, NEW new, Grows(its, new), NEW iss, NEW s, Earned(s, its, iss)
  PROVE  Earned(s, new, iss)
  BY TakenUpStays DEF Earned

\* And whoever is polling keeps what it knows.
LEMMA PollsStay ==
  ASSUME NEW its, NEW new, Grows(its, new), NEW iss, NEW now, NEW me, Polls(me, now, its, iss)
  PROVE  Polls(me, now, new, iss)
  <1>1. Earned(me.since, new, iss)
    BY EarnedStays DEF Polls
  <1>2. me.pc \in {"batch", "found", "changed"} =>
          \A x \in Issues : iss[x].updated \in 1 .. me.next =>
            TakenUp(x, new, iss) \/ InHand(x, me.batch, iss)
    BY TakenUpStays DEF Polls
  <1>3. me.pc \in {"found", "changed"} =>
          /\ me.batch # <<>> /\ me.item \in Items
          /\ new[me.item].lifecycle # "none"
          /\ new[me.item].dedupe_key = KeyOf(Head(me.batch))
    BY DEF Polls, Grows
  <1> QED BY <1>1, <1>2, <1>3 DEF Polls

-----------------------------------------------------------------------------
(* What the steps of a poller have in common *)

\* Items that nobody touched are as they were.
LEMMA NothingChanges ==
  ASSUME EarnInv, UNCHANGED queueVars
  PROVE  QueueTypeOK' /\ Grows(items, items')
  <1>1. QueueTypeOK
    BY DEF EarnInv, IntakeTypeOK
  <1>2. QueueTypeOK'
    BY <1>1 DEF queueVars, QueueTypeOK
  <1> QED BY <1>2 DEF queueVars, Grows

\* One poller moves, items grow, and the cursor is one that was earned.
LEMMA OnePolls ==
  ASSUME EarnInv, NEW p \in Pollers, NEW me \in PollerState,
         poller' = [poller EXCEPT ![p] = me],
         Polls(me, clock, items', issues),
         QueueTypeOK', Grows(items, items'), UNCHANGED <<clock, issues>>,
         cursor' \in Second, cursor' <= clock, Earned(cursor', items', issues)
  PROVE  EarnInv'
  <1>1. IntakeTypeOK'
    BY DEF EarnInv, IntakeTypeOK
  <1>2. poller \in [Pollers -> PollerState]
    BY DEF EarnInv, IntakeTypeOK
  <1>3. ASSUME NEW q \in Pollers
        PROVE  Polls(poller'[q], clock, items', issues)
    <2>1. CASE q = p
      BY <2>1, <1>2
    <2>2. CASE q # p
      <3>1. poller'[q] = poller[q]
        BY <2>2, <1>2
      <3>2. Polls(poller[q], clock, items, issues)
        BY DEF EarnInv
      <3>3. Polls(poller[q], clock, items', issues)
        BY <3>2, PollsStay
      <3> QED BY <3>1, <3>3
    <2> QED BY <2>1, <2>2
  <1>4. Dated(clock, issues)
    BY DEF EarnInv
  <1> QED BY <1>1, <1>3, <1>4 DEF EarnInv

\* A poller that waits for its tick knows nothing.
LEMMA IdlePolls ==
  ASSUME EarnInv, NEW its
  PROVE  Idle \in PollerState /\ Polls(Idle, clock, its, issues)
  <1>1. MaxPages \in Nat \ {0} /\ MaxTime \in Nat
    BY IntakeAssumption DEF IntakeAssumption
  <1>2. clock \in Second
    BY DEF EarnInv, IntakeTypeOK
  <1>3. Idle \in PollerState
    BY <1>1 DEF Idle, PollerState, Second
  <1>4. Earned(0, its, issues)
    BY DEF Earned
  <1>5. 0 <= clock
    BY <1>1, <1>2 DEF Second
  <1> QED BY <1>3, <1>4, <1>5 DEF Idle, Polls

\* An earned cursor is recorded and the poller waits for its tick.
LEMMA RecordKeeps ==
  ASSUME EarnInv, NEW p \in Pollers, NEW value \in Second, value <= clock,
         Earned(value, items, issues), RecordCursor(p, value),
         UNCHANGED <<queueVars, clock, issues>>
  PROVE  EarnInv'
  <1>1. QueueTypeOK' /\ Grows(items, items')
    BY NothingChanges
  <1>2. Idle \in PollerState /\ Polls(Idle, clock, items', issues)
    BY IdlePolls
  <1>3. Earned(cursor', items', issues) /\ cursor' = value
    BY <1>1, EarnedStays DEF RecordCursor
  <1>4. poller' = [poller EXCEPT ![p] = Idle]
    BY DEF RecordCursor
  <1> QED BY <1>1, <1>2, <1>3, <1>4, OnePolls

\* Recording where the poll began does no harm.
LEMMA NackKeeps ==
  ASSUME EarnInv, NEW p \in Pollers, Nack(p), UNCHANGED <<queueVars, clock, issues>>
  PROVE  EarnInv'
  <1>1. poller[p] \in PollerState /\ Polls(poller[p], clock, items, issues)
    BY DEF EarnInv, IntakeTypeOK
  <1>2. /\ poller[p].since \in Second /\ poller[p].since <= clock
        /\ Earned(poller[p].since, items, issues)
    BY <1>1 DEF Polls, PollerState
  <1> QED BY <1>2, RecordKeeps DEF Nack

\* A poller gives up without a word.
LEMMA GivesUpKeeps ==
  ASSUME EarnInv, NEW p \in Pollers, poller' = [poller EXCEPT ![p] = Idle],
         UNCHANGED <<queueVars, clock, issues, cursor>>
  PROVE  EarnInv'
  <1>1. QueueTypeOK' /\ Grows(items, items')
    BY NothingChanges
  <1>2. Idle \in PollerState /\ Polls(Idle, clock, items', issues)
    BY IdlePolls
  <1>3. cursor \in Second /\ cursor <= clock /\ Earned(cursor, items', issues)
    BY <1>1, EarnedStays DEF EarnInv, IntakeTypeOK
  <1> QED BY <1>1, <1>2, <1>3, OnePolls

\* The issue of delivery h is in items its.
Handled(h, its) ==
  \E i \in Items :
    /\ its[i].lifecycle # "none" /\ its[i].dedupe_key = KeyOf(h)
    /\ its[i].lifecycle # "pending" \/ its[i].revision = h.revision

\* A poller goes on to the next delivery when the first is dealt with.
LEMMA NextItemKeeps ==
  ASSUME EarnInv, NEW p \in Pollers, NextItem(p),
         poller[p].pc \in {"batch", "found", "changed"}, poller[p].batch # <<>>,
         Handled(FirstOf(p), items'),
         QueueTypeOK', Grows(items, items'), UNCHANGED <<clock, issues, cursor>>
  PROVE  EarnInv'
  <1> DEFINE old == poller[p]
             me == [poller[p] EXCEPT !.pc = "batch", !.batch = Tail(poller[p].batch), !.item = None]
  <1>1. old \in PollerState /\ Polls(old, clock, items, issues)
    BY DEF EarnInv, IntakeTypeOK
  <1>2. old.batch \in Seq(Delivery) /\ old.batch # <<>>
    BY <1>1 DEF PollerState
  <1>3. /\ Tail(old.batch) \in Seq(Delivery)
        /\ Len(Tail(old.batch)) = Len(old.batch) - 1
        /\ \A k \in 1 .. Len(Tail(old.batch)) : Tail(old.batch)[k] = old.batch[k + 1]
    BY <1>2, HeadTailProperties
  <1>4. /\ me \in PollerState /\ me.pc = "batch" /\ me.batch = Tail(old.batch)
        /\ me.since = old.since /\ me.next = old.next
    BY <1>1, <1>3 DEF PollerState
  <1>5. poller' = [poller EXCEPT ![p] = me]
    BY DEF NextItem
  <1> HIDE DEF me
  <1>6. ASSUME NEW x \in Issues, issues[x].updated \in 1 .. old.next
        PROVE  TakenUp(x, items', issues) \/ InHand(x, Tail(old.batch), issues)
    <2> DEFINE news == [issue |-> x, revision |-> issues[x].revision]
    <2>1. CASE TakenUp(x, items, issues)
      BY <2>1, TakenUpStays
    <2>2. ASSUME InHand(x, old.batch, issues)
          PROVE  TakenUp(x, items', issues) \/ InHand(x, Tail(old.batch), issues)
      <3>1. PICK k \in 1 .. Len(old.batch) : old.batch[k] = news
        BY <2>2 DEF InHand
      <3>2. Len(old.batch) \in Nat
        BY <1>2
      <3>3. CASE k = 1
        <4>1. FirstOf(p) = news
          BY <3>1, <3>3, <1>2 DEF FirstOf
        <4>2. news.revision = issues[x].revision
          OBVIOUS
        <4> HIDE DEF news
        <4>3. \E i \in Items :
                /\ items'[i].lifecycle # "none" /\ items'[i].dedupe_key = KeyOf(news)
                /\ items'[i].lifecycle # "pending" \/ items'[i].revision = issues[x].revision
          BY <4>1, <4>2 DEF Handled
        <4> QED BY <4>3 DEF TakenUp, news
      <3>4. CASE k # 1
        <4>1. k - 1 \in 1 .. Len(Tail(old.batch)) /\ (k - 1) + 1 = k
          BY <3>2, <3>4, <1>3
        <4>2. Tail(old.batch)[k - 1] = news
          BY <4>1, <3>1, <1>3
        <4> QED BY <4>1, <4>2 DEF InHand
      <3> QED BY <3>3, <3>4
    <2> QED BY <2>1, <2>2, <1>6, <1>1 DEF Polls
  <1>7. Earned(old.since, items', issues)
    BY <1>1, EarnedStays DEF Polls
  <1>8. Polls(me, clock, items', issues)
    BY <1>1, <1>4, <1>6, <1>7 DEF Polls
  <1>9. cursor \in Second /\ cursor <= clock /\ Earned(cursor, items', issues)
    BY EarnedStays DEF EarnInv, IntakeTypeOK
  <1> QED BY <1>4, <1>5, <1>8, <1>9, OnePolls

-----------------------------------------------------------------------------
(* The steps of a poller *)

\* A poll begins at the cursor.
LEMMA BeginPollKeeps ==
  ASSUME EarnInv, NEW p \in Pollers, BeginPoll(p)
  PROVE  EarnInv'
  <1> DEFINE me == [Idle EXCEPT !.pc = "fetch", !.since = cursor, !.next = cursor]
  <1>1. QueueTypeOK' /\ Grows(items, items')
    BY NothingChanges DEF BeginPoll
  <1>2. cursor \in Second /\ cursor <= clock /\ Earned(cursor, items', issues)
    BY <1>1, EarnedStays DEF EarnInv, IntakeTypeOK
  <1>3. Idle \in PollerState
    BY IdlePolls
  <1>4. /\ me \in PollerState /\ me.pc = "fetch" /\ me.since = cursor /\ me.next = cursor
        /\ me.page = 1 /\ me.batch = <<>>
    BY <1>2, <1>3 DEF PollerState, Idle
  <1>5. poller' = [poller EXCEPT ![p] = me]
    BY DEF BeginPoll
  <1> HIDE DEF me
  <1>6. Polls(me, clock, items', issues)
    BY <1>2, <1>4 DEF Polls
  <1>7. UNCHANGED <<clock, issues, cursor>>
    BY DEF BeginPoll
  <1> QED BY <1>1, <1>2, <1>4, <1>5, <1>6, <1>7, OnePolls

\* The page is fetched, and it is the only one: what is newer than the cursor and not in
\* it is later than all of it.
LEMMA FetchPageKeeps ==
  ASSUME MaxPages = 1, EarnInv, NEW p \in Pollers, FetchPage(p)
  PROVE  EarnInv'
  <1> DEFINE me == poller[p]
             S == {x \in Issues : issues[x].updated # 0 /\ issues[x].updated >= me.since}
             page == Page(InOrder(S), 1)
             F == {x \in ToSet(page) : issues[x].updated > me.since}
             fresh == InOrder(F)
             n == Cardinality(F)
             times == {issues[x].updated : x \in ToSet(fresh)}
             next == Max({me.next} \cup times)
             deliveries ==
               [k \in DOMAIN fresh |-> [issue |-> fresh[k], revision |-> issues[fresh[k]].revision]]
             more == Len(page) = PerPage /\ me.page < MaxPages
             new == [me EXCEPT !.pc = IF more THEN "fetch" ELSE "batch",
                               !.page = IF more THEN @ + 1 ELSE @,
                               !.next = Max({@} \cup times),
                               !.batch = @ \o deliveries]
  <1>1. me \in PollerState /\ Polls(me, clock, items, issues) /\ me.pc = "fetch"
    BY DEF EarnInv, IntakeTypeOK, FetchPage
  <1>2. me.page = 1 /\ me.batch = <<>> /\ me.next = me.since /\ me.since \in Second
    BY <1>1 DEF Polls, PollerState
  <1>3. poller' = [poller EXCEPT ![p] = new]
    BY <1>2 DEF FetchPage, Listing
  <1>4. MaxTime \in Nat /\ clock \in Second /\ \A x \in Issues : issues[x].updated \in Second
    BY IntakeAssumption DEF IntakeAssumption, EarnInv, IntakeTypeOK
  <1>5. Timed
    BY <1>4 DEF Timed, Second
  <1>6. /\ ToSet(page) \subseteq S
        /\ \A y \in ToSet(page), x \in S : Earlier(x, y) => x \in ToSet(page)
    BY <1>5, FirstPage
  <1>7. S \subseteq Issues /\ F \subseteq Issues
    BY <1>6
  <1>8. /\ n \in Nat /\ fresh \in [1 .. n -> F]
        /\ \A x \in F : \E i \in 1 .. n : fresh[i] = x
    <2> HIDE DEF F
    <2> QED BY <1>5, <1>7, InOrderIs DEF Lists
  <1>9. ToSet(fresh) = F
    <2> HIDE DEF F, fresh
    <2> QED BY <1>8 DEF ToSet
  <1>10. \A x \in F : issues[x].updated # 0 /\ issues[x].updated > me.since
    BY <1>6
  <1> HIDE DEF fresh
  <1>11. deliveries \in Seq(Delivery) /\ Len(deliveries) = n /\ me.batch \o deliveries = deliveries
    <2>1. \A k \in 1 .. n : fresh[k] \in F /\ fresh[k] \in Issues /\ issues[fresh[k]].updated # 0
      <3> HIDE DEF F
      <3> QED BY <1>7, <1>8, <1>10
    <2>2. \A k \in 1 .. n : issues[fresh[k]].revision \in Revisions
      BY <2>1 DEF EarnInv, Dated
    <2>3. DOMAIN fresh = 1 .. n
      BY <1>8
    <2>4. deliveries \in [1 .. n -> Delivery]
      BY <2>1, <2>2, <2>3 DEF Delivery
    <2>5. deliveries \in Seq(Delivery) /\ Len(deliveries) = n
      <3> HIDE DEF deliveries, n
      <3> QED BY <2>4, <1>8
    <2> QED BY <2>5, <1>2, ConcatEmptySeq
  <1>12. /\ next \in {me.next} \cup times /\ next >= me.next
         /\ next \in Second /\ next <= clock
    <2>1. \A x \in F : issues[x].updated \in Second /\ issues[x].updated <= clock
      BY <1>4, <1>7 DEF EarnInv, Dated
    <2>2. times \subseteq Second /\ \A t \in times : t <= clock
      <3> HIDE DEF F
      <3> QED BY <1>9, <2>1
    <2> HIDE DEF times
    <2>3. {me.next} \cup times \subseteq 0 .. MaxTime
      BY <1>2, <2>2 DEF Second
    <2>4. next \in {me.next} \cup times /\ next >= me.next
      BY <2>3, <1>4, MaxIs
    <2>5. me.next <= clock
      BY <1>1 DEF Polls
    <2> HIDE DEF next
    <2> QED BY <1>2, <2>2, <2>4, <2>5
  <1>13. /\ new \in PollerState /\ new.pc = "batch" /\ new.since = me.since
         /\ new.next = next /\ new.batch = deliveries
    <2>1. ~more
      BY <1>2
    <2> HIDE DEF more, times, deliveries
    <2> QED BY <1>1, <1>2, <1>11, <1>12, <2>1 DEF PollerState
  <1> HIDE DEF new
  <1>14. ASSUME NEW x \in Issues, issues[x].updated \in 1 .. next
         PROVE  TakenUp(x, items, issues) \/ InHand(x, deliveries, issues)
    <2>1. issues[x].updated \in Nat /\ me.since \in Nat /\ next \in Nat
      BY <1>2, <1>4, <1>12 DEF Second
    <2>2. CASE issues[x].updated <= me.since
      <3>1. issues[x].updated \in 1 .. me.since
        BY <2>1, <2>2, <1>14
      <3> QED BY <3>1, <1>1 DEF Polls, Earned
    <2>3. CASE issues[x].updated > me.since
      <3>1. next # me.next
        BY <2>1, <2>3, <1>2, <1>14
      <3>2. PICK y \in F : next = issues[y].updated
        <4> HIDE DEF F, next
        <4> QED BY <3>1, <1>9, <1>12
      <3>3. x \in S /\ y \in ToSet(page) /\ y \in Issues
        BY <2>1, <2>3, <1>7
      <3>4. x = y \/ Earlier(x, y)
        <4>1. issues[x].updated = issues[y].updated => x = y
          BY <1>10, <3>2, <3>3 DEF EarnInv, Dated
        <4>2. issues[x].updated <= issues[y].updated
          BY <3>2, <1>14
        <4>3. issues[y].updated \in Nat
          BY <3>2, <2>1
        <4> QED BY <4>1, <4>2, <4>3, <2>1 DEF Earlier
      <3>5. x \in F
        <4>1. x \in ToSet(page)
          BY <1>6, <3>3, <3>4
        <4> QED BY <4>1, <2>3
      <3>6. PICK i \in 1 .. n : fresh[i] = x
        <4> HIDE DEF F
        <4> QED BY <1>8, <3>5
      <3>7. deliveries[i] = [issue |-> x, revision |-> issues[x].revision]
        BY <1>8, <3>6
      <3> QED BY <1>11, <3>7 DEF InHand
    <2> QED BY <2>1, <2>2, <2>3
  <1> HIDE DEF deliveries, next
  <1>15. QueueTypeOK' /\ Grows(items, items') /\ UNCHANGED <<clock, issues, cursor>>
    BY NothingChanges DEF FetchPage
  <1>16. Polls(new, clock, items, issues)
    BY <1>1, <1>12, <1>13, <1>14 DEF Polls
  <1>17. Polls(new, clock, items', issues)
    BY <1>15, <1>16, PollsStay
  <1>18. cursor \in Second /\ cursor <= clock /\ Earned(cursor, items', issues)
    BY <1>15, EarnedStays DEF EarnInv, IntakeTypeOK
  <1> QED BY <1>3, <1>13, <1>15, <1>17, <1>18, OnePolls

\* The head of a batch that is not empty is a delivery.
LEMMA FirstIs ==
  ASSUME EarnInv, NEW p \in Pollers, poller[p].batch # <<>>
  PROVE  FirstOf(p) \in Delivery
  <1>1. poller[p] \in PollerState
    BY DEF EarnInv, IntakeTypeOK
  <1>2. poller[p].batch \in Seq(Delivery)
    BY <1>1 DEF PollerState
  <1>3. Head(poller[p].batch) \in Delivery
    BY <1>2, HeadTailProperties
  <1> QED BY <1>3 DEF FirstOf

\* The first delivery becomes an item, or an open item with its key is found.
LEMMA IntakeKeeps ==
  ASSUME EarnInv, NEW p \in Pollers, Intake(p)
  PROVE  EarnInv'
  <1> DEFINE new == FirstOf(p)
             key == KeyOf(new)
  <1>1. poller[p].pc = "batch" /\ poller[p].batch # <<>> /\ UNCHANGED <<clock, issues>>
    BY DEF Intake
  <1>2. new \in Delivery
    BY <1>1, FirstIs
  <1>3. new.issue \in Issues /\ new.revision \in Revisions
    BY <1>2 DEF Delivery
  <1>4. /\ QueueTypeOK /\ poller[p] \in PollerState
        /\ Polls(poller[p], clock, items, issues)
    BY DEF EarnInv, IntakeTypeOK
  <1> HIDE DEF new
  <1>5. ASSUME Nack(p), UNCHANGED queueVars PROVE EarnInv'
    BY <1>1, <1>5, NackKeeps
  <1>6. ASSUME Route[new.revision] # None, Unused # {}, NextItem(p), UNCHANGED cursor,
               NEW priority \in Priorities,
               EnqueueFactoryWorkItem(NextId,
                 [factory |-> Factory, dedupe_key |-> key, priority |-> priority,
                  revision |-> new.revision, rejection_count |-> 0, retry_of |-> None])
        PROVE  EarnInv'
    <2> DEFINE row == [factory |-> Factory, dedupe_key |-> key, priority |-> priority,
                       revision |-> new.revision, rejection_count |-> 0, retry_of |-> None]
    <2>1. NextId \in Unused /\ NextId \in Items /\ items[NextId].lifecycle = "none"
      <3>1. Unused \subseteq Nat
        BY QueueAssumption DEF QueueAssumption, Unused
      <3>2. NextId \in Unused
        BY <3>1, <1>6, MinIs DEF NextId
      <3> QED BY <3>2 DEF Unused
    <2>2. key \in DedupeKeys
      <3>1. Route[new.revision] \in Workflows
        BY <1>3, <1>6, IntakeAssumption DEF IntakeAssumption
      <3>2. key = <<new.issue, Route[new.revision]>>
        BY DEF KeyOf
      <3> QED BY <3>1, <3>2, <1>3, IntakeAssumption DEF IntakeAssumption
    <2>3. row \in NewItem
      <3>1. Factory \in Factories /\ MaxRejections \in Nat
        BY IntakeAssumption, QueueAssumption DEF IntakeAssumption, QueueAssumption
      <3> HIDE DEF key
      <3> QED BY <3>1, <2>2, <1>3, <1>6 DEF NewItem
    <2>4. /\ row.dedupe_key = key /\ row.revision = new.revision
      OBVIOUS
    <2>5. EnqueueFactoryWorkItem(NextId, row)
      BY <1>6
    <2> HIDE DEF row, key
    <2>7. QueueTypeOK'
      BY <1>4, <2>1, <2>3, <2>5, CallsKeepTypes DEF CallOn
    <2>8. items \in [Items -> WorkItem]
      BY <1>4 DEF QueueTypeOK
    <2>9. /\ \A i \in Items : i # NextId => items'[i] = items[i]
          /\ items'[NextId].lifecycle = "pending"
          /\ items'[NextId].dedupe_key = row.dedupe_key
          /\ items'[NextId].revision = row.revision
      BY <2>1, <2>5, <2>8 DEF EnqueueFactoryWorkItem, InsertFactoryWorkItem
    <2>10. Grows(items, items')
      BY <2>1, <2>9 DEF Grows
    <2>11. Handled(new, items')
      BY <2>1, <2>4, <2>9 DEF Handled, key
    <2> QED BY <1>1, <1>6, <2>7, <2>10, <2>11, NextItemKeeps DEF new
  <1>7. ASSUME NEW i \in OpenWithKey(key),
               poller' = [poller EXCEPT ![p] = [poller[p] EXCEPT !.pc = "found", !.item = i]],
               UNCHANGED <<queueVars, cursor>>
        PROVE  EarnInv'
    <2> DEFINE me == [poller[p] EXCEPT !.pc = "found", !.item = i]
    <2>1. /\ i \in Items /\ items[i].lifecycle # "none" /\ items[i].dedupe_key = key
      BY <1>7 DEF OpenWithKey, Open
    <2>2. /\ me \in PollerState /\ me.pc = "found" /\ me.item = i
          /\ me.since = poller[p].since /\ me.next = poller[p].next
          /\ me.batch = poller[p].batch
      BY <1>4, <2>1 DEF PollerState
    <2>3. poller' = [poller EXCEPT ![p] = me]
      BY <1>7
    <2> HIDE DEF me
    <2>4. Polls(me, clock, items, issues)
      BY <1>1, <1>4, <2>1, <2>2 DEF Polls, new, FirstOf
    <2>5. QueueTypeOK' /\ Grows(items, items')
      BY <1>7, NothingChanges
    <2>6. Polls(me, clock, items', issues)
      BY <2>4, <2>5, PollsStay
    <2>7. cursor \in Second /\ cursor <= clock /\ Earned(cursor, items', issues)
      BY <2>5, EarnedStays DEF EarnInv, IntakeTypeOK
    <2> QED BY <1>1, <1>7, <2>2, <2>3, <2>5, <2>6, <2>7, OnePolls
  <1>8. CASE Route[new.revision] = None /\ Nack(p) /\ UNCHANGED queueVars
    BY <1>5, <1>8
  <1>9. CASE /\ Route[new.revision] # None /\ Unused # {}
             /\ \E priority \in Priorities :
                  EnqueueFactoryWorkItem(NextId,
                    [factory |-> Factory, dedupe_key |-> key, priority |-> priority,
                     revision |-> new.revision, rejection_count |-> 0, retry_of |-> None])
             /\ NextItem(p) /\ UNCHANGED cursor
    BY <1>6, <1>9
  <1>10. CASE /\ Route[new.revision] # None
              /\ \E i \in OpenWithKey(key) :
                   poller' = [poller EXCEPT ![p] = [poller[p] EXCEPT !.pc = "found", !.item = i]]
              /\ UNCHANGED <<queueVars, cursor>>
    BY <1>7, <1>10
  <1> QED BY <1>8, <1>9, <1>10 DEF Intake, new

\* The item that was found has the key, and says the same or carries on.
LEMMA ExamineKeeps ==
  ASSUME EarnInv, NEW p \in Pollers, Examine(p)
  PROVE  EarnInv'
  <1> DEFINE i == poller[p].item
  <1>1. /\ poller[p].pc = "found" /\ UNCHANGED <<queueVars, clock, issues, cursor>>
        /\ poller[p] \in PollerState /\ Polls(poller[p], clock, items, issues)
    BY DEF EarnInv, IntakeTypeOK, Examine
  <1>2. /\ poller[p].batch # <<>> /\ i \in Items /\ items[i].lifecycle # "none"
        /\ items[i].dedupe_key = KeyOf(FirstOf(p))
    BY <1>1 DEF Polls, FirstOf
  <1>3. QueueTypeOK' /\ Grows(items, items') /\ items' = items
    BY <1>1, NothingChanges DEF queueVars
  <1>4. CASE items[i].lifecycle # "pending" \/ items[i].revision = FirstOf(p).revision
    <2>1. NextItem(p)
      BY <1>4 DEF Examine
    <2>2. Handled(FirstOf(p), items')
      BY <1>2, <1>3, <1>4 DEF Handled
    <2> QED BY <1>1, <1>2, <1>3, <2>1, <2>2, NextItemKeeps
  <1>5. CASE ~(items[i].lifecycle # "pending" \/ items[i].revision = FirstOf(p).revision)
    <2> DEFINE me == [poller[p] EXCEPT !.pc = "changed"]
    <2>1. poller \in [Pollers -> PollerState]
      BY DEF EarnInv, IntakeTypeOK
    <2>2. poller' = [poller EXCEPT ![p] = me]
      BY <1>5, <2>1 DEF Examine
    <2>3. /\ me \in PollerState /\ me.pc = "changed" /\ me.item = i
          /\ me.since = poller[p].since /\ me.next = poller[p].next
          /\ me.batch = poller[p].batch
      BY <1>1 DEF PollerState
    <2> HIDE DEF me
    <2>4. Polls(me, clock, items, issues)
      BY <1>1, <2>3 DEF Polls
    <2>5. Polls(me, clock, items', issues)
      BY <2>4, <1>3
    <2>6. cursor \in Second /\ cursor <= clock /\ Earned(cursor, items', issues)
      BY <1>3 DEF EarnInv, IntakeTypeOK
    <2> QED BY <1>1, <1>3, <2>2, <2>3, <2>5, <2>6, OnePolls
  <1> QED BY <1>4, <1>5

\* A changed item that was taken meanwhile carries on; a pending one stops the batch.
LEMMA RefreshKeeps ==
  ASSUME EarnInv, NEW p \in Pollers, Refresh(p)
  PROVE  EarnInv'
  <1> DEFINE i == poller[p].item
  <1>1. /\ poller[p].pc = "changed" /\ UNCHANGED <<queueVars, clock, issues>>
        /\ poller[p] \in PollerState /\ Polls(poller[p], clock, items, issues)
    BY DEF EarnInv, IntakeTypeOK, Refresh
  <1>2. /\ poller[p].batch # <<>> /\ i \in Items /\ items[i].lifecycle # "none"
        /\ items[i].dedupe_key = KeyOf(FirstOf(p))
    BY <1>1 DEF Polls, FirstOf
  <1>3. QueueTypeOK' /\ Grows(items, items') /\ items' = items
    BY <1>1, NothingChanges DEF queueVars
  <1>4. CASE items[i].lifecycle = "pending"
    <2>1. Nack(p)
      BY <1>4 DEF Refresh
    <2> QED BY <1>1, <2>1, NackKeeps
  <1>5. CASE items[i].lifecycle # "pending"
    <2>1. NextItem(p) /\ UNCHANGED cursor
      BY <1>5 DEF Refresh
    <2>2. Handled(FirstOf(p), items')
      BY <1>2, <1>3, <1>5 DEF Handled
    <2> QED BY <1>1, <1>2, <1>3, <2>1, <2>2, NextItemKeeps
  <1> QED BY <1>4, <1>5

\* With nothing left in the batch, the cursor of the poll is earned.
LEMMA AckKeeps ==
  ASSUME EarnInv, NEW p \in Pollers, Ack(p)
  PROVE  EarnInv'
  <1> DEFINE me == poller[p]
  <1>1. /\ me.pc = "batch" /\ me.batch = <<>> /\ UNCHANGED <<queueVars, clock, issues>>
        /\ RecordCursor(p, me.next)
        /\ me \in PollerState /\ Polls(me, clock, items, issues)
    BY DEF EarnInv, IntakeTypeOK, Ack
  <1>2. me.next \in Second /\ me.next <= clock
    BY <1>1 DEF Polls, PollerState
  <1>3. \A x \in Issues : ~InHand(x, me.batch, issues)
    BY <1>1 DEF InHand
  <1>4. Earned(me.next, items, issues)
    BY <1>1, <1>3 DEF Polls, Earned
  <1> QED BY <1>1, <1>2, <1>4, RecordKeeps

\* A call of a poll fails, and recording that may fail too.
LEMMA PollFailsKeeps ==
  ASSUME EarnInv, NEW p \in Pollers, PollFails(p)
  PROVE  EarnInv'
  <1>1. UNCHANGED <<queueVars, clock, issues>>
    BY DEF PollFails
  <1>2. CASE Nack(p)
    BY <1>1, <1>2, NackKeeps
  <1>3. CASE poller' = [poller EXCEPT ![p] = Idle] /\ UNCHANGED cursor
    BY <1>1, <1>3, GivesUpKeeps
  <1> QED BY <1>2, <1>3 DEF PollFails

-----------------------------------------------------------------------------
(* The steps of others *)

\* Whatever becomes of the items, as long as they grow.
LEMMA ItemsMove ==
  ASSUME EarnInv, QueueTypeOK', Grows(items, items'), UNCHANGED <<clock, issues, cursor, poller>>
  PROVE  EarnInv'
  <1>1. IntakeTypeOK'
    BY DEF EarnInv, IntakeTypeOK
  <1>2. ASSUME NEW p \in Pollers PROVE Polls(poller[p], clock, items', issues)
    <2>1. Polls(poller[p], clock, items, issues)
      BY DEF EarnInv
    <2> QED BY <2>1, PollsStay
  <1>3. Dated(clock, issues) /\ cursor <= clock /\ Earned(cursor, items', issues)
    BY EarnedStays DEF EarnInv
  <1> QED BY <1>1, <1>2, <1>3 DEF EarnInv

\* An item is taken by a daemon, finished or cancelled.
LEMMA WorkKeeps ==
  ASSUME EarnInv, NEW i \in Items, Take(i) \/ Finish(i) \/ Cancel(i)
  PROVE  EarnInv'
  <1>1. QueueTypeOK
    BY DEF EarnInv, IntakeTypeOK
  <1>2. CallOn(i) /\ UNCHANGED <<clock, issues, cursor, poller>>
    BY QueueAssumption DEF QueueAssumption, Take, Finish, Cancel, CallOn
  <1>3. QueueTypeOK' /\ Grows(items, items')
    BY <1>1, <1>2, CallsKeepTypes, CallsGrow
  <1> QED BY <1>2, <1>3, ItemsMove

\* An issue is edited, later than everything any cursor has passed.
LEMMA EditKeeps ==
  ASSUME ~SameSecond, EarnInv, NEW x \in Issues, EditIssue(x)
  PROVE  EarnInv'
  <1>1. /\ MaxTime \in Nat /\ clock \in Second /\ cursor \in Second /\ QueueTypeOK
        /\ issues \in [Issues -> [updated : Second, revision : Revisions \cup {None}]]
        /\ poller \in [Pollers -> PollerState]
    BY IntakeAssumption DEF IntakeAssumption, EarnInv, IntakeTypeOK
  <1>2. clock' = clock + 1 /\ clock' <= MaxTime /\ UNCHANGED <<queueVars, cursor, poller>>
    BY DEF EditIssue
  <1>3. PICK revision \in Revisions :
          issues' = [issues EXCEPT ![x] = [updated |-> clock', revision |-> revision]]
    BY DEF EditIssue
  <1>4. /\ issues'[x].updated = clock + 1 /\ issues'[x].revision = revision
        /\ \A y \in Issues : y # x => issues'[y] = issues[y]
    BY <1>1, <1>2, <1>3
  <1>5. clock' \in Second /\ clock \in Nat /\ \A y \in Issues : issues[y].updated \in Nat
    BY <1>1, <1>2 DEF Second
  <1>6. items' = items /\ QueueTypeOK'
    BY <1>2, NothingChanges DEF queueVars
  <1>7. IntakeTypeOK'
    <2>1. issues' \in [Issues -> [updated : Second, revision : Revisions \cup {None}]]
      BY <1>1, <1>3, <1>5
    <2> QED BY <1>1, <1>2, <1>5, <1>6, <2>1 DEF IntakeTypeOK
  <1>8. Dated(clock', issues')
    <2>1. \A y \in Issues : issues[y].updated <= clock
      BY DEF EarnInv, Dated
    <2>2. \A y \in Issues : issues'[y].updated <= clock'
      BY <1>2, <1>4, <1>5, <2>1
    <2>3. \A y \in Issues : issues'[y].updated # 0 => issues'[y].revision \in Revisions
      BY <1>4 DEF EarnInv, Dated
    <2>4. ASSUME NEW y \in Issues, NEW z \in Issues,
                 issues'[y].updated = issues'[z].updated, issues'[y].updated # 0
          PROVE  y = z
      <3>1. CASE y = x \/ z = x
        BY <3>1, <2>1, <2>4, <1>4, <1>5
      <3>2. CASE y # x /\ z # x
        <4>1. issues[y].updated = issues[z].updated /\ issues[y].updated # 0
          BY <3>2, <2>4, <1>4
        <4> QED BY <4>1 DEF EarnInv, Dated
      <3> QED BY <3>1, <3>2
    <2> QED BY <2>2, <2>3, <2>4 DEF Dated
  \* Where a cursor is not later than now, nothing was edited.
  <1>9. ASSUME NEW s \in Second, s <= clock, NEW y \in Issues, issues'[y].updated \in 1 .. s
        PROVE  y # x /\ issues'[y] = issues[y]
    <2>1. ASSUME y = x PROVE FALSE
      BY <2>1, <1>1, <1>4, <1>5, <1>9 DEF Second
    <2> QED BY <2>1, <1>4
  <1>10. ASSUME NEW s \in Second, s <= clock, Earned(s, items, issues)
         PROVE  Earned(s, items, issues')
    <2> SUFFICES ASSUME NEW y \in Issues, issues'[y].updated \in 1 .. s
                 PROVE  TakenUp(y, items, issues')
      BY DEF Earned
    <2>1. issues'[y] = issues[y]
      BY <1>9, <1>10
    <2>2. TakenUp(y, items, issues)
      BY <2>1, <1>10 DEF Earned
    <2> QED BY <2>1, <2>2 DEF TakenUp
  <1>11. ASSUME NEW p \in Pollers
         PROVE  Polls(poller[p], clock', items, issues')
    <2> DEFINE me == poller[p]
    <2>1. me \in PollerState /\ Polls(me, clock, items, issues)
      BY <1>1 DEF EarnInv
    <2>2. me.since \in Second /\ me.next \in Second
      BY <2>1 DEF PollerState
    <2>3. me.since <= clock /\ me.next <= clock /\ Earned(me.since, items, issues)
      BY <2>1 DEF Polls
    <2>4. me.since <= clock' /\ me.next <= clock'
      BY <1>1, <1>2, <2>2, <2>3 DEF Second
    <2>5. Earned(me.since, items, issues')
      BY <2>2, <2>3, <1>10
    <2>6. me.pc \in {"batch", "found", "changed"} =>
            \A y \in Issues : issues'[y].updated \in 1 .. me.next =>
              TakenUp(y, items, issues') \/ InHand(y, me.batch, issues')
      <3> SUFFICES ASSUME me.pc \in {"batch", "found", "changed"},
                          NEW y \in Issues, issues'[y].updated \in 1 .. me.next
                   PROVE  TakenUp(y, items, issues') \/ InHand(y, me.batch, issues')
        OBVIOUS
      <3>1. issues'[y] = issues[y]
        BY <2>2, <2>3, <1>9
      <3>2. TakenUp(y, items, issues) \/ InHand(y, me.batch, issues)
        BY <2>1, <3>1 DEF Polls
      <3> QED BY <3>1, <3>2 DEF TakenUp, InHand
    <2> QED BY <2>1, <2>4, <2>5, <2>6 DEF Polls
  <1>12. cursor <= clock /\ Earned(cursor, items, issues)
    BY DEF EarnInv
  <1>13. cursor <= clock' /\ Earned(cursor, items, issues')
    BY <1>1, <1>2, <1>10, <1>12 DEF Second
  <1> QED BY <1>2, <1>6, <1>7, <1>8, <1>11, <1>13 DEF EarnInv

-----------------------------------------------------------------------------
(* The theorem *)

\* Nothing is there to be passed when everything begins.
LEMMA IntakeStarts == IntakeInit => EarnInv
  <1> SUFFICES ASSUME IntakeInit PROVE EarnInv
    OBVIOUS
  <1>1. MaxTime \in Nat /\ MaxPages \in Nat \ {0}
    BY IntakeAssumption DEF IntakeAssumption
  <1>2. QueueTypeOK
    BY InitTypes DEF IntakeInit
  <1>3. /\ clock = 0 /\ cursor = 0 /\ \A x \in Issues : issues[x].updated = 0
        /\ issues \in [Issues -> [updated : Second, revision : Revisions \cup {None}]]
    BY <1>1 DEF IntakeInit, Second
  <1>4. Idle \in PollerState
    BY <1>1 DEF Idle, PollerState, Second
  <1>5. poller \in [Pollers -> PollerState] /\ \A p \in Pollers : poller[p] = Idle
    BY <1>4 DEF IntakeInit
  <1>6. IntakeTypeOK
    BY <1>1, <1>2, <1>3, <1>5 DEF IntakeTypeOK, Second
  <1>7. Dated(clock, issues)
    BY <1>3 DEF Dated
  <1>8. Earned(0, items, issues)
    BY DEF Earned
  <1>9. Polls(Idle, clock, items, issues)
    BY <1>3, <1>8 DEF Polls, Idle
  <1> QED BY <1>3, <1>5, <1>6, <1>7, <1>8, <1>9 DEF EarnInv

\* Where a poll is one page and no two updates fall into one second: the cursor passes an issue
\* only when what the issue says was taken in, whichever of several pollers moved it, whatever
\* failed between two items of a batch, and however issues were edited and items
\* finished meanwhile (poll, recordAckCursor, recordErrorCursor, ProviderIntake).
THEOREM CursorIsEarnedAlways ==
  ASSUME MaxPages = 1, ~SameSecond PROVE IntakeSpec => []CursorIsEarned
  <1>1. EarnInv /\ [IntakeNext]_intakeVars => EarnInv'
    <2> SUFFICES ASSUME EarnInv, [IntakeNext]_intakeVars PROVE EarnInv'
      OBVIOUS
    <2>1. ASSUME NEW x \in Issues, EditIssue(x) PROVE EarnInv'
      BY <2>1, EditKeeps
    <2>2. ASSUME NEW p \in Pollers, Poll(p) PROVE EarnInv'
      BY <2>2, BeginPollKeeps, FetchPageKeeps, IntakeKeeps, ExamineKeeps, RefreshKeeps, AckKeeps
         DEF Poll
    <2>3. ASSUME NEW p \in Pollers, PollFails(p) PROVE EarnInv'
      BY <2>3, PollFailsKeeps
    <2>4. ASSUME NEW i \in Items, Take(i) \/ Finish(i) \/ Cancel(i) PROVE EarnInv'
      BY <2>4, WorkKeeps
    <2>5. CASE UNCHANGED intakeVars
      <3>1. UNCHANGED <<clock, issues, cursor, poller, queueVars>>
        BY <2>5 DEF intakeVars
      <3>2. QueueTypeOK' /\ Grows(items, items')
        BY <3>1, NothingChanges
      <3> QED BY <3>1, <3>2, ItemsMove
    <2> QED BY <2>1, <2>2, <2>3, <2>4, <2>5 DEF IntakeNext
  <1>2. EarnInv => CursorIsEarned
    <2> SUFFICES ASSUME EarnInv, NEW x \in Issues, issues[x].updated \in 1 .. cursor
                 PROVE  TakenIn(x)
      BY DEF EarnInv, CursorIsEarned, SuppressesOnlyDuplicates
    <2>1. TakenUp(x, items, issues)
      BY DEF EarnInv, Earned
    <2>2. issues[x].updated # 0
      OBVIOUS
    <2> QED BY <2>1, <2>2 DEF TakenIn, TakenUp
  <1> QED BY <1>1, <1>2, IntakeStarts, PTL DEF IntakeSpec

-----------------------------------------------------------------------------
(* Types of the intake, for polls of any number of pages *)

\* The intake's state is well formed, and a poller that looks at an item has one and the
\* delivery it was found for.
IntakeRows ==
  /\ IntakeTypeOK
  /\ \A x \in Issues : issues[x].updated # 0 => issues[x].revision \in Revisions
  /\ \A p \in Pollers :
       poller[p].pc \in {"found", "changed"} => poller[p].batch # <<>> /\ poller[p].item \in Items

\* One poller moves.
LEMMA OneMoves ==
  ASSUME IntakeRows, NEW p \in Pollers, NEW me \in PollerState,
         poller' = [poller EXCEPT ![p] = me],
         me.pc \in {"found", "changed"} => me.batch # <<>> /\ me.item \in Items,
         QueueTypeOK', UNCHANGED <<clock, issues>>, cursor' \in Second
  PROVE  IntakeRows'
  BY DEF IntakeRows, IntakeTypeOK

\* A poller that waits for its tick has nothing in its hands.
LEMMA IdleMoves ==
  ASSUME IntakeRows, NEW p \in Pollers, poller' = [poller EXCEPT ![p] = Idle],
         QueueTypeOK', UNCHANGED <<clock, issues>>, cursor' \in Second
  PROVE  IntakeRows'
  <1>1. MaxPages \in Nat \ {0} /\ MaxTime \in Nat
    BY IntakeAssumption DEF IntakeAssumption
  <1>2. Idle \in PollerState /\ Idle.pc = "idle"
    BY <1>1 DEF Idle, PollerState, Second
  <1> QED BY <1>2, OneMoves

\* Pages are parts of a list.
LEMMA PageIs ==
  ASSUME NEW S, NEW list \in Seq(S), NEW k \in Nat \ {0}
  PROVE  Page(list, k) \in Seq(S) /\ ToSet(Page(list, k)) \subseteq S
  <1> DEFINE first == (k - 1) * PerPage + 1
             last == Min({k * PerPage, Len(list)})
  <1>1. PerPage \in Nat /\ k - 1 \in Nat
    BY IntakeAssumption DEF IntakeAssumption
  <1>2. (k - 1) * PerPage \in Nat /\ k * PerPage \in Nat
    BY <1>1
  <1>3. Len(list) \in Nat
    OBVIOUS
  <1>4. last \in {k * PerPage, Len(list)} /\ last <= Len(list)
    <2>1. {k * PerPage, Len(list)} \subseteq Nat
      BY <1>2, <1>3
    <2> QED BY <2>1, MinIs
  <1>5. first \in Int /\ first >= 1 /\ last \in Int /\ last <= Len(list)
    BY <1>2, <1>3, <1>4
  <1>6. Page(list, k) = SubSeq(list, first, last)
    BY DEF Page
  <1> HIDE DEF first, last
  <1>7. \A i \in first .. last : list[i] \in S
    BY <1>3, <1>5
  <1>8. Page(list, k) \in Seq(S)
    BY <1>5, <1>6, <1>7, SubSeqProperties
  <1> HIDE DEF first, last
  <1>9. ToSet(Page(list, k)) \subseteq S
    BY <1>8 DEF ToSet
  <1> QED BY <1>8, <1>9

\* A page is fetched.
LEMMA FetchTypes ==
  ASSUME IntakeRows, NEW p \in Pollers, FetchPage(p)
  PROVE  IntakeRows'
  <1> DEFINE me == poller[p]
             S == {x \in Issues : issues[x].updated # 0 /\ issues[x].updated >= me.since}
             page == Page(InOrder(S), me.page)
             F == {x \in ToSet(page) : issues[x].updated > me.since}
             fresh == InOrder(F)
             n == Cardinality(F)
             times == {issues[x].updated : x \in ToSet(fresh)}
             next == Max({me.next} \cup times)
             deliveries ==
               [k \in DOMAIN fresh |-> [issue |-> fresh[k], revision |-> issues[fresh[k]].revision]]
             more == Len(page) = PerPage /\ me.page < MaxPages
             new == [me EXCEPT !.pc = IF more THEN "fetch" ELSE "batch",
                               !.page = IF more THEN me.page + 1 ELSE me.page,
                               !.next = next,
                               !.batch = me.batch \o deliveries]
  <1>1. me \in PollerState /\ me.next \in Second /\ me.page \in 1 .. MaxPages
        /\ me.batch \in Seq(Delivery) /\ me.since \in Second
    BY DEF IntakeRows, IntakeTypeOK, PollerState
  <1>2. poller' = [poller EXCEPT ![p] = new]
    BY DEF FetchPage, Listing
  <1>3. /\ MaxTime \in Nat /\ MaxPages \in Nat \ {0}
        /\ \A x \in Issues : issues[x].updated \in Second
    BY IntakeAssumption DEF IntakeAssumption, IntakeRows, IntakeTypeOK
  <1>4. Timed
    BY <1>3 DEF Timed, Second
  <1>5. S \subseteq Issues /\ me.page \in Nat \ {0}
    BY <1>1, <1>3
  <1>6. InOrder(S) \in Seq(S)
    <2> HIDE DEF S
    <2>1. Cardinality(S) \in Nat /\ Lists(InOrder(S), S)
      BY <1>4, <1>5, InOrderIs
    <2> QED BY <2>1 DEF Lists
  <1>7. ToSet(page) \subseteq S
    <2> HIDE DEF S
    <2> QED BY <1>5, <1>6, PageIs
  <1>8. F \subseteq Issues /\ \A x \in F : issues[x].updated \notin {0}
    BY <1>7
  <1>9. n \in Nat /\ fresh \in [1 .. n -> F]
    <2> HIDE DEF F
    <2> QED BY <1>4, <1>8, InOrderIs DEF Lists
  <1> HIDE DEF fresh, page, S
  <1>10. deliveries \in Seq(Delivery)
    <2>1. \A k \in 1 .. n : fresh[k] \in F /\ fresh[k] \in Issues /\ issues[fresh[k]].updated # 0
      <3> HIDE DEF F
      <3> QED BY <1>8, <1>9
    <2>2. \A k \in 1 .. n : issues[fresh[k]].revision \in Revisions
      BY <2>1 DEF IntakeRows
    <2>3. DOMAIN fresh = 1 .. n
      BY <1>9
    <2>4. deliveries \in [1 .. n -> Delivery]
      BY <2>1, <2>2, <2>3 DEF Delivery
    <2> HIDE DEF deliveries, n
    <2> QED BY <2>4, <1>9
  <1>11. next \in Second
    <2>1. ToSet(fresh) \subseteq F
      <3> HIDE DEF F
      <3> QED BY <1>9 DEF ToSet
    <2>2. times \subseteq Second
      <3> HIDE DEF F
      <3> QED BY <1>3, <1>8, <2>1
    <2> HIDE DEF times
    <2>3. {me.next} \cup times \subseteq 0 .. MaxTime
      BY <1>1, <2>2 DEF Second
    <2>4. next \in {me.next} \cup times
      BY <2>3, <1>3, MaxIs
    <2> QED BY <2>4, <2>2, <1>1
  <1>12. me.batch \o deliveries \in Seq(Delivery)
    <2> HIDE DEF deliveries
    <2> QED BY <1>1, <1>10, ConcatProperties
  <1>13. (IF more THEN me.page + 1 ELSE me.page) \in 1 .. MaxPages
    BY <1>1, <1>3
  <1> HIDE DEF more, next, deliveries
  <1>14. new \in PollerState /\ new.pc \notin {"found", "changed"}
    BY <1>1, <1>11, <1>12, <1>13 DEF PollerState
  <1> HIDE DEF new
  <1>15. QueueTypeOK' /\ UNCHANGED <<clock, issues>> /\ cursor' \in Second
    BY DEF FetchPage, IntakeRows, IntakeTypeOK, queueVars, QueueTypeOK
  <1> QED BY <1>2, <1>14, <1>15, OneMoves

\* The next delivery.
LEMMA NextTypes ==
  ASSUME IntakeRows, NEW p \in Pollers, NextItem(p), poller[p].batch # <<>>,
         QueueTypeOK', UNCHANGED <<clock, issues>>, cursor' \in Second
  PROVE  IntakeRows'
  <1> DEFINE me == [poller[p] EXCEPT !.pc = "batch", !.batch = Tail(poller[p].batch), !.item = None]
  <1>1. poller[p] \in PollerState /\ poller[p].batch \in Seq(Delivery)
    BY DEF IntakeRows, IntakeTypeOK, PollerState
  <1>2. Tail(poller[p].batch) \in Seq(Delivery)
    BY <1>1, HeadTailProperties
  <1>3. me \in PollerState /\ me.pc = "batch"
    BY <1>1, <1>2 DEF PollerState
  <1>4. poller' = [poller EXCEPT ![p] = me]
    BY DEF NextItem
  <1> HIDE DEF me
  <1> QED BY <1>3, <1>4, OneMoves

\* What a poller does to the store is an enqueue or nothing, and the intake stays well formed.
LEMMA PollTypes ==
  ASSUME IntakeRows, NEW p \in Pollers, Poll(p) \/ PollFails(p)
  PROVE  /\ IntakeRows' /\ Grows(items, items') /\ approvals' = approvals
         /\ UNCHANGED clock
  <1>1. /\ QueueTypeOK /\ cursor \in Second /\ poller \in [Pollers -> PollerState]
        /\ poller[p] \in PollerState
    BY DEF IntakeRows, IntakeTypeOK
  <1>2. poller[p].since \in Second /\ poller[p].next \in Second /\ poller[p].batch \in Seq(Delivery)
    BY <1>1 DEF PollerState
  <1>3. UNCHANGED queueVars => QueueTypeOK' /\ Grows(items, items') /\ approvals' = approvals
    BY <1>1 DEF queueVars, QueueTypeOK, Grows
  <1>4. UNCHANGED <<clock, issues>>
    BY DEF Poll, PollFails, BeginPoll, FetchPage, Intake, Examine, Refresh, Ack
  <1>5. ASSUME Nack(p) \/ RecordCursor(p, poller[p].next) PROVE poller' = [poller EXCEPT ![p] = Idle] /\ cursor' \in Second
    BY <1>2, <1>5 DEF Nack, RecordCursor
  <1>6. CASE BeginPoll(p)
    <2> DEFINE me == [Idle EXCEPT !.pc = "fetch", !.since = cursor, !.next = cursor]
    <2>1. MaxPages \in Nat \ {0} /\ MaxTime \in Nat
      BY IntakeAssumption DEF IntakeAssumption
    <2>i. Idle \in PollerState
      BY <2>1 DEF Idle, PollerState, Second
    <2>2. me \in PollerState /\ me.pc = "fetch"
      BY <1>1, <2>i DEF PollerState
    <2>3. poller' = [poller EXCEPT ![p] = me] /\ UNCHANGED <<queueVars, cursor>>
      BY <1>6 DEF BeginPoll
    <2> HIDE DEF me
    <2> QED BY <1>1, <1>3, <1>4, <2>2, <2>3, OneMoves
  <1>7. CASE FetchPage(p)
    <2>1. UNCHANGED queueVars
      BY <1>7 DEF FetchPage
    <2> QED BY <1>3, <1>4, <1>7, <2>1, FetchTypes
  <1>8. CASE Intake(p)
    <2> DEFINE new == FirstOf(p)
               key == KeyOf(new)
    <2>1. poller[p].pc = "batch" /\ poller[p].batch # <<>>
      BY <1>8 DEF Intake
    <2>2. new \in Delivery
      BY <1>2, <2>1, HeadTailProperties DEF FirstOf
    <2>3. new.issue \in Issues /\ new.revision \in Revisions
      BY <2>2 DEF Delivery
    <2> HIDE DEF new
    <2>4. CASE Nack(p) /\ UNCHANGED queueVars
      BY <1>3, <1>4, <1>5, <2>4, IdleMoves
    <2>5. ASSUME Route[new.revision] # None, Unused # {}, NextItem(p), UNCHANGED cursor,
                 NEW priority \in Priorities,
                 EnqueueFactoryWorkItem(NextId,
                   [factory |-> Factory, dedupe_key |-> key, priority |-> priority,
                    revision |-> new.revision, rejection_count |-> 0, retry_of |-> None])
          PROVE  IntakeRows' /\ Grows(items, items') /\ approvals' = approvals
      <3> DEFINE row == [factory |-> Factory, dedupe_key |-> key, priority |-> priority,
                         revision |-> new.revision, rejection_count |-> 0, retry_of |-> None]
      <3>1. NextId \in Items
        <4>1. Unused \subseteq Nat /\ Unused \subseteq Items
          BY QueueAssumption DEF QueueAssumption, Unused
        <4> QED BY <4>1, <2>5, MinIs DEF NextId
      <3>2. key \in DedupeKeys
        <4>1. Route[new.revision] \in Workflows
          BY <2>3, <2>5, IntakeAssumption DEF IntakeAssumption
        <4>2. key = <<new.issue, Route[new.revision]>>
          BY DEF KeyOf
        <4> QED BY <4>1, <4>2, <2>3, IntakeAssumption DEF IntakeAssumption
      <3>3. row \in NewItem
        <4>1. Factory \in Factories /\ MaxRejections \in Nat
          BY IntakeAssumption, QueueAssumption DEF IntakeAssumption, QueueAssumption
        <4> HIDE DEF key
        <4> QED BY <4>1, <3>2, <2>3, <2>5 DEF NewItem
      <3>4. EnqueueFactoryWorkItem(NextId, row)
        BY <2>5
      <3> HIDE DEF row, key
      <3>5. CallOn(NextId)
        BY <3>3, <3>4 DEF CallOn
      <3>6. QueueTypeOK' /\ Grows(items, items') /\ approvals' = approvals
        BY <1>1, <3>1, <3>5, CallsKeepTypes, CallsGrow
      <3> QED BY <1>1, <1>4, <2>1, <2>5, <3>6, NextTypes
    <2>6. ASSUME NEW i \in OpenWithKey(key),
                 poller' = [poller EXCEPT ![p] = [poller[p] EXCEPT !.pc = "found", !.item = i]],
                 UNCHANGED <<queueVars, cursor>>
          PROVE  IntakeRows'
      <3> DEFINE me == [poller[p] EXCEPT !.pc = "found", !.item = i]
      <3>1. i \in Items
        BY <2>6 DEF OpenWithKey
      <3>2. me \in PollerState /\ me.batch = poller[p].batch /\ me.item = i
        BY <1>1, <3>1 DEF PollerState
      <3>3. poller' = [poller EXCEPT ![p] = me]
        BY <2>6
      <3> HIDE DEF me
      <3> QED BY <1>1, <1>3, <1>4, <2>1, <2>6, <3>1, <3>2, <3>3, OneMoves
    <2>7. CASE Route[new.revision] = None /\ Nack(p) /\ UNCHANGED queueVars
      BY <2>4, <2>7
    <2>8. CASE /\ Route[new.revision] # None /\ Unused # {}
               /\ \E priority \in Priorities :
                    EnqueueFactoryWorkItem(NextId,
                      [factory |-> Factory, dedupe_key |-> key, priority |-> priority,
                       revision |-> new.revision, rejection_count |-> 0, retry_of |-> None])
               /\ NextItem(p) /\ UNCHANGED cursor
      BY <1>4, <2>5, <2>8
    <2>9. CASE /\ Route[new.revision] # None
               /\ \E i \in OpenWithKey(key) :
                    poller' = [poller EXCEPT ![p] = [poller[p] EXCEPT !.pc = "found", !.item = i]]
               /\ UNCHANGED <<queueVars, cursor>>
      BY <1>3, <1>4, <2>6, <2>9
    <2> QED BY <1>8, <2>7, <2>8, <2>9 DEF Intake, new
  <1>9. CASE Examine(p)
    <2>1. /\ poller[p].pc = "found" /\ UNCHANGED <<queueVars, cursor>>
          /\ poller[p].batch # <<>> /\ poller[p].item \in Items
      BY <1>9 DEF Examine, IntakeRows
    <2>2. CASE NextItem(p)
      BY <1>1, <1>3, <1>4, <2>1, <2>2, NextTypes
    <2>3. CASE poller' = [poller EXCEPT ![p].pc = "changed"]
      <3> DEFINE me == [poller[p] EXCEPT !.pc = "changed"]
      <3>1. me \in PollerState /\ me.batch = poller[p].batch /\ me.item = poller[p].item
        BY <1>1 DEF PollerState
      <3>2. poller' = [poller EXCEPT ![p] = me]
        BY <1>1, <2>3
      <3> HIDE DEF me
      <3> QED BY <1>1, <1>3, <1>4, <2>1, <3>1, <3>2, OneMoves
    <2> QED BY <1>9, <2>2, <2>3 DEF Examine
  <1>10. CASE Refresh(p)
    <2>1. poller[p].pc = "changed" /\ UNCHANGED queueVars /\ poller[p].batch # <<>>
      BY <1>10 DEF Refresh, IntakeRows
    <2>2. CASE Nack(p)
      BY <1>3, <1>4, <1>5, <2>1, <2>2, IdleMoves
    <2>3. CASE NextItem(p) /\ UNCHANGED cursor
      BY <1>1, <1>3, <1>4, <2>1, <2>3, NextTypes
    <2> QED BY <1>10, <2>2, <2>3 DEF Refresh
  <1>11. CASE Ack(p)
    <2>1. RecordCursor(p, poller[p].next) /\ UNCHANGED queueVars
      BY <1>11 DEF Ack
    <2> QED BY <1>3, <1>4, <1>5, <2>1, IdleMoves
  <1>12. CASE PollFails(p)
    <2>1. UNCHANGED queueVars
      BY <1>12 DEF PollFails
    <2>2. CASE Nack(p)
      BY <1>3, <1>4, <1>5, <2>1, <2>2, IdleMoves
    <2>3. CASE poller' = [poller EXCEPT ![p] = Idle] /\ UNCHANGED cursor
      BY <1>1, <1>3, <1>4, <2>1, <2>3, IdleMoves
    <2> QED BY <1>12, <2>2, <2>3 DEF PollFails
  <1> QED BY <1>6, <1>7, <1>8, <1>9, <1>10, <1>11, <1>12 DEF Poll

\* Nobody but the tables moves.
LEMMA TablesMove ==
  ASSUME IntakeRows, QueueTypeOK', UNCHANGED <<clock, issues, cursor, poller>>
  PROVE  IntakeRows'
  BY DEF IntakeRows, IntakeTypeOK

\* Time passes forwards, items grow and nothing is approved: this is all that becomes of the
\* intake beside the approval provider.
Meanwhile ==
  /\ IntakeRows' /\ Grows(items, items') /\ approvals' = approvals
  /\ clock \in Nat /\ clock' \in Nat /\ clock <= clock'

\* An item is called upon.
LEMMA CallMeanwhile ==
  ASSUME IntakeRows, NEW i \in Items, CallOn(i), UNCHANGED <<clock, issues, cursor, poller>>
  PROVE  Meanwhile
  <1>1. QueueTypeOK /\ clock \in Nat
    BY IntakeAssumption DEF IntakeAssumption, IntakeRows, IntakeTypeOK, Second
  <1>2. QueueTypeOK' /\ Grows(items, items') /\ approvals' = approvals
    BY <1>1, CallsKeepTypes, CallsGrow
  <1> QED BY <1>1, <1>2, TablesMove DEF Meanwhile

\* Issues are edited and taken in, items are taken and end.
LEMMA TakesInMeanwhile ==
  ASSUME IntakeRows, TakesIn
  PROVE  Meanwhile
  <1>1. MaxTime \in Nat /\ clock \in Second /\ clock \in Nat
    BY IntakeAssumption DEF IntakeAssumption, IntakeRows, IntakeTypeOK, Second
  <1>2. ASSUME NEW x \in Issues, EditIssue(x) PROVE Meanwhile
    <2>1. clock' \in {clock, clock + 1} \ {0} /\ clock' <= MaxTime
      BY <1>2 DEF EditIssue
    <2>2. clock' \in Second /\ clock' \in Nat /\ clock <= clock' /\ clock' # 0
      BY <1>1, <2>1 DEF Second
    <2>3. PICK revision \in Revisions :
            issues' = [issues EXCEPT ![x] = [updated |-> clock', revision |-> revision]]
      BY <1>2 DEF EditIssue
    <2>4. UNCHANGED <<queueVars, cursor, poller>>
      BY <1>2 DEF EditIssue
    <2>5. issues \in [Issues -> [updated : Second, revision : Revisions \cup {None}]]
      BY DEF IntakeRows, IntakeTypeOK
    <2>6. issues' \in [Issues -> [updated : Second, revision : Revisions \cup {None}]]
      BY <2>2, <2>3, <2>5
    <2>7. \A y \in Issues : issues'[y].updated # 0 => issues'[y].revision \in Revisions
      BY <2>3, <2>5 DEF IntakeRows
    <2>8. QueueTypeOK' /\ Grows(items, items') /\ approvals' = approvals
      BY <2>4 DEF queueVars, QueueTypeOK, Grows, IntakeRows, IntakeTypeOK
    <2>9. IntakeRows'
      BY <2>2, <2>4, <2>6, <2>7, <2>8 DEF IntakeRows, IntakeTypeOK
    <2> QED BY <1>1, <2>2, <2>8, <2>9 DEF Meanwhile
  <1>3. ASSUME NEW p \in Pollers, Poll(p) \/ PollFails(p) PROVE Meanwhile
    BY <1>1, <1>3, PollTypes DEF Meanwhile
  <1>4. ASSUME NEW i \in Items, Take(i) \/ (~Configured /\ Finish(i)) \/ Cancel(i) PROVE Meanwhile
    <2>1. CallOn(i) /\ UNCHANGED <<clock, issues, cursor, poller>>
      BY <1>4, QueueAssumption DEF QueueAssumption, Take, Finish, Cancel, CallOn
    <2> QED BY <2>1, CallMeanwhile
  <1> QED BY <1>2, <1>3, <1>4 DEF TakesIn

-----------------------------------------------------------------------------
(* The inductive invariant of the approval provider *)

\* Where the latest signal is well defined: no two of them in one second, and none beyond
\* what a request returns.
Sharp == ~SameSecond /\ MaxVoices <= Feed

\* What was read of a pull request says who made it and for what, which stays so.
Tells(f) ==
  /\ pulls[f.pull].state # "none"
  /\ f.marker = pulls[f.pull].marker /\ f.head = pulls[f.pull].head

\* A record is of a pull request that was approving at some moment of the poll.
FoundOK == {f \in Found : Tells(f)}
RecordOK == {r \in Record : Tells(r) /\ (Sharp => r.pull \in stood)}

\* What a record says is about item i.
Speaking(r, i) ==
  /\ items[i].lifecycle # "none"
  /\ IF r.marker # None THEN SourceOf(i) = r.marker ELSE r.head = <<i, "plan">>
MatchOK == {m \in Match : m.record \in RecordOK /\ \A i \in m.items : Speaking(m.record, i)}

\* Voices come one after the other, and whoever approves has stood.
Heard(x) ==
  LET voices == pulls[x].voices IN
  /\ Len(voices) <= MaxVoices
  /\ \A k \in DOMAIN voices : voices[k].at <= clock
  /\ ~SameSecond => \A j, k \in DOMAIN voices : j < k => voices[j].at < voices[k].at
  /\ Approving(pulls[x]) => x \in stood

\* Comment k takes the place of best.
Later(x, best, k) ==
  /\ pulls[x].voices[k].by = "comment"
  /\ best # None => pulls[x].voices[k].at > best.at

\* Between the two requests: whichever signal will be the latest, if it approves then the pull
\* request has stood.
Known(x, best) ==
  LET voices == pulls[x].voices IN
  /\ best # None => best.at <= clock
  /\ best # None /\ (\A k \in DOMAIN voices : ~Later(x, best, k)) =>
       (best.says = "approve" => x \in stood)
  /\ \A k \in DOMAIN voices :
       Later(x, best, k) /\ (\A j \in DOMAIN voices : k < j => ~Later(x, best, j)) =>
         (voices[k].says = "approve" => x \in stood)

Knows ==
  Sharp /\ asker.pc = "comments" =>
    \A x \in Pulls, best \in Voice \cup {None} :
      x = Head(asker.left).pull /\ best = asker.best => Known(x, best)

PullInv ==
  /\ IntakeRows /\ PullTypeOK
  /\ \A x \in Pulls : Heard(x)
  /\ asker.left \in Seq(FoundOK) /\ asker.records \in Seq(RecordOK) /\ asker.todo \in Seq(MatchOK)
  /\ Knows
  /\ asker.pc = "comments" => asker.left # <<>>
  /\ asker.pc = "approve" => asker.todo # <<>> /\ This.items # {}

-----------------------------------------------------------------------------
(* What a poll knows stays true while others go on *)

\* Nothing is taken from the pull requests that were read, nor from those that stood.
PullsGrow ==
  /\ stood \subseteq stood'
  /\ \A x \in Pulls : pulls[x].state # "none" =>
       /\ pulls'[x].state # "none"
       /\ pulls'[x].marker = pulls[x].marker /\ pulls'[x].head = pulls[x].head

\* So what was read and matched stays so.
LEMMA ReadsStay ==
  ASSUME PullsGrow, Grows(items, items')
  PROVE  /\ FoundOK \subseteq FoundOK' /\ RecordOK \subseteq RecordOK' /\ MatchOK \subseteq MatchOK'
  <1>1. ASSUME NEW f, f.pull \in Pulls, Tells(f) PROVE Tells(f)'
    BY <1>1 DEF Tells, PullsGrow
  <1>2. FoundOK \subseteq FoundOK'
    BY <1>1 DEF FoundOK, Found
  <1>3. RecordOK \subseteq RecordOK'
    BY <1>1 DEF RecordOK, Record, PullsGrow
  <1>4. ASSUME NEW r, NEW i \in Items, Speaking(r, i) PROVE Speaking(r, i)'
    BY <1>4 DEF Speaking, Grows, SourceOf
  <1>5. ASSUME NEW m \in MatchOK PROVE m \in MatchOK'
    <2>1. m \in Match /\ m.record \in RecordOK /\ \A i \in m.items : Speaking(m.record, i)
      BY DEF MatchOK
    <2>2. m.items \subseteq Items
      BY <2>1 DEF Match
    <2>3. m.record \in RecordOK'
      BY <1>3, <2>1
    <2>4. \A i \in m.items : Speaking(m.record, i)'
      BY <1>4, <2>1, <2>2
    <2> QED BY <2>1, <2>3, <2>4 DEF MatchOK
  <1> QED BY <1>2, <1>3, <1>5

\* In lists as well.
LEMMA ListsStay ==
  ASSUME PullsGrow, Grows(items, items'), NEW left \in Seq(FoundOK), NEW records \in Seq(RecordOK),
         NEW todo \in Seq(MatchOK)
  PROVE  left \in Seq(FoundOK') /\ records \in Seq(RecordOK') /\ todo \in Seq(MatchOK')
  BY ReadsStay, SeqMonotonic

\* While nobody speaks on it, what is known of a pull request stays known.
LEMMA KnownStays ==
  ASSUME NEW x \in Pulls, NEW best \in Voice \cup {None}, Known(x, best),
         clock \in Nat, clock' \in Nat, clock <= clock', stood \subseteq stood',
         pulls'[x].voices = pulls[x].voices
  PROVE  Known(x, best)'
  <1>1. MaxTime \in Nat
    BY IntakeAssumption DEF IntakeAssumption
  <1>2. best # None => best.at \in Nat
    BY <1>1 DEF Voice, Second
  <1>3. \A k : Later(x, best, k)' <=> Later(x, best, k)
    BY DEF Later
  <1>4. best # None => best.at <= clock'
    BY <1>2 DEF Known
  <1> QED BY <1>3, <1>4 DEF Known

\* Issues are taken in, items and plans move.
LEMMA OthersKeep ==
  ASSUME PullInv, Meanwhile, UNCHANGED <<pulls, asker, stood, troubles>>,
         plan' \in [Items -> Hashes \cup {None}]
  PROVE  PullInv'
  <1>1. PullsGrow
    BY DEF PullsGrow
  <1>2. asker.left \in Seq(FoundOK') /\ asker.records \in Seq(RecordOK') /\ asker.todo \in Seq(MatchOK')
    BY <1>1, ListsStay DEF PullInv, Meanwhile
  <1>3. /\ MaxTime \in Nat /\ clock \in Nat /\ clock' \in Nat /\ clock <= clock'
        /\ pulls \in [Pulls -> Pull] /\ asker \in Asker
    BY IntakeAssumption DEF IntakeAssumption, Meanwhile, PullInv, PullTypeOK
  <1>4. ASSUME NEW x \in Pulls PROVE Heard(x)'
    <2>1. Heard(x) /\ pulls[x].voices \in Seq(Voice)
      BY <1>3 DEF PullInv, Pull
    <2>2. \A k \in DOMAIN pulls[x].voices : pulls[x].voices[k].at \in Nat
      <3>1. \A v \in Voice : v.at \in Nat
        BY <1>3 DEF Voice, Second
      <3>2. \A k \in DOMAIN pulls[x].voices : pulls[x].voices[k] \in Voice
        BY <2>1
      <3> QED BY <3>1, <3>2
    <2>3. \A k \in DOMAIN pulls[x].voices : pulls[x].voices[k].at <= clock'
      BY <1>3, <2>1, <2>2 DEF Heard
    <2>4. Approving(pulls'[x]) <=> Approving(pulls[x])
      OBVIOUS
    <2> QED BY <2>1, <2>3, <2>4 DEF Heard, Approving
  <1>5. Knows'
    <2> SUFFICES ASSUME Sharp, asker.pc = "comments", NEW x \in Pulls, NEW best \in Voice \cup {None},
                        x = Head(asker.left).pull, best = asker.best
                 PROVE  Known(x, best)'
      BY DEF Knows, Sharp
    <2>1. Known(x, best)
      BY DEF PullInv, Knows
    <2> QED BY <2>1, <1>3, KnownStays
  <1>6. IntakeRows' /\ PullTypeOK'
    BY DEF Meanwhile, PullInv, PullTypeOK, IntakeRows
  <1> QED BY <1>2, <1>4, <1>5, <1>6 DEF PullInv, This

-----------------------------------------------------------------------------
(* What people do to pull requests *)

\* One pull request changes, which has the marker and the head it had.
LEMMA ChangeKeeps ==
  ASSUME PullInv, NEW x \in Pulls, NEW pull \in Pull, Change(x, pull),
         clock' \in Second, clock <= clock',
         pulls[x].state # "none" =>
           pull.state # "none" /\ pull.marker = pulls[x].marker /\ pull.head = pulls[x].head,
         Heard(x)',
         \A best \in Voice \cup {None} :
           pulls[x].state # "none" /\ Sharp /\ Known(x, best) => Known(x, best)'
  PROVE  PullInv'
  <1> DEFINE new == [pull EXCEPT !.updated = clock']
  <1>1. /\ MaxTime \in Nat /\ clock \in Nat /\ clock' \in Nat
        /\ pulls \in [Pulls -> Pull] /\ asker \in Asker /\ stood \subseteq Pulls
    BY IntakeAssumption DEF IntakeAssumption, PullInv, PullTypeOK, IntakeTypeOK, Second
  <1>2. /\ new \in Pull /\ new.state = pull.state /\ new.marker = pull.marker
        /\ new.head = pull.head /\ new.voices = pull.voices
    BY DEF Pull
  <1>3. /\ pulls' = [pulls EXCEPT ![x] = new]
        /\ stood' = IF Approving(pull) THEN stood \cup {x} ELSE stood
        /\ UNCHANGED <<queueVars, issues, cursor, poller, plan, asker, troubles>>
    BY DEF Change
  <1> HIDE DEF new
  <1>4. /\ pulls'[x] = new /\ \A y \in Pulls : y # x => pulls'[y] = pulls[y]
        /\ pulls' \in [Pulls -> Pull]
    BY <1>1, <1>2, <1>3
  <1>5. PullsGrow
    BY <1>2, <1>3, <1>4 DEF PullsGrow
  <1>6. items' = items /\ asker' = asker /\ Grows(items, items')
    BY <1>3 DEF queueVars, Grows
  <1>7. asker.left \in Seq(FoundOK') /\ asker.records \in Seq(RecordOK') /\ asker.todo \in Seq(MatchOK')
    BY <1>5, <1>6, ListsStay DEF PullInv
  <1>8. IntakeRows' /\ PullTypeOK'
    <2>1. QueueTypeOK'
      BY <1>3 DEF PullInv, IntakeRows, IntakeTypeOK, queueVars, QueueTypeOK
    <2>2. IntakeTypeOK'
      BY <1>3, <2>1 DEF PullInv, IntakeRows, IntakeTypeOK
    <2>3. IntakeRows'
      BY <1>3, <2>2 DEF PullInv, IntakeRows
    <2>4. stood' \subseteq Pulls
      BY <1>1, <1>3
    <2> QED BY <1>3, <1>4, <2>2, <2>3, <2>4 DEF PullInv, PullTypeOK
  <1>9. ASSUME NEW y \in Pulls PROVE Heard(y)'
    <2>1. CASE y = x
      BY <2>1
    <2>2. CASE y # x
      <3>1. Heard(y) /\ pulls[y].voices \in Seq(Voice) /\ pulls'[y] = pulls[y]
        BY <1>1, <1>4, <2>2 DEF PullInv, Pull
      <3>2. \A v \in Voice : v.at \in Nat
        BY <1>1 DEF Voice, Second
      <3>3. \A k \in DOMAIN pulls[y].voices : pulls[y].voices[k].at \in Nat
        BY <3>1, <3>2
      <3>4. \A k \in DOMAIN pulls[y].voices : pulls[y].voices[k].at <= clock'
        BY <1>1, <3>1, <3>3 DEF Heard
      <3> QED BY <1>5, <3>1, <3>4 DEF Heard, Approving, PullsGrow
    <2> QED BY <2>1, <2>2
  <1>10. Knows'
    <2> SUFFICES ASSUME Sharp, asker.pc = "comments", NEW y \in Pulls, NEW best \in Voice \cup {None},
                        y = Head(asker.left).pull, best = asker.best
                 PROVE  Known(y, best)'
      BY <1>6 DEF Knows, Sharp
    <2>1. Known(y, best)
      BY DEF PullInv, Knows
    <2>2. pulls[y].state # "none"
      <3>1. asker.left # <<>> /\ asker.left \in Seq(FoundOK)
        BY DEF PullInv
      <3>2. Head(asker.left) \in FoundOK
        BY <3>1, HeadTailProperties
      <3> QED BY <3>2 DEF FoundOK, Tells
    <2>3. CASE y = x
      BY <2>1, <2>2, <2>3
    <2>4. CASE y # x
      <3>1. pulls'[y].voices = pulls[y].voices /\ stood \subseteq stood'
        BY <1>4, <1>5, <2>4 DEF PullsGrow
      <3> QED BY <1>1, <2>1, <3>1, KnownStays
    <2> QED BY <2>3, <2>4
  <1> QED BY <1>6, <1>7, <1>8, <1>9, <1>10 DEF PullInv, This

\* Where its voices stay, all else about it may change.
LEMMA SameVoices ==
  ASSUME PullInv, NEW x \in Pulls, NEW pull \in Pull, Change(x, pull), UNCHANGED clock,
         pull.voices = pulls[x].voices,
         pulls[x].state # "none" =>
           pull.state # "none" /\ pull.marker = pulls[x].marker /\ pull.head = pulls[x].head
  PROVE  PullInv'
  <1>1. /\ pulls \in [Pulls -> Pull] /\ clock \in Second /\ MaxTime \in Nat /\ Heard(x)
    BY IntakeAssumption DEF IntakeAssumption, PullInv, PullTypeOK, IntakeTypeOK
  <1>2. clock \in Nat /\ clock <= clock
    BY <1>1 DEF Second
  <1>3. pulls'[x].voices = pulls[x].voices /\ stood \subseteq stood'
    BY <1>1 DEF Change, Pull
  <1>4. Heard(x)'
    BY <1>1, <1>3 DEF Heard, Approving
  <1>5. \A best \in Voice \cup {None} : Known(x, best) => Known(x, best)'
    BY <1>2, <1>3, KnownStays
  <1> QED BY <1>1, <1>2, <1>4, <1>5, ChangeKeeps

\* A pull request is opened, made ready or closed.
LEMMA MoveKeeps ==
  ASSUME PullInv, NEW x \in Pulls, OpenPull(x) \/ MovePull(x)
  PROVE  PullInv'
  <1>1. pulls \in [Pulls -> Pull] /\ pulls[x] \in Pull
    BY DEF PullInv, PullTypeOK
  <1>2. ASSUME pulls[x].state = "none", NEW marker \in Issues \cup {None}, NEW head \in Heads,
               NEW state \in {"draft", "open"}, UNCHANGED clock,
               Change(x, [NoPull EXCEPT !.state = state, !.marker = marker, !.head = head])
        PROVE  PullInv'
    <2> DEFINE pull == [NoPull EXCEPT !.state = state, !.marker = marker, !.head = head]
    <2>1. MaxTime \in Nat
      BY IntakeAssumption DEF IntakeAssumption
    <2>2. NoPull \in Pull /\ NoPull.voices = <<>>
      BY <2>1 DEF NoPull, Pull, Heads, Second
    <2>3. pull \in Pull /\ pull.voices = <<>>
      BY <2>2 DEF Pull
    <2>4. Change(x, pull)
      BY <1>2
    <2> HIDE DEF pull
    <2>5. MaxVoices \in Nat /\ clock \in Second /\ clock <= clock
      BY PullAssumption, <2>1 DEF PullAssumption, PullInv, PullTypeOK, IntakeTypeOK, Second
    <2>6. Heard(x)'
      <3>1. pulls'[x].voices = <<>>
        BY <1>1, <2>3, <2>4 DEF Change, Pull
      <3> QED BY <3>1, <2>5 DEF Heard, Approving
    <2> QED BY <1>2, <2>3, <2>4, <2>5, <2>6, ChangeKeeps
  <1>3. ASSUME NEW old \in {"draft", "open"}, NEW state \in {"open", "closed"},
               pulls[x].state = old, UNCHANGED clock,
               Change(x, [pulls[x] EXCEPT !.state = state])
        PROVE  PullInv'
    <2> DEFINE pull == [pulls[x] EXCEPT !.state = state]
    <2>1. /\ pull \in Pull /\ pull.voices = pulls[x].voices /\ pull.state # "none"
          /\ pull.marker = pulls[x].marker /\ pull.head = pulls[x].head
      BY <1>1 DEF Pull
    <2>2. Change(x, pull)
      BY <1>3
    <2> HIDE DEF pull
    <2> QED BY <1>3, <2>1, <2>2, SameVoices
  <1>4. CASE OpenPull(x)
    BY <1>2, <1>4 DEF OpenPull
  <1>5. CASE MovePull(x)
    BY <1>3, <1>5 DEF MovePull
  <1> QED BY <1>4, <1>5

\* A voice is added, later than all others.  If it approves the pull request stands.
LEMMA SpeakKeeps ==
  ASSUME PullInv, NEW x \in Pulls, Speak(x)
  PROVE  PullInv'
  <1> DEFINE voices == pulls[x].voices
             n == Len(voices)
  <1>1. /\ pulls \in [Pulls -> Pull] /\ pulls[x] \in Pull /\ voices \in Seq(Voice)
        /\ MaxTime \in Nat /\ MaxVoices \in Nat /\ clock \in Second /\ clock \in Nat /\ Heard(x)
    BY IntakeAssumption, PullAssumption
       DEF IntakeAssumption, PullAssumption, PullInv, PullTypeOK, IntakeTypeOK, Pull, Second
  <1>2. /\ pulls[x].state # "none" /\ n < MaxVoices
        /\ clock' \in {clock, clock + 1} /\ (~SameSecond => clock' = clock + 1)
        /\ clock' <= MaxTime
    BY DEF Speak
  <1>3. clock' \in Second /\ clock' \in Nat /\ clock <= clock'
    BY <1>1, <1>2 DEF Second
  <1>4. PICK voice \in Voice : /\ voice.at = clock'
                               /\ Change(x, [pulls[x] EXCEPT !.voices = Append(voices, voice)])
    <2>1. PICK by \in {"review", "comment"}, says \in {"approve", "deny"} :
            Change(x, [pulls[x] EXCEPT !.voices =
                         Append(voices, [by |-> by, says |-> says, at |-> clock'])])
      BY DEF Speak
    <2>2. [by |-> by, says |-> says, at |-> clock'] \in Voice
      BY <1>3 DEF Voice
    <2> QED BY <2>1, <2>2
  <1> DEFINE pull == [pulls[x] EXCEPT !.voices = Append(voices, voice)]
  <1>5. /\ Append(voices, voice) \in Seq(Voice) /\ Len(Append(voices, voice)) = n + 1
        /\ \A k \in 1 .. n : Append(voices, voice)[k] = voices[k]
        /\ Append(voices, voice)[n + 1] = voice /\ n \in Nat
    BY <1>1
  <1>6. /\ pull \in Pull /\ pull.voices = Append(voices, voice) /\ pull.state = pulls[x].state
        /\ pull.marker = pulls[x].marker /\ pull.head = pulls[x].head
    BY <1>1, <1>5 DEF Pull
  <1>7. Change(x, pull)
    BY <1>4
  <1> HIDE DEF pull
  <1>8. /\ pulls'[x].voices = Append(voices, voice) /\ stood \subseteq stood'
        /\ Approving(pull) => x \in stood'
    BY <1>1, <1>6, <1>7 DEF Change, Pull
  <1>9. voice.says = "approve" => Approving(pull)
    BY <1>5, <1>6 DEF Approving, Last
  <1> DEFINE now == pulls'[x].voices
  <1>10. /\ DOMAIN voices = 1 .. n /\ DOMAIN now = 1 .. n + 1 /\ Len(now) = n + 1
         /\ \A k \in 1 .. n : now[k] = voices[k]
         /\ now[n + 1] = voice
    BY <1>1, <1>5, <1>8
  <1>11. \A k \in 1 .. n : voices[k].at \in Nat /\ voices[k].at <= clock
    <2>1. \A v \in Voice : v.at \in Nat
      BY <1>1 DEF Voice, Second
    <2>2. \A k \in 1 .. n : voices[k] \in Voice
      BY <1>1, <1>10
    <2> QED BY <1>1, <1>10, <2>1, <2>2 DEF Heard
  <1>12. Approving(pulls'[x]) <=> Approving(pull)
    BY <1>6, <1>8 DEF Approving
  <1> HIDE DEF voices, n, now
  <1>13. /\ n + 1 <= MaxVoices /\ \A k \in 1 .. n + 1 : k = n + 1 \/ k \in 1 .. n
    BY <1>1, <1>2, <1>5
  <1>14. \A k \in 1 .. n + 1 : now[k].at <= clock'
    BY <1>1, <1>3, <1>4, <1>10, <1>11, <1>13
  <1>15. ~SameSecond => \A j, k \in 1 .. n + 1 : j < k => now[j].at < now[k].at
    <2> SUFFICES ASSUME ~SameSecond, NEW j \in 1 .. n + 1, NEW k \in 1 .. n + 1, j < k
                 PROVE  now[j].at < now[k].at
      OBVIOUS
    <2>1. j \in 1 .. n
      BY <1>5
    <2>2. CASE k = n + 1
      BY <2>1, <2>2, <1>1, <1>2, <1>4, <1>10, <1>11
    <2>3. CASE k # n + 1
      <3>1. k \in 1 .. n
        BY <2>3, <1>13
      <3>2. voices[j].at < voices[k].at
        BY <2>1, <3>1, <1>1, <1>10 DEF Heard, voices
      <3> QED BY <2>1, <3>1, <3>2, <1>10
    <2> QED BY <2>2, <2>3
  <1>16. Heard(x)'
    <2>1. Len(now) <= MaxVoices
      BY <1>10, <1>13
    <2>2. Approving(pulls'[x]) => x \in stood'
      BY <1>8, <1>12
    <2> QED BY <1>10, <1>14, <1>15, <2>1, <2>2 DEF Heard, now
  <1>17. ASSUME NEW best \in Voice \cup {None}, Known(x, best)
         PROVE  Known(x, best)'
    <2>1. \A k \in 1 .. n : Later(x, best, k)' <=> Later(x, best, k)
      BY <1>10 DEF Later, voices, now
    <2>2. best # None => best.at <= clock'
      <3>1. best # None => best.at \in Nat
        BY <1>1 DEF Voice, Second
      <3> QED BY <3>1, <1>1, <1>3, <1>17 DEF Known
    <2>3. ASSUME best # None, \A k \in 1 .. n + 1 : ~Later(x, best, k)', best.says = "approve"
          PROVE  x \in stood'
      <3>1. \A k \in 1 .. n : ~Later(x, best, k)
        BY <2>1, <2>3, <1>5
      <3> QED BY <3>1, <2>3, <1>8, <1>10, <1>17 DEF Known, voices
    <2>4. ASSUME NEW k \in 1 .. n + 1, Later(x, best, k)',
                 \A j \in 1 .. n + 1 : k < j => ~Later(x, best, j)',
                 now[k].says = "approve"
          PROVE  x \in stood'
      <3>1. CASE k = n + 1
        BY <3>1, <2>4, <1>8, <1>9, <1>10
      <3>2. CASE k # n + 1
        <4>1. k \in 1 .. n
          BY <3>2, <1>13
        <4>2. Later(x, best, k) /\ \A j \in 1 .. n : k < j => ~Later(x, best, j)
          BY <4>1, <2>1, <2>4, <1>5
        <4>3. voices[k].says = "approve"
          BY <4>1, <2>4, <1>10
        <4> QED BY <4>1, <4>2, <4>3, <1>8, <1>10, <1>17 DEF Known, voices
      <3> QED BY <3>1, <3>2
    <2> QED BY <2>2, <2>3, <2>4, <1>10 DEF Known, now
  <1> QED BY <1>2, <1>3, <1>6, <1>7, <1>16, <1>17, ChangeKeeps

\* A review that approved is dismissed: it no longer approves, and nothing else changes.
LEMMA DismissKeeps ==
  ASSUME PullInv, NEW x \in Pulls, Dismiss(x)
  PROVE  PullInv'
  <1> DEFINE voices == pulls[x].voices
             n == Len(voices)
  <1>1. /\ pulls \in [Pulls -> Pull] /\ pulls[x] \in Pull /\ voices \in Seq(Voice)
        /\ MaxTime \in Nat /\ clock \in Second /\ clock \in Nat /\ Heard(x)
    BY IntakeAssumption DEF IntakeAssumption, PullInv, PullTypeOK, IntakeTypeOK, Pull, Second
  <1>2. n \in Nat /\ DOMAIN voices = 1 .. n /\ UNCHANGED clock /\ clock <= clock
    BY <1>1 DEF Dismiss
  <1>3. PICK d \in 1 .. n :
          /\ voices[d].by = "review" /\ voices[d].says = "approve"
          /\ Change(x, [pulls[x] EXCEPT !.voices[d].says = "deny"])
    BY <1>2 DEF Dismiss
  <1> DEFINE denied == [voices[d] EXCEPT !.says = "deny"]
             now == [voices EXCEPT ![d] = denied]
             pull == [pulls[x] EXCEPT !.voices = now]
  <1>4. pull = [pulls[x] EXCEPT !.voices[d].says = "deny"]
    OBVIOUS
  <1>5. /\ voices[d] \in Voice /\ denied \in Voice /\ denied.by = "review" /\ denied.says = "deny"
        /\ denied.at = voices[d].at
    <2>1. voices[d] \in Voice
      BY <1>1, <1>2
    <2> HIDE DEF voices
    <2> QED BY <2>1, <1>3 DEF Voice
  <1> HIDE DEF denied
  <1>6. /\ now \in Seq(Voice) /\ Len(now) = n /\ DOMAIN now = 1 .. n
        /\ \A k \in 1 .. n : now[k] = IF k = d THEN denied ELSE voices[k]
    <2> HIDE DEF voices
    <2>1. /\ now \in Seq(Voice) /\ Len(now) = Len(voices)
          /\ \A k \in 1 .. Len(voices) : now[k] = IF k = d THEN denied ELSE voices[k]
      BY <1>1, <1>5, ExceptSeq
    <2> HIDE DEF now
    <2> QED BY <2>1, <1>2
  <1> HIDE DEF now, voices, n
  <1>7. /\ pull \in Pull /\ pull.voices = now /\ pull.state = pulls[x].state
        /\ pull.marker = pulls[x].marker /\ pull.head = pulls[x].head
    BY <1>1, <1>6 DEF Pull
  <1>8. Change(x, pull)
    BY <1>3, <1>4
  <1> HIDE DEF pull
  <1>9. /\ pulls'[x].voices = now /\ stood \subseteq stood'
        /\ Approving(pulls'[x]) => x \in stood'
    BY <1>1, <1>7, <1>8 DEF Change, Pull, Approving
  <1>10. \A k \in 1 .. n : /\ now[k].by = voices[k].by /\ now[k].at = voices[k].at
                           /\ now[k].by = "comment" => now[k] = voices[k]
    BY <1>3, <1>5, <1>6
  <1>11. Heard(x)'
    BY <1>1, <1>2, <1>6, <1>9, <1>10 DEF Heard, voices, n
  <1>12. ASSUME NEW best \in Voice \cup {None}, Known(x, best)
         PROVE  Known(x, best)'
    <2>1. \A k \in 1 .. n : Later(x, best, k)' <=> Later(x, best, k)
      BY <1>9, <1>10 DEF Later, voices
    <2>2. \A k \in 1 .. n : Later(x, best, k) => now[k] = voices[k]
      BY <1>10 DEF Later, voices
    <2>3. best # None => best.at <= clock'
      BY <1>2, <1>12 DEF Known
    <2>4. best # None /\ (\A k \in 1 .. n : ~Later(x, best, k)') =>
            (best.says = "approve" => x \in stood')
      BY <2>1, <1>2, <1>9, <1>12 DEF Known, voices
    <2>5. \A k \in 1 .. n :
            Later(x, best, k)' /\ (\A j \in 1 .. n : k < j => ~Later(x, best, j)') =>
              (now[k].says = "approve" => x \in stood')
      BY <2>1, <2>2, <1>2, <1>9, <1>12 DEF Known, voices
    <2> QED BY <2>3, <2>4, <2>5, <1>6, <1>9 DEF Known
  <1> QED BY <1>1, <1>2, <1>7, <1>8, <1>11, <1>12, ChangeKeeps

-----------------------------------------------------------------------------
(* The steps of the provider *)

\* The provider or its poller moves: what it holds is well formed, true and known.
LEMMA AskKeeps ==
  ASSUME PullInv, IntakeRows', UNCHANGED <<items, clock, pulls, plan, stood>>,
         troubles' \in 0 .. MaxTroubles, NEW me \in Asker, asker' = me,
         me.left \in Seq(FoundOK), me.records \in Seq(RecordOK), me.todo \in Seq(MatchOK),
         me.pc = "comments" => me.left # <<>>,
         me.pc = "comments" /\ Sharp =>
           \A x \in Pulls, best \in Voice \cup {None} :
             x = Head(me.left).pull /\ best = me.best => Known(x, best),
         me.pc = "approve" => me.todo # <<>> /\ Head(me.todo).items # {}
  PROVE  PullInv'
  <1>1. FoundOK' = FoundOK /\ RecordOK' = RecordOK /\ MatchOK' = MatchOK
    <2>1. \A f : Tells(f)' <=> Tells(f)
      BY DEF Tells
    <2>2. \A r, i : Speaking(r, i)' <=> Speaking(r, i)
      BY DEF Speaking, SourceOf
    <2>3. FoundOK' = FoundOK
      BY <2>1 DEF FoundOK
    <2>4. RecordOK' = RecordOK
      BY <2>1 DEF RecordOK
    <2> QED BY <2>2, <2>3, <2>4 DEF MatchOK
  <1>2. \A x \in Pulls : Heard(x)'
    BY DEF PullInv, Heard, Approving
  <1>3. Knows'
    <2> SUFFICES ASSUME Sharp, me.pc = "comments", NEW x \in Pulls, NEW best \in Voice \cup {None},
                        x = Head(me.left).pull, best = me.best
                 PROVE  Known(x, best)'
      BY DEF Knows, Sharp
    <2>1. Known(x, best)
      OBVIOUS
    <2>2. \A k : Later(x, best, k)' <=> Later(x, best, k)
      BY DEF Later
    <2> QED BY <2>1, <2>2 DEF Known
  <1>4. PullTypeOK'
    BY DEF PullInv, PullTypeOK, IntakeRows
  <1> QED BY <1>1, <1>2, <1>3, <1>4 DEF PullInv, This

\* Most of its steps touch nothing else.
LEMMA AsksKeep ==
  ASSUME PullInv, UNCHANGED <<intakeVars, pulls, plan, stood>>
  PROVE  /\ IntakeRows' /\ UNCHANGED <<items, approvals, clock, pulls, plan, stood>>
         /\ asker \in Asker /\ troubles \in 0 .. MaxTroubles
  <1>1. UNCHANGED <<queueVars, leases, items, phases, approvals, clock, issues, cursor, poller>>
    BY DEF intakeVars, queueVars
  <1> HIDE DEF queueVars
  <1>2. QueueTypeOK'
    BY <1>1 DEF PullInv, IntakeRows, IntakeTypeOK, QueueTypeOK
  <1> QED BY <1>1, <1>2 DEF PullInv, PullTypeOK, IntakeRows, IntakeTypeOK

\* At rest nothing is held.
LEMMA RestIs ==
  /\ Resting \in Asker /\ Resting.left = <<>> /\ Resting.records = <<>> /\ Resting.todo = <<>>
  /\ Resting.pc = "idle" /\ Resting.best = None /\ Resting.hash = None
  BY IntakeAssumption DEF IntakeAssumption, Resting, Asker

\* A poll begins: what approves now stands.
LEMMA BeginAskKeeps ==
  ASSUME PullInv, BeginAsk
  PROVE  PullInv'
  <1> DEFINE me == [Resting EXCEPT !.pc = "pulls"]
  <1>1. /\ UNCHANGED <<intakeVars, pulls, plan, troubles>> /\ asker' = me
        /\ stood' = {x \in Pulls : Approving(pulls[x])}
    BY DEF BeginAsk, Asks
  <1>2. UNCHANGED <<queueVars, leases, items, phases, approvals, clock, issues, cursor, poller>>
    BY <1>1 DEF intakeVars, queueVars
  <1>3. IntakeRows'
    BY <1>2 DEF PullInv, IntakeRows, IntakeTypeOK, QueueTypeOK
  <1>4. me \in Asker /\ me.left = <<>> /\ me.records = <<>> /\ me.todo = <<>> /\ me.pc = "pulls"
    BY RestIs DEF Asker
  <1> HIDE DEF me
  <1>5. PullTypeOK'
    <2>1. pulls' \in [Pulls -> Pull] /\ plan' \in [Items -> Hashes \cup {None}] /\ troubles' \in 0 .. MaxTroubles
      BY <1>1 DEF PullInv, PullTypeOK
    <2> QED BY <1>1, <1>3, <1>4, <2>1 DEF PullTypeOK, IntakeRows
  <1>6. \A x \in Pulls : Heard(x)'
    BY <1>1, <1>2 DEF PullInv, Heard, Approving
  <1>7. Knows'
    BY <1>1, <1>4 DEF Knows
  <1> QED BY <1>1, <1>3, <1>4, <1>5, <1>6, <1>7 DEF PullInv, This

\* Pull requests are listed, and those that are eligible are read.
LEMMA AskPullsKeeps ==
  ASSUME PullInv, AskPulls
  PROVE  PullInv'
  <1>1. UNCHANGED <<intakeVars, pulls, plan, stood, troubles>> /\ asker.pc = "pulls"
    BY DEF AskPulls, Asks
  <1>2. /\ IntakeRows' /\ UNCHANGED <<items, clock, pulls, plan, stood>>
        /\ asker \in Asker /\ troubles' \in 0 .. MaxTroubles
    BY <1>1, AsksKeep
  <1> DEFINE S == {x \in Pulls : pulls[x].state \in {"draft", "open"}}
  <1>3. PICK list \in Listings(S) :
          LET page == Page(list, asker.page)
              more == Len(page) = PerPage /\ asker.page < MaxPages
          IN \E found \in Listings({x \in ToSet(page) : Eligible(pulls[x])}) :
            asker' = [asker EXCEPT
              !.pc = IF more THEN "pulls" ELSE "reviews",
              !.page = IF more THEN @ + 1 ELSE @,
              !.left = @ \o [k \in DOMAIN found |->
                 [pull |-> found[k], marker |-> pulls[found[k]].marker,
                  head |-> pulls[found[k]].head]]]
    BY DEF AskPulls
  <1> DEFINE page == Page(list, asker.page)
             more == Len(page) = PerPage /\ asker.page < MaxPages
             F == {x \in ToSet(page) : Eligible(pulls[x])}
  <1>4. PICK found \in Listings(F) :
          asker' = [asker EXCEPT
            !.pc = IF more THEN "pulls" ELSE "reviews",
            !.page = IF more THEN @ + 1 ELSE @,
            !.left = @ \o [k \in DOMAIN found |->
               [pull |-> found[k], marker |-> pulls[found[k]].marker,
                head |-> pulls[found[k]].head]]]
    BY <1>3
  <1> DEFINE read == [k \in DOMAIN found |->
                        [pull |-> found[k], marker |-> pulls[found[k]].marker,
                         head |-> pulls[found[k]].head]]
             me == [asker EXCEPT !.pc = IF more THEN "pulls" ELSE "reviews",
                                 !.page = IF more THEN asker.page + 1 ELSE asker.page,
                                 !.left = asker.left \o read]
  <1>5. asker' = me
    BY <1>4
  <1>6. /\ asker.page \in 1 .. MaxPages /\ asker.page \in Nat \ {0} /\ MaxPages \in Nat
        /\ IsFiniteSet(Pulls) /\ pulls \in [Pulls -> Pull]
    BY <1>2, IntakeAssumption, PullAssumption
       DEF IntakeAssumption, PullAssumption, Asker, PullInv, PullTypeOK
  <1>7. ASSUME NEW T, T \subseteq Pulls, NEW l \in Listings(T)
        PROVE  l \in Seq(T) /\ DOMAIN l = 1 .. Cardinality(T) /\ Cardinality(T) \in Nat
               /\ l \in [1 .. Cardinality(T) -> T]
    <2>1. Cardinality(T) \in Nat
      BY <1>6, <1>7, FS_Subset, FS_CardinalityType
    <2>2. l \in [1 .. Cardinality(T) -> T]
      BY <1>7 DEF Listings
    <2> QED BY <2>1, <2>2
  <1>8. S \subseteq Pulls
    OBVIOUS
  <1> HIDE DEF S
  <1>9. list \in Seq(S)
    BY <1>7, <1>8
  <1>10. ToSet(page) \subseteq S
    BY <1>6, <1>9, PageIs
  <1> HIDE DEF page
  <1>11. F \subseteq Pulls /\ \A x \in F : pulls[x].state # "none"
    BY <1>8, <1>10 DEF Eligible
  <1> HIDE DEF F
  <1>12. read \in Seq(FoundOK)
    <2> DEFINE m == Cardinality(F)
    <2>1. m \in Nat /\ DOMAIN found = 1 .. m /\ found \in [1 .. m -> F]
      BY <1>7, <1>11
    <2>2. ASSUME NEW k \in 1 .. m
          PROVE  [pull |-> found[k], marker |-> pulls[found[k]].marker,
                  head |-> pulls[found[k]].head] \in FoundOK
      <3>1. found[k] \in Pulls /\ pulls[found[k]].state # "none" /\ pulls[found[k]] \in Pull
        BY <2>1, <1>6, <1>11
      <3> QED BY <3>1 DEF FoundOK, Found, Tells, Pull
    <2>3. read \in [1 .. m -> FoundOK]
      BY <2>1, <2>2
    <2> HIDE DEF read, m
    <2> QED BY <2>1, <2>3
  <1> HIDE DEF read
  <1>13. asker.left \in Seq(FoundOK) /\ asker.records \in Seq(RecordOK) /\ asker.todo \in Seq(MatchOK)
    BY DEF PullInv
  <1>14. asker.left \o read \in Seq(FoundOK)
    BY <1>12, <1>13, ConcatProperties
  <1>15. asker.left \o read \in Seq(Found)
    BY <1>14, SeqMonotonic DEF FoundOK
  <1>16. (IF more THEN asker.page + 1 ELSE asker.page) \in 1 .. MaxPages
    BY <1>6
  <1>17. (IF more THEN "pulls" ELSE "reviews") \in {"pulls", "reviews"}
    OBVIOUS
  <1> HIDE DEF more
  <1>18. /\ me \in Asker /\ me.left = asker.left \o read /\ me.records = asker.records
         /\ me.todo = asker.todo /\ me.pc \notin {"comments", "approve"}
    BY <1>2, <1>15, <1>16, <1>17 DEF Asker
  <1> HIDE DEF me
  <1> QED BY <1>2, <1>5, <1>13, <1>14, <1>18, AskKeeps

\* The last of the voices speaks for the pull request.
LEMMA LastStands ==
  ASSUME NEW x \in Pulls, pulls[x].voices \in Seq(Voice), Heard(x),
         NEW k \in DOMAIN pulls[x].voices, \A j \in DOMAIN pulls[x].voices : ~(k < j),
         pulls[x].voices[k].says = "approve"
  PROVE  x \in stood
  <1> DEFINE voices == pulls[x].voices
  <1>1. Len(voices) \in Nat /\ DOMAIN voices = 1 .. Len(voices)
    OBVIOUS
  <1>2. k = Len(voices)
    <2> DEFINE n == Len(voices)
    <2>1. n \in Nat /\ k \in 1 .. n /\ \A j \in 1 .. n : ~(k < j)
      BY <1>1
    <2> HIDE DEF n
    <2>2. n \in 1 .. n
      BY <2>1
    <2>3. k = n
      BY <2>1, <2>2
    <2> QED BY <2>3 DEF n
  <1>3. voices # <<>> /\ Last(voices) = voices[k]
    BY <1>1, <1>2 DEF Last
  <1> QED BY <1>3 DEF Heard, Approving

\* A request returns the whole feed.
LEMMA FeedIs ==
  ASSUME Sharp, NEW x \in Pulls, pulls[x].voices \in Seq(Voice), Heard(x), NEW kind
  PROVE  FirstOfFeed(x, kind) = {k \in DOMAIN pulls[x].voices : pulls[x].voices[k].by = kind}
  <1> DEFINE voices == pulls[x].voices
             n == Len(voices)
             feed == {k \in DOMAIN voices : voices[k].by = kind}
  <1>1. n \in Nat /\ DOMAIN voices = 1 .. n
    OBVIOUS
  <1>2. n <= Feed /\ Feed \in Nat
    BY <1>1, PullAssumption DEF PullAssumption, Heard, Sharp
  <1>3. IsFiniteSet(1 .. n) /\ Cardinality(1 .. n) <= Feed
    <2> HIDE DEF n
    <2>1. 1 \in Int /\ n \in Int
      BY <1>1
    <2>2. IsFiniteSet(1 .. n) /\ Cardinality(1 .. n) = IF 1 > n THEN 0 ELSE n - 1 + 1
      BY <2>1, FS_Interval
    <2> QED BY <2>2, <1>1, <1>2
  <1>4. ASSUME NEW k \in feed PROVE Cardinality({j \in feed : j <= k}) <= Feed
    <2> DEFINE before == {j \in feed : j <= k}
    <2>1. before \subseteq 1 .. n
      BY <1>1
    <2> HIDE DEF before, n
    <2>2. /\ Cardinality(before) <= Cardinality(1 .. n) /\ Cardinality(before) \in Nat
          /\ Cardinality(1 .. n) \in Nat
      BY <2>1, <1>3, FS_Subset, FS_CardinalityType
    <2>3. Cardinality(before) <= Feed
      BY <2>2, <1>2, <1>3
    <2> QED BY <2>3 DEF before
  <1> QED BY <1>4 DEF FirstOfFeed

\* The last review is read: if it approves and no comment is later, or if the last comment after
\* it approves, the pull request approves and stands.
LEMMA ReviewKnown ==
  ASSUME Sharp, NEW x \in Pulls, pulls[x].voices \in Seq(Voice), Heard(x), MaxTime \in Nat,
         NEW best, best = IF FirstOfFeed(x, "review") = {} THEN None
                          ELSE pulls[x].voices[Max(FirstOfFeed(x, "review"))]
  PROVE  Known(x, best)
  <1> DEFINE voices == pulls[x].voices
             n == Len(voices)
             reviews == {k \in 1 .. n : voices[k].by = "review"}
  <1>1. n \in Nat /\ DOMAIN voices = 1 .. n
    OBVIOUS
  <1>2. \A k \in 1 .. n : /\ voices[k] \in Voice /\ voices[k].at \in Nat
                          /\ voices[k].by \in {"review", "comment"}
    <2>1. \A v \in Voice : v.at \in Nat /\ v.by \in {"review", "comment"}
      BY DEF Voice, Second
    <2>2. \A k \in 1 .. n : voices[k] \in Voice
      BY <1>1
    <2> QED BY <2>1, <2>2
  <1>3. FirstOfFeed(x, "review") = reviews
    BY <1>1, FeedIs
  <1>4. /\ \A k \in 1 .. n : voices[k].at <= clock
        /\ \A j, k \in 1 .. n : j < k => voices[j].at < voices[k].at
    BY <1>1 DEF Heard, Sharp
  <1>5. \A k \in 1 .. n : (\A j \in 1 .. n : ~(k < j)) /\ voices[k].says = "approve" => x \in stood
    BY <1>1, LastStands
  <1> HIDE DEF voices, n
  <1>6. CASE reviews = {}
    <2>1. best = None
      BY <1>3, <1>6
    <2>2. \A k \in 1 .. n : voices[k].by = "comment"
      BY <1>2, <1>6
    <2>3. \A k \in 1 .. n : Later(x, best, k)
      BY <2>1, <2>2 DEF Later, voices
    <2> QED BY <1>1, <1>5, <2>1, <2>3 DEF Known, voices
  <1>7. CASE reviews # {}
    <2> DEFINE r == Max(reviews)
    <2>1. r \in reviews /\ \A k \in reviews : k <= r
      <3>1. reviews \subseteq 0 .. n /\ reviews \subseteq 1 .. n
        BY <1>1
      <3> HIDE DEF reviews
      <3>2. r \in reviews /\ \A k \in reviews : r >= k
        BY <3>1, <1>1, <1>7, MaxIs
      <3> HIDE DEF r
      <3> QED BY <3>1, <3>2, <1>1
    <2>2. best = voices[r]
      BY <1>3, <1>7 DEF voices
    <2> HIDE DEF r, reviews
    <2>3. r \in 1 .. n /\ \A k \in 1 .. n : r < k => voices[k].by = "comment"
      BY <1>2, <2>1 DEF reviews
    <2>4. best # None /\ best.at = voices[r].at
      BY <1>2, <2>2, <2>3, VoiceAssumption
    <2>5. \A k \in 1 .. n : r < k => Later(x, best, k)
      BY <2>3, <2>4, <1>4 DEF Later, voices
    <2>6. \A k \in 1 .. n : Later(x, best, k) => r < k
      <3> SUFFICES ASSUME NEW k \in 1 .. n, Later(x, best, k), ~(r < k) PROVE FALSE
        OBVIOUS
      <3>1. voices[k].at > voices[r].at
        BY <2>4 DEF Later, voices
      <3>2. k = r \/ voices[k].at < voices[r].at
        BY <1>1, <1>4, <2>3
      <3> QED BY <3>1, <3>2, <1>2, <2>3
    <2>7. best.at <= clock
      BY <1>4, <2>3, <2>4
    <2>8. (\A k \in 1 .. n : ~Later(x, best, k)) => (best.says = "approve" => x \in stood)
      BY <2>2, <2>3, <2>5, <1>5
    <2>9. ASSUME NEW k \in 1 .. n, Later(x, best, k), \A j \in 1 .. n : k < j => ~Later(x, best, j),
                 voices[k].says = "approve"
          PROVE  x \in stood
      <3>1. \A j \in 1 .. n : ~(k < j)
        BY <2>3, <2>5, <2>6, <2>9
      <3> QED BY <3>1, <2>9, <1>5
    <2> QED BY <1>1, <2>7, <2>8, <2>9 DEF Known, voices
  <1> QED BY <1>6, <1>7

\* The first of the pull requests that are left, and its voices.
LEMMA NextPull ==
  ASSUME PullInv, asker.left # <<>>
  PROVE  /\ Head(asker.left) \in FoundOK /\ Head(asker.left).pull \in Pulls
         /\ Tail(asker.left) \in Seq(FoundOK) /\ Tail(asker.left) \in Seq(Found)
         /\ pulls[Head(asker.left).pull].voices \in Seq(Voice) /\ Heard(Head(asker.left).pull)
  <1>1. asker.left \in Seq(FoundOK)
    BY DEF PullInv
  <1>2. Head(asker.left) \in FoundOK /\ Tail(asker.left) \in Seq(FoundOK)
    BY <1>1, HeadTailProperties
  <1>3. Tail(asker.left) \in Seq(Found)
    BY <1>2, SeqMonotonic DEF FoundOK
  <1>4. Head(asker.left).pull \in Pulls
    BY <1>2 DEF FoundOK, Found
  <1>5. pulls[Head(asker.left).pull].voices \in Seq(Voice)
    BY <1>4 DEF PullInv, PullTypeOK, Pull
  <1> QED BY <1>2, <1>3, <1>4, <1>5 DEF PullInv

\* What is read of a feed is a voice.
LEMMA LastRead ==
  ASSUME NEW x \in Pulls, pulls[x].voices \in Seq(Voice), NEW kind, FirstOfFeed(x, kind) # {}
  PROVE  pulls[x].voices[Max(FirstOfFeed(x, kind))] \in Voice
  <1> DEFINE voices == pulls[x].voices
             n == Len(voices)
             feed == FirstOfFeed(x, kind)
  <1>1. n \in Nat /\ DOMAIN voices = 1 .. n /\ feed \subseteq 1 .. n
    BY DEF FirstOfFeed
  <1>2. feed \subseteq 0 .. n
    BY <1>1
  <1> HIDE DEF feed, n
  <1>3. Max(feed) \in 1 .. n
    BY <1>1, <1>2, MaxIs DEF feed
  <1> QED BY <1>1, <1>3 DEF feed

\* The reviews of a pull request are read.
LEMMA AskReviewsKeeps ==
  ASSUME PullInv, AskReviews
  PROVE  PullInv'
  <1> DEFINE x == Head(asker.left).pull
             reviews == FirstOfFeed(x, "review")
             best == IF reviews = {} THEN None ELSE pulls[x].voices[Max(reviews)]
             me == [asker EXCEPT !.pc = "comments", !.best = best]
  <1>1. /\ UNCHANGED <<intakeVars, pulls, plan, stood, troubles>> /\ asker.left # <<>> /\ asker' = me
    BY DEF AskReviews, Asks
  <1>2. /\ IntakeRows' /\ UNCHANGED <<items, clock, pulls, plan, stood>>
        /\ asker \in Asker /\ troubles' \in 0 .. MaxTroubles
    BY <1>1, AsksKeep
  <1>3. x \in Pulls /\ pulls[x].voices \in Seq(Voice) /\ Heard(x) /\ MaxTime \in Nat
    BY <1>1, NextPull, IntakeAssumption DEF IntakeAssumption
  <1> HIDE DEF x
  <1>4. best \in Voice \cup {None}
    BY <1>3, LastRead
  <1>5. Sharp => Known(x, best)
    BY <1>3, ReviewKnown
  <1> HIDE DEF reviews, best
  <1>6. /\ me \in Asker /\ me.left = asker.left /\ me.records = asker.records
        /\ me.todo = asker.todo /\ me.pc = "comments" /\ me.best = best
    BY <1>2, <1>4 DEF Asker
  <1> HIDE DEF me
  <1>7. me.left \in Seq(FoundOK) /\ me.records \in Seq(RecordOK) /\ me.todo \in Seq(MatchOK)
    BY <1>6 DEF PullInv
  <1>8. Sharp => \A y \in Pulls, b \in Voice \cup {None} :
          y = Head(me.left).pull /\ b = me.best => Known(y, b)
    BY <1>5, <1>6 DEF x
  <1> QED BY <1>1, <1>2, <1>6, <1>7, <1>8, AskKeeps

\* A decision that approves is known: the pull request has stood.
LEMMA DecisionStands ==
  ASSUME Sharp, NEW x \in Pulls, pulls[x].voices \in Seq(Voice), Heard(x), MaxTime \in Nat,
         NEW best \in Voice \cup {None}, Known(x, best),
         LatestDecision(best, x) # None, LatestDecision(best, x).says = "approve"
  PROVE  x \in stood
  <1> DEFINE voices == pulls[x].voices
             n == Len(voices)
             later == {k \in FirstOfFeed(x, "comment") : best # None => voices[k].at > best.at}
             Wins(k) == \A j \in later : \/ voices[k].at > voices[j].at
                                         \/ voices[k].at = voices[j].at /\ k <= j
             first == CHOOSE k \in later : Wins(k)
  <1>1. n \in Nat /\ DOMAIN voices = 1 .. n
    OBVIOUS
  <1>2. \A k \in 1 .. n : voices[k].at \in Nat
    <2>1. \A v \in Voice : v.at \in Nat
      BY DEF Voice, Second
    <2> QED BY <1>1, <2>1
  <1>3. \A j, k \in 1 .. n : j < k => voices[j].at < voices[k].at
    BY <1>1 DEF Heard, Sharp
  <1>4. \A k : k \in later <=> k \in 1 .. n /\ Later(x, best, k)
    BY <1>1, FeedIs DEF Later
  <1>5. LatestDecision(best, x) = IF later = {} THEN best ELSE voices[first]
    BY DEF LatestDecision
  <1>6. /\ best # None /\ (\A k \in 1 .. n : ~Later(x, best, k)) =>
             (best.says = "approve" => x \in stood)
        /\ \A k \in 1 .. n :
             Later(x, best, k) /\ (\A j \in 1 .. n : k < j => ~Later(x, best, j)) =>
               (voices[k].says = "approve" => x \in stood)
    BY <1>1 DEF Known
  <1> HIDE DEF later, voices, n
  <1>7. CASE later = {}
    BY <1>4, <1>5, <1>6, <1>7
  <1>8. CASE later # {}
    <2> DEFINE m == Max(later)
    <2>1. later \subseteq 0 .. n
      BY <1>1, <1>4
    <2>2. m \in later /\ \A j \in later : m >= j
      BY <1>1, <1>8, <2>1, MaxIs
    <2> HIDE DEF m
    <2>3. ASSUME NEW j \in later
          PROVE  voices[m].at > voices[j].at \/ (voices[m].at = voices[j].at /\ m <= j)
      <3>1. j \in 1 .. n /\ m \in 1 .. n /\ j <= m
        BY <1>1, <1>4, <2>2
      <3>2. CASE j = m
        BY <3>1, <3>2, <1>1
      <3>3. CASE j # m
        <4>1. j < m
          BY <3>1, <3>3
        <4>2. voices[j].at < voices[m].at
          BY <3>1, <4>1, <1>3
        <4> QED BY <3>1, <4>2, <1>2
      <3> QED BY <3>2, <3>3
    <2>4. Wins(m)
      BY <2>3
    <2>5. first \in later /\ Wins(first)
      BY <2>2, <2>4
    <2> HIDE DEF first
    <2>6. \A j \in later : voices[first].at >= voices[j].at
      BY <2>5, <1>2, <1>4
    <2> HIDE DEF Wins
    <2>7. first \in 1 .. n /\ Later(x, best, first)
      BY <1>4, <2>5
    <2>8. ASSUME NEW j \in 1 .. n, first < j PROVE ~Later(x, best, j)
      <3>1. voices[first].at < voices[j].at
        BY <1>3, <2>7, <2>8
      <3>2. ~(voices[first].at >= voices[j].at)
        BY <3>1, <1>2, <2>7
      <3> QED BY <3>2, <1>4, <2>6
    <2>9. LatestDecision(best, x) = voices[first]
      BY <1>5, <1>8
    <2> QED BY <1>6, <2>7, <2>8, <2>9
  <1> QED BY <1>7, <1>8

\* The comments are read, and an approval makes its records.
LEMMA AskCommentsKeeps ==
  ASSUME PullInv, AskComments
  PROVE  PullInv'
  <1> DEFINE it == Head(asker.left)
             decision == LatestDecision(asker.best, it.pull)
             approved == decision # None /\ decision.says = "approve"
             made == [k \in DOMAIN Served |->
                        [pull |-> it.pull, phase |-> Served[k], marker |-> it.marker,
                         head |-> it.head]]
             records == IF ~approved THEN asker.records ELSE asker.records \o made
             me == [asker EXCEPT !.pc = "reviews", !.left = Tail(asker.left), !.best = None,
                                 !.records = records]
  <1>1. /\ UNCHANGED <<intakeVars, pulls, plan, stood, troubles>> /\ asker' = me
        /\ asker.pc = "comments"
    BY DEF AskComments, Asks
  <1>2. /\ IntakeRows' /\ UNCHANGED <<items, clock, pulls, plan, stood>>
        /\ asker \in Asker /\ troubles' \in 0 .. MaxTroubles
    BY <1>1, AsksKeep
  <1>3. asker.left # <<>> /\ asker.best \in Voice \cup {None} /\ MaxTime \in Nat
    BY <1>1, <1>2, IntakeAssumption DEF IntakeAssumption, PullInv, Asker
  <1>4. /\ it \in FoundOK /\ it.pull \in Pulls /\ Heard(it.pull)
        /\ pulls[it.pull].voices \in Seq(Voice)
        /\ Tail(asker.left) \in Seq(FoundOK) /\ Tail(asker.left) \in Seq(Found)
    BY <1>3, NextPull
  <1>5. Sharp => Known(it.pull, asker.best)
    BY <1>1, <1>3, <1>4 DEF PullInv, Knows
  <1>6. approved /\ Sharp => it.pull \in stood
    BY <1>3, <1>4, <1>5, DecisionStands
  <1> HIDE DEF it, decision
  <1>7. approved => made \in Seq(RecordOK)
    <2> SUFFICES ASSUME approved PROVE made \in Seq(RecordOK)
      OBVIOUS
    <2> HIDE DEF approved
    <2> DEFINE n == Len(Served)
    <2>1. n \in Nat /\ DOMAIN Served = 1 .. n /\ \A k \in 1 .. n : Served[k] \in Phases
      BY PullAssumption DEF PullAssumption
    <2>2. ASSUME NEW k \in 1 .. n
          PROVE  [pull |-> it.pull, phase |-> Served[k], marker |-> it.marker, head |-> it.head] \in RecordOK
      <3>1. it.marker \in Issues \cup {None} /\ it.head \in Heads /\ Tells(it)
        BY <1>4 DEF FoundOK, Found
      <3>2. [pull |-> it.pull, phase |-> Served[k], marker |-> it.marker, head |-> it.head] \in Record
        BY <1>4, <2>1, <3>1 DEF Record
      <3> QED BY <1>6, <3>1, <3>2 DEF RecordOK, Tells
    <2> HIDE DEF n
    <2>3. made \in [1 .. n -> RecordOK]
      BY <2>1, <2>2
    <2> HIDE DEF made
    <2> QED BY <2>1, <2>3
  <1> HIDE DEF made, approved
  <1>8. asker.records \in Seq(RecordOK) /\ asker.todo \in Seq(MatchOK)
    BY DEF PullInv
  <1>9. records \in Seq(RecordOK)
    BY <1>7, <1>8, ConcatProperties
  <1> HIDE DEF records
  <1>10. records \in Seq(Record)
    BY <1>9, SeqMonotonic DEF RecordOK
  <1>11. /\ me \in Asker /\ me.left = Tail(asker.left) /\ me.records = records
         /\ me.todo = asker.todo /\ me.pc = "reviews"
    BY <1>2, <1>4, <1>10 DEF Asker
  <1> HIDE DEF me
  <1> QED BY <1>1, <1>2, <1>4, <1>8, <1>9, <1>11, AskKeeps

\* A request fails: at most the pull request it was for is passed over.
LEMMA AskFailsKeeps ==
  ASSUME PullInv, AskFails
  PROVE  PullInv'
  <1>1. /\ asker.pc \in {"pulls", "reviews", "comments"} /\ troubles < MaxTroubles
        /\ asker.pc = "reviews" => asker.left # <<>>
        /\ UNCHANGED <<intakeVars, pulls, plan, stood>> /\ troubles' = troubles + 1
    BY DEF AskFails
  <1>2. /\ IntakeRows' /\ UNCHANGED <<items, clock, pulls, plan, stood>>
        /\ asker \in Asker /\ troubles \in 0 .. MaxTroubles
    BY <1>1, AsksKeep
  <1>3. troubles' \in 0 .. MaxTroubles
    BY <1>1, <1>2, PullAssumption DEF PullAssumption
  <1>4. CASE asker.pc = "pulls"
    <2>1. asker' = Resting
      BY <1>4 DEF AskFails
    <2>2. /\ Resting.left \in Seq(FoundOK) /\ Resting.records \in Seq(RecordOK)
          /\ Resting.todo \in Seq(MatchOK) /\ Resting \in Asker
          /\ Resting.pc \notin {"comments", "approve"}
      BY RestIs
    <2> QED BY <1>2, <1>3, <2>1, <2>2, AskKeeps
  <1>5. CASE asker.pc # "pulls"
    <2> DEFINE me == [asker EXCEPT !.pc = "reviews", !.left = Tail(asker.left), !.best = None]
    <2>1. asker' = me
      BY <1>5 DEF AskFails
    <2>2. asker.left # <<>>
      BY <1>1, <1>5 DEF PullInv
    <2>3. Tail(asker.left) \in Seq(FoundOK) /\ Tail(asker.left) \in Seq(Found)
      BY <2>2, NextPull
    <2>4. /\ me \in Asker /\ me.left = Tail(asker.left) /\ me.records = asker.records
          /\ me.todo = asker.todo /\ me.pc = "reviews"
      BY <1>2, <2>3 DEF Asker
    <2> HIDE DEF me
    <2>5. me.left \in Seq(FoundOK) /\ me.records \in Seq(RecordOK) /\ me.todo \in Seq(MatchOK)
      BY <2>3, <2>4 DEF PullInv
    <2> QED BY <1>2, <1>3, <2>1, <2>4, <2>5, AskKeeps
  <1> QED BY <1>4, <1>5

\* The waiting items are matched to the records.
LEMMA ListWaitingKeeps ==
  ASSUME PullInv, ListWaiting
  PROVE  PullInv'
  <1> DEFINE todo == [n \in DOMAIN asker.records |->
                        [record |-> asker.records[n],
                         items |-> {i \in Items : Matches(asker.records[n], i)}]]
             me == [Resting EXCEPT !.pc = "match", !.todo = todo]
  <1>1. UNCHANGED <<intakeVars, pulls, plan, stood, troubles>> /\ asker' = me
    BY DEF ListWaiting, Asks
  <1>2. /\ IntakeRows' /\ UNCHANGED <<items, clock, pulls, plan, stood>>
        /\ asker \in Asker /\ troubles' \in 0 .. MaxTroubles
    BY <1>1, AsksKeep
  <1>3. todo \in Seq(MatchOK)
    <2> DEFINE n == Len(asker.records)
    <2>1. n \in Nat /\ DOMAIN asker.records = 1 .. n /\ \A k \in 1 .. n : asker.records[k] \in RecordOK
      BY DEF PullInv
    <2>2. ASSUME NEW k \in 1 .. n
          PROVE  [record |-> asker.records[k],
                  items |-> {i \in Items : Matches(asker.records[k], i)}] \in MatchOK
      <3>1. asker.records[k] \in RecordOK /\ asker.records[k] \in Record
        BY <2>1 DEF RecordOK
      <3>2. \A i \in Items : Matches(asker.records[k], i) => Speaking(asker.records[k], i)
        BY DEF Matches, Speaking
      <3> QED BY <3>1, <3>2 DEF MatchOK, Match
    <2> HIDE DEF n
    <2>3. todo \in [1 .. n -> MatchOK]
      BY <2>1, <2>2
    <2> HIDE DEF todo
    <2> QED BY <2>1, <2>3
  <1> HIDE DEF todo
  <1>4. todo \in Seq(Match)
    BY <1>3, SeqMonotonic DEF MatchOK
  <1>5. /\ me \in Asker /\ me.left = <<>> /\ me.records = <<>> /\ me.todo = todo /\ me.pc = "match"
    BY <1>4, RestIs DEF Asker
  <1> HIDE DEF me
  <1>6. me.left \in Seq(FoundOK) /\ me.records \in Seq(RecordOK) /\ me.todo \in Seq(MatchOK)
    BY <1>3, <1>5
  <1> QED BY <1>1, <1>2, <1>5, <1>6, AskKeeps

\* The first of the records that are left, and the first of its items.
LEMMA NextIs ==
  ASSUME PullInv, asker.todo # <<>>
  PROVE  /\ This \in MatchOK /\ This \in Match /\ NextRecord \in Seq(MatchOK) /\ NextRecord \in Seq(Match)
         /\ This.items # {} => /\ ThisItem \in This.items /\ ThisItem \in Items
                               /\ NextMatch \in Seq(MatchOK) /\ NextMatch \in Seq(Match)
  <1>1. asker.todo \in Seq(MatchOK)
    BY DEF PullInv
  <1>2. This \in MatchOK /\ NextRecord \in Seq(MatchOK)
    BY <1>1, HeadTailProperties DEF This, NextRecord
  <1>3. This \in Match /\ NextRecord \in Seq(Match)
    BY <1>2, SeqMonotonic DEF MatchOK
  <1>4. ASSUME This.items # {}
        PROVE  /\ ThisItem \in This.items /\ ThisItem \in Items
               /\ NextMatch \in Seq(MatchOK) /\ NextMatch \in Seq(Match)
    <2>1. This.items \subseteq Items /\ This.items \subseteq Nat
      BY <1>3, QueueAssumption DEF QueueAssumption, Match
    <2>2. ThisItem \in This.items
      BY <1>4, <2>1, MinIs DEF ThisItem
    <2> DEFINE rest == [This EXCEPT !.items = This.items \ {ThisItem}]
    <2>3. rest \in Match /\ rest.record = This.record /\ rest.items \subseteq This.items
      BY <1>3, <2>1 DEF Match
    <2> HIDE DEF rest
    <2>4. rest \in MatchOK
      BY <1>2, <2>3 DEF MatchOK
    <2>5. <<rest>> \in Seq(MatchOK) /\ NextMatch = <<rest>> \o NextRecord
      BY <2>4 DEF rest, NextMatch, NextRecord
    <2>6. NextMatch \in Seq(MatchOK)
      BY <1>2, <2>5, ConcatProperties
    <2>7. NextMatch \in Seq(Match)
      BY <2>6, SeqMonotonic DEF MatchOK
    <2> QED BY <2>1, <2>2, <2>6, <2>7
  <1> QED BY <1>2, <1>3, <1>4

\* A record or the whole poll is done with.
LEMMA EndsKeep ==
  ASSUME PullInv, EndRecord \/ EndAsk
  PROVE  PullInv'
  <1>1. UNCHANGED <<intakeVars, pulls, plan, stood, troubles>> /\ asker.pc = "match"
    BY DEF EndRecord, EndAsk, Asks
  <1>2. /\ IntakeRows' /\ UNCHANGED <<items, clock, pulls, plan, stood>>
        /\ asker \in Asker /\ troubles' \in 0 .. MaxTroubles
    BY <1>1, AsksKeep
  <1>3. CASE EndRecord
    <2> DEFINE me == [asker EXCEPT !.todo = NextRecord]
    <2>1. asker.todo # <<>> /\ asker' = me
      BY <1>3 DEF EndRecord
    <2>2. NextRecord \in Seq(MatchOK) /\ NextRecord \in Seq(Match)
      BY <2>1, NextIs
    <2>3. /\ me \in Asker /\ me.left = asker.left /\ me.records = asker.records
          /\ me.todo = NextRecord /\ me.pc = "match"
      BY <1>1, <1>2, <2>2 DEF Asker
    <2> HIDE DEF me
    <2>4. me.left \in Seq(FoundOK) /\ me.records \in Seq(RecordOK) /\ me.todo \in Seq(MatchOK)
      BY <2>2, <2>3 DEF PullInv
    <2> QED BY <1>2, <2>1, <2>3, <2>4, AskKeeps
  <1>4. CASE EndAsk
    <2>1. asker' = Resting
      BY <1>4 DEF EndAsk
    <2>2. /\ Resting.left \in Seq(FoundOK) /\ Resting.records \in Seq(RecordOK)
          /\ Resting.todo \in Seq(MatchOK) /\ Resting \in Asker
          /\ Resting.pc \notin {"comments", "approve"}
      BY RestIs
    <2> QED BY <1>2, <2>1, <2>2, AskKeeps
  <1> QED BY <1>3, <1>4

\* What an approval needs is at hand, or the record is left out.
LEMMA TakeEvidenceKeeps ==
  ASSUME PullInv, TakeEvidence
  PROVE  PullInv'
  <1> DEFINE phase == This.record.phase
             leave == phase \notin Gated \/ (phase = "plan" /\ plan[ThisItem] = None)
             hash == IF phase = "plan" THEN plan[ThisItem] ELSE None
             left == [asker EXCEPT !.todo = NextRecord]
             taken == [asker EXCEPT !.pc = "approve", !.hash = hash]
  <1>1. /\ UNCHANGED <<intakeVars, pulls, plan, stood, troubles>> /\ asker.pc = "match"
        /\ asker.todo # <<>> /\ This.items # {}
        /\ asker' = IF leave THEN left ELSE taken
    BY DEF TakeEvidence, Asks
  <1>2. /\ IntakeRows' /\ UNCHANGED <<items, clock, pulls, plan, stood>>
        /\ asker \in Asker /\ troubles' \in 0 .. MaxTroubles
    BY <1>1, AsksKeep
  <1>3. /\ NextRecord \in Seq(MatchOK) /\ NextRecord \in Seq(Match) /\ ThisItem \in Items
    BY <1>1, NextIs
  <1>4. hash \in Hashes \cup {None}
    BY <1>3 DEF PullInv, PullTypeOK
  <1> HIDE DEF hash, phase
  <1>5. /\ asker.left \in Seq(FoundOK) /\ asker.records \in Seq(RecordOK)
        /\ asker.todo \in Seq(MatchOK)
    BY DEF PullInv
  <1>6. CASE leave
    <2>1. /\ left \in Asker /\ left.left = asker.left /\ left.records = asker.records
          /\ left.todo = NextRecord /\ left.pc = "match"
      BY <1>1, <1>2, <1>3 DEF Asker
    <2> HIDE DEF left
    <2>2. /\ left.left \in Seq(FoundOK) /\ left.records \in Seq(RecordOK)
          /\ left.todo \in Seq(MatchOK) /\ left.pc \notin {"comments", "approve"}
      BY <1>3, <1>5, <2>1
    <2> QED BY <1>1, <1>2, <1>6, <2>1, <2>2, AskKeeps
  <1>7. CASE ~leave
    <2>1. /\ taken \in Asker /\ taken.left = asker.left /\ taken.records = asker.records
          /\ taken.todo = asker.todo /\ taken.pc = "approve"
      BY <1>2, <1>4 DEF Asker
    <2> HIDE DEF taken
    <2>2. /\ taken.left \in Seq(FoundOK) /\ taken.records \in Seq(RecordOK)
          /\ taken.todo \in Seq(MatchOK) /\ taken.todo # <<>> /\ Head(taken.todo).items # {}
          /\ taken.pc # "comments"
      BY <1>1, <1>5, <2>1 DEF This
    <2> QED BY <1>1, <1>2, <1>7, <2>1, <2>2, AskKeeps
  <1> QED BY <1>6, <1>7

\* Whatever the store answers, the poll goes on to the next item or the next record.
LEMMA ApproveKeeps ==
  ASSUME PullInv, Approve
  PROVE  PullInv'
  <1> DEFINE i == ThisItem
             phase == This.record.phase
             refused == /\ ~Approved(i, phase)
                        /\ items[i].lifecycle # "waiting_approval" \/ items[i].current_phase # phase
             rest == IF refused THEN NextRecord ELSE NextMatch
             me == [asker EXCEPT !.pc = "match", !.hash = None, !.todo = rest]
  <1>1. /\ asker.pc = "approve" /\ asker' = me
        /\ RecordFactoryApproval(i, phase, asker.hash) \/ UNCHANGED queueVars
        /\ UNCHANGED <<clock, issues, cursor, poller, pulls, plan, stood, troubles>>
    BY DEF Approve
  <1>2. asker.todo # <<>> /\ This.items # {}
    BY <1>1 DEF PullInv
  <1>3. /\ i \in Items /\ This \in Match
        /\ NextRecord \in Seq(MatchOK) /\ NextRecord \in Seq(Match)
        /\ NextMatch \in Seq(MatchOK) /\ NextMatch \in Seq(Match)
    BY <1>2, NextIs
  <1>4. /\ QueueTypeOK /\ IntakeRows /\ asker \in Asker /\ troubles \in 0 .. MaxTroubles
        /\ asker.left \in Seq(FoundOK) /\ asker.records \in Seq(RecordOK)
    BY DEF PullInv, PullTypeOK, IntakeTypeOK
  <1>5. phase \in Phases /\ asker.hash \in Hashes \cup {None}
    BY <1>3, <1>4 DEF Match, Record, Asker
  <1> HIDE DEF i, phase
  <1>6. [item |-> i, phase |-> phase, plan_hash |-> asker.hash] \in Approval
    BY <1>3, <1>5 DEF Approval
  <1>7. QueueTypeOK' /\ UNCHANGED items
    BY <1>1, <1>4, <1>6 DEF RecordFactoryApproval, queueVars, QueueTypeOK
  <1>8. IntakeRows'
    BY <1>1, <1>4, <1>7, TablesMove
  <1> HIDE DEF refused
  <1>9. rest \in Seq(MatchOK) /\ rest \in Seq(Match)
    BY <1>3
  <1> HIDE DEF rest
  <1>10. /\ me \in Asker /\ me.left = asker.left /\ me.records = asker.records
         /\ me.todo = rest /\ me.pc = "match"
    BY <1>4, <1>9 DEF Asker
  <1> HIDE DEF me
  <1>11. me.left \in Seq(FoundOK) /\ me.records \in Seq(RecordOK) /\ me.todo \in Seq(MatchOK)
    BY <1>4, <1>9, <1>10
  <1>12. troubles' \in 0 .. MaxTroubles
    BY <1>1, <1>4
  <1> QED BY <1>1, <1>7, <1>8, <1>10, <1>11, <1>12, AskKeeps

-----------------------------------------------------------------------------
(* The items meanwhile, and the whole *)

\* Where the store and the intake rest, time stands still.
LEMMA RestMeanwhile ==
  ASSUME IntakeRows, UNCHANGED <<queueVars, clock, issues, cursor, poller>>
  PROVE  Meanwhile
  <1>1. UNCHANGED <<leases, items, phases, approvals>>
    BY DEF queueVars
  <1>2. QueueTypeOK' /\ Grows(items, items')
    BY <1>1 DEF Grows, QueueTypeOK, IntakeRows, IntakeTypeOK
  <1>3. clock \in Nat
    BY IntakeAssumption DEF IntakeAssumption, IntakeRows, IntakeTypeOK, Second
  <1> HIDE DEF queueVars
  <1> QED BY <1>1, <1>2, <1>3, TablesMove DEF Meanwhile

\* Items wait at their gates and pass them, and plans are edited.
LEMMA GatesKeep ==
  ASSUME PullInv, NEW i \in Items, WaitAtGate(i) \/ EditPlan(i) \/ PassGate(i)
  PROVE  PullInv'
  <1>1. IntakeRows /\ plan \in [Items -> Hashes \cup {None}]
    BY DEF PullInv, PullTypeOK
  <1>2. UNCHANGED <<clock, issues, cursor, poller, pulls, asker, stood, troubles>>
    BY DEF WaitAtGate, EditPlan, PassGate, pullVars
  <1>3. ASSUME NEW p \in Gated, UpdateFactoryWorkItemPhase(i, p, "waiting_approval"),
               IF p = "plan" THEN \E h \in Hashes : plan' = [plan EXCEPT ![i] = h]
               ELSE UNCHANGED plan
        PROVE  PullInv'
    <2>1. CallOn(i)
      BY <1>3, PullAssumption DEF PullAssumption, CallOn
    <2>2. plan' \in [Items -> Hashes \cup {None}]
      BY <1>1, <1>3
    <2> QED BY <1>1, <1>2, <2>1, <2>2, CallMeanwhile, OthersKeep
  <1>4. CASE WaitAtGate(i)
    BY <1>3, <1>4 DEF WaitAtGate
  <1>5. CASE EditPlan(i)
    <2>1. UNCHANGED <<queueVars, clock, issues, cursor, poller>>
      BY <1>5 DEF EditPlan
    <2>2. plan' \in [Items -> Hashes \cup {None}]
      BY <1>1, <1>5 DEF EditPlan
    <2> QED BY <1>1, <1>2, <2>1, <2>2, RestMeanwhile, OthersKeep
  <1>6. CASE PassGate(i)
    <2>1. CallOn(i)
      BY <1>6, PullAssumption DEF PullAssumption, PassGate, CallOn
    <2>2. plan' \in [Items -> Hashes \cup {None}]
      BY <1>1, <1>6 DEF PassGate, pullVars
    <2> QED BY <1>1, <1>2, <2>1, <2>2, CallMeanwhile, OthersKeep
  <1> QED BY <1>4, <1>5, <1>6

\* Before anything happens nothing is known.
LEMMA PullStarts == PullInit => PullInv
  <1> SUFFICES ASSUME PullInit PROVE PullInv
    OBVIOUS
  <1>1. IntakeInit /\ PullStart
    BY DEF PullInit
  <1>2. IntakeTypeOK
    BY <1>1, IntakeStarts DEF EarnInv
  <1>3. /\ clock = 0 /\ MaxTime \in Nat /\ MaxVoices \in Nat /\ MaxTroubles \in Nat
        /\ \A x \in Issues : issues[x].updated = 0
        /\ \A p \in Pollers : poller[p] = Idle
    BY <1>1, IntakeAssumption, PullAssumption DEF IntakeAssumption, PullAssumption, IntakeInit
  <1>4. IntakeRows
    BY <1>2, <1>3 DEF IntakeRows, Idle
  <1>5. NoPull \in Pull /\ NoPull.voices = <<>>
    BY <1>3 DEF NoPull, Pull, Heads, Second
  <1>6. /\ pulls = [x \in Pulls |-> NoPull] /\ plan \in [Items -> Hashes \cup {None}]
        /\ stood = {} /\ troubles \in 0 .. MaxTroubles
    BY <1>1, <1>3 DEF PullStart
  <1>7. asker \in {Resting, [Resting EXCEPT !.pc = "off"]}
    BY <1>1 DEF PullStart
  <1>8. /\ asker \in Asker /\ asker.left = <<>> /\ asker.records = <<>> /\ asker.todo = <<>>
        /\ asker.pc \in {"idle", "off"}
    BY <1>7, RestIs DEF Asker
  <1>9. PullTypeOK
    BY <1>2, <1>5, <1>6, <1>8 DEF PullTypeOK
  <1>10. \A x \in Pulls : Heard(x)
    BY <1>3, <1>5, <1>6 DEF Heard, Approving
  <1>11. asker.left \in Seq(FoundOK) /\ asker.records \in Seq(RecordOK) /\ asker.todo \in Seq(MatchOK)
    BY <1>8
  <1> QED BY <1>4, <1>8, <1>9, <1>10, <1>11 DEF PullInv, Knows

\* The invariant is inductive.
LEMMA PullSteps ==
  ASSUME PullInv, [PullNext]_approvalVars
  PROVE  PullInv'
  <1>1. /\ IntakeRows /\ plan \in [Items -> Hashes \cup {None}]
    BY DEF PullInv, PullTypeOK
  <1>2. CASE TakesIn
    <2>1. Meanwhile
      BY <1>1, <1>2, TakesInMeanwhile
    <2>2. UNCHANGED <<pulls, plan, asker, stood, troubles>>
      BY <1>2 DEF TakesIn, pullVars
    <2>3. plan' \in [Items -> Hashes \cup {None}]
      BY <1>1, <2>2
    <2> QED BY <2>1, <2>2, <2>3, OthersKeep
  <1>3. CASE Ask
    BY <1>3, BeginAskKeeps, AskPullsKeeps, AskReviewsKeeps, AskCommentsKeeps, ListWaitingKeeps,
       EndsKeep, TakeEvidenceKeeps, ApproveKeeps DEF Ask
  <1>4. CASE AskFails
    BY <1>4, AskFailsKeeps
  <1>5. ASSUME NEW x \in Pulls, OpenPull(x) \/ MovePull(x) \/ Speak(x) \/ Dismiss(x)
        PROVE  PullInv'
    BY <1>5, MoveKeeps, SpeakKeeps, DismissKeeps
  <1>6. ASSUME NEW i \in Items, WaitAtGate(i) \/ EditPlan(i) \/ PassGate(i)
        PROVE  PullInv'
    BY <1>6, GatesKeep
  <1>7. CASE UNCHANGED approvalVars
    <2>1. /\ UNCHANGED <<queueVars, clock, issues, cursor, poller>>
          /\ UNCHANGED <<pulls, plan, asker, stood, troubles>>
      BY <1>7 DEF approvalVars, intakeVars, pullVars
    <2>2. plan' \in [Items -> Hashes \cup {None}]
      BY <1>1, <2>1
    <2> QED BY <1>1, <2>1, <2>2, RestMeanwhile, OthersKeep
  <1> QED BY <1>2, <1>3, <1>4, <1>5, <1>6, <1>7 DEF PullNext

\* Nothing but the poller of approvals approves; who is approved was named by a pull request that
\* stood in this poll.
LEMMA OnlyDecided ==
  ASSUME Sharp, PullInv, [PullNext]_approvalVars
  PROVE  \A a \in approvals' \ approvals : \E x \in stood : SpeaksFor(x, a.item)
  <1>1. CASE TakesIn
    BY <1>1, TakesInMeanwhile DEF PullInv, Meanwhile
  <1>2. CASE Ask
    <2>1. CASE Approve
      <3> DEFINE r == This.record
      <3>1. /\ \A a \in approvals' \ approvals : a.item = ThisItem
        BY <2>1 DEF Approve, RecordFactoryApproval, queueVars
      <3>2. asker.todo # <<>> /\ This.items # {}
        BY <2>1 DEF PullInv, Approve
      <3>3. This \in MatchOK /\ ThisItem \in This.items
        BY <3>2, NextIs
      <3>4. r \in RecordOK /\ Speaking(r, ThisItem)
        BY <3>3 DEF MatchOK
      <3>5. r.pull \in stood /\ Tells(r)
        BY <3>4 DEF RecordOK
      <3>6. SpeaksFor(r.pull, ThisItem)
        BY <3>4, <3>5 DEF Speaking, Tells, SpeaksFor
      <3> QED BY <3>1, <3>5, <3>6
    <2>2. CASE ~Approve
      <3>1. UNCHANGED intakeVars
        BY <1>2, <2>2 DEF Ask, BeginAsk, AskPulls, AskReviews, AskComments, ListWaiting, EndRecord,
                          TakeEvidence, EndAsk, Asks
      <3> QED BY <3>1 DEF intakeVars, queueVars
    <2> QED BY <2>1, <2>2
  <1>3. CASE AskFails
    BY <1>3 DEF AskFails, intakeVars, queueVars
  <1>4. ASSUME NEW x \in Pulls, OpenPull(x) \/ MovePull(x) \/ Speak(x) \/ Dismiss(x)
        PROVE  approvals' = approvals
    BY <1>4 DEF OpenPull, MovePull, Speak, Dismiss, Change, queueVars
  <1>5. ASSUME NEW i \in Items, WaitAtGate(i) \/ EditPlan(i) \/ PassGate(i)
        PROVE  approvals' = approvals
    <2>1. CallOn(i) \/ UNCHANGED queueVars
      BY <1>5, PullAssumption DEF PullAssumption, WaitAtGate, EditPlan, PassGate, CallOn
    <2>2. QueueTypeOK
      BY DEF PullInv, PullTypeOK, IntakeTypeOK
    <2> QED BY <2>1, <2>2, CallsGrow DEF queueVars
  <1>6. CASE UNCHANGED approvalVars
    BY <1>6 DEF approvalVars, intakeVars, queueVars
  <1> QED BY <1>1, <1>2, <1>3, <1>4, <1>5, <1>6 DEF PullNext

\* Whatever the bounds and however many pull requests, items, pages and polls: the state of the
\* provider, of its poller and of all they meet stays well formed.
THEOREM PullTypes == PullSpec => []PullTypeOK
  <1>1. PullInv => PullTypeOK
    BY DEF PullInv
  <1> QED BY <1>1, PullStarts, PullSteps, PTL DEF PullSpec

\* "The most recent signal wins": where no two signals fall into one second and a request returns all
\* reviews or comments of a pull request, what a poll approves was the latest word on a pull request of
\* the item at some moment of that poll, whatever people do between the two requests and between
\* the requests and the approval, whatever fails, and however items go on meanwhile
\* (latestDecision, Poll, processRecord).
THEOREM ApprovalsAreDecidedAlways ==
  ASSUME ~SameSecond, MaxVoices <= Feed PROVE PullSpec => ApprovalsAreDecided
  <1>1. Sharp
    BY DEF Sharp
  <1>2. PullSpec => []PullTypeOK
    BY PullTypes
  <1>3. PullSpec => []PullInv
    BY PullStarts, PullSteps, PTL DEF PullSpec
  <1>4. PullInv /\ [PullNext]_approvalVars =>
          [\A a \in approvals' \ approvals : \E x \in stood : SpeaksFor(x, a.item)]_approvalVars
    BY <1>1, OnlyDecided
  <1> QED BY <1>2, <1>3, <1>4, PTL DEF PullSpec, ApprovalsAreDecided
=============================================================================
