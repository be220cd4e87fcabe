------------------------- MODULE ExecutionWalk_proofs -------------------------
(***************************************************************************)
(* What holds of a walk over every execution graph, whatever fails and     *)
(* whenever the caller cancels.                                            *)
(***************************************************************************)
EXTENDS ExecutionWalk, TLAPS, WellFoundedInduction

\* The part of the type the other proofs rest on.
NodeType ==
  /\ node \in [Nodes -> {"waiting", "running", "sending", "done"}]
  /\ failed \subseteq Nodes

\* What a goroutine does to the nodes is one Send of its own node.
LEMMA GoroutineSends ==
  ASSUME \/ \E s \in Scopes : StartScope(s) \/ EndScope(s)
         \/ \E n \in Nodes : PassBarrier(n) \/ RunTarget(n)
  PROVE  \E n \in Nodes, ok \in BOOLEAN : Send(n, ok)
  <1>1. ASSUME NEW s \in Scopes, StartScope(s)
        PROVE \E n \in Nodes, ok \in BOOLEAN : Send(n, ok)
    <2>1. StartOf[s] \in Nodes
      BY WalkAssumption DEF WalkAssumption
    <2> QED BY <1>1, <2>1 DEF StartScope
  <1>2. ASSUME NEW s \in Scopes, EndScope(s)
        PROVE \E n \in Nodes, ok \in BOOLEAN : Send(n, ok)
    <2>1. s \in Nodes
      BY WalkAssumption DEF WalkAssumption
    <2> QED BY <1>2, <2>1 DEF EndScope
  <1>3. ASSUME NEW n \in Nodes, PassBarrier(n)
        PROVE \E m \in Nodes, ok \in BOOLEAN : Send(m, ok)
    BY <1>3 DEF PassBarrier
  <1>4. ASSUME NEW n \in Nodes, RunTarget(n)
        PROVE \E m \in Nodes, ok \in BOOLEAN : Send(m, ok)
    BY <1>4 DEF RunTarget
  <1> QED BY <1>1, <1>2, <1>3, <1>4

\* Every step, as far as nodes, failures and the walker's place are concerned: one
\* node starts, sends or is received, or no node moves at all.
LEMMA NodeSteps ==
  ASSUME [Next]_vars
  PROVE  \/ \E n \in Nodes : Start(n)
         \/ \E n \in Nodes : Receive(n)
         \/ \E n \in Nodes, ok \in BOOLEAN : Send(n, ok)
         \/ UNCHANGED <<node, failed>>
  <1>1. CASE Next
    <2>1. CASE \E n \in Nodes : Start(n)
      BY <2>1
    <2>2. CASE \E n \in Nodes : Receive(n)
      BY <2>2
    <2>3. CASE EndStarting \/ Wake \/ NoticeInterrupt \/ EndDraining \/ CloseActiveScopes
      BY <2>3 DEF EndStarting, Wake, NoticeInterrupt, EndDraining, CloseActiveScopes
    <2>4. CASE Goroutine
      BY <2>4, GoroutineSends DEF Goroutine
    <2>5. CASE Interrupt
      BY <2>5 DEF Interrupt
    <2> QED BY <1>1, <2>1, <2>2, <2>3, <2>4, <2>5 DEF Next, Walker
  <1>2. CASE UNCHANGED vars
    BY <1>2 DEF vars
  <1> QED BY <1>1, <1>2

-----------------------------------------------------------------------------
\* A goroutine is waiting, at work, sending its result or done, and only nodes fail.
LEMMA NodeTypes == Spec => []NodeType
  <1>1. Init => NodeType
    BY DEF Init, NodeType
  <1>2. NodeType /\ [Next]_vars => NodeType'
    <2> SUFFICES ASSUME NodeType, [Next]_vars PROVE NodeType'
      OBVIOUS
    <2>1. ASSUME NEW n \in Nodes, Start(n) PROVE NodeType'
      BY <2>1 DEF Start, NodeType
    <2>2. ASSUME NEW n \in Nodes, Receive(n) PROVE NodeType'
      BY <2>2 DEF Receive, NodeType
    <2>3. ASSUME NEW n \in Nodes, NEW ok \in BOOLEAN, Send(n, ok) PROVE NodeType'
      BY <2>3 DEF Send, NodeType
    <2>4. CASE UNCHANGED <<node, failed>>
      BY <2>4 DEF NodeType
    <2> QED BY <2>1, <2>2, <2>3, <2>4, NodeSteps
  <1> QED BY <1>1, <1>2, PTL DEF Spec

\* Whatever the graph, a node runs only after everything it depends on has succeeded,
\* in a walk with errors and cancellation too (startReady, dependencyState).
THEOREM WalkKeepsDependencies == Spec => []DependenciesFirst
  <1>1. Init => DependenciesFirst
    BY WalkAssumption DEF WalkAssumption, Init, DependenciesFirst
  <1>2. NodeType /\ DependenciesFirst /\ [Next]_vars => DependenciesFirst'
    <2> SUFFICES ASSUME NodeType, DependenciesFirst, [Next]_vars,
                        NEW e \in Edges, node'[e[2]] # "waiting"
                 PROVE  Succeeded(e[1])'
      BY DEF DependenciesFirst
    <2>e. e[1] \in Nodes /\ e[2] \in Nodes /\ e = <<e[1], e[2]>>
      BY WalkAssumption DEF WalkAssumption
    <2>1. ASSUME NEW n \in Nodes, Start(n) PROVE Succeeded(e[1])'
      <3>1. \A m \in Nodes : <<m, n>> \in Edges => Succeeded(m)
        BY <2>1 DEF Start, Startable, Ready
      <3>2. Succeeded(e[1])
        <4>1. CASE e[2] = n
          BY <4>1, <3>1, <2>e
        <4>2. CASE e[2] # n
          BY <4>2, <2>1, <2>e DEF DependenciesFirst, Start, NodeType
        <4> QED BY <4>1, <4>2
      <3>3. node[n] = "waiting"
        BY <2>1 DEF Start, Startable, Ready
      <3> QED BY <3>2, <3>3, <2>1, <2>e DEF Start, Succeeded, NodeType
    <2>2. ASSUME NEW n \in Nodes, Receive(n) PROVE Succeeded(e[1])'
      <3>1. node[n] = "sending" /\ node[e[2]] # "waiting"
        BY <2>2, <2>e DEF Receive, NodeType
      <3>2. Succeeded(e[1])
        BY <3>1 DEF DependenciesFirst
      <3> QED BY <3>2, <2>2, <2>e DEF Receive, Succeeded, NodeType
    <2>3. ASSUME NEW n \in Nodes, NEW ok \in BOOLEAN, Send(n, ok) PROVE Succeeded(e[1])'
      <3>1. node[n] = "running" /\ node[e[2]] # "waiting"
        BY <2>3, <2>e DEF Send, NodeType
      <3>2. Succeeded(e[1])
        BY <3>1 DEF DependenciesFirst
      <3> QED BY <3>1, <3>2, <2>3, <2>e DEF Send, Succeeded, NodeType
    <2>4. CASE UNCHANGED <<node, failed>>
      BY <2>4 DEF DependenciesFirst, Succeeded
    <2> QED BY <2>1, <2>2, <2>3, <2>4, NodeSteps
  <1> QED BY <1>1, <1>2, NodeTypes, PTL DEF Spec

-----------------------------------------------------------------------------
\* Why nothing outlives the walk: it is blocked only while nothing runs, so that the
\* cancellation it then notices leaves nothing behind.
IdleWhenParked == walk \in {"blocked", "returned", "closed"} => Running = {}

LEMMA ParkedIsIdle == Spec => []IdleWhenParked
  <1>1. Init => IdleWhenParked
    BY DEF Init, IdleWhenParked
  <1>2. IdleWhenParked /\ [Next]_vars => IdleWhenParked'
    <2> SUFFICES ASSUME IdleWhenParked, [Next]_vars PROVE IdleWhenParked'
      OBVIOUS
    <2>1. ASSUME NEW n \in Nodes, Start(n) PROVE IdleWhenParked'
      BY <2>1 DEF Start, walkVars, IdleWhenParked
    <2>2. ASSUME NEW n \in Nodes, Receive(n) PROVE IdleWhenParked'
      BY <2>2 DEF Receive, IdleWhenParked
    <2>3. CASE EndStarting
      BY <2>3 DEF EndStarting, IdleWhenParked, Running
    <2>4. CASE Wake
      BY <2>4 DEF Wake, IdleWhenParked
    <2>5. CASE NoticeInterrupt
      BY <2>5 DEF NoticeInterrupt, IdleWhenParked, Running
    <2>6. CASE EndDraining
      BY <2>6 DEF EndDraining, IdleWhenParked, Running
    <2>7. CASE CloseActiveScopes
      BY <2>7 DEF CloseActiveScopes, IdleWhenParked, Running
    <2>8. CASE Goroutine
      <3>1. PICK n \in Nodes, ok \in BOOLEAN : Send(n, ok)
        BY <2>8, GoroutineSends DEF Goroutine
      <3>2. walk' = walk /\ n \in Running
        BY <3>1 DEF Send, walkVars, Running
      <3> QED BY <3>2 DEF IdleWhenParked
    <2>9. CASE Interrupt
      BY <2>9 DEF Interrupt, IdleWhenParked, Running
    <2>10. CASE UNCHANGED vars
      BY <2>10 DEF vars, walkVars, IdleWhenParked, Running
    <2> QED BY <2>1, <2>2, <2>3, <2>4, <2>5, <2>6, <2>7, <2>8, <2>9, <2>10
            DEF Next, Walker
  <1> QED BY <1>1, <1>2, PTL DEF Spec

\* When Walk returns, by any of its ways, no goroutine is at work (Walk,
\* runExecutionGraph).
THEOREM NothingIsLeftRunning == Spec => []NothingOutlivesWalk
  <1>1. IdleWhenParked => NothingOutlivesWalk
    BY DEF IdleWhenParked, NothingOutlivesWalk
  <1> QED BY <1>1, ParkedIsIdle, PTL

\* After the first error, or once the caller has cancelled, no node is started any
\* more (startReady).
THEOREM FailureStopsStarts == Spec => NothingStartsAfterFailure
  <1>1. NodeType /\ [Next]_vars
          => [firstErr \/ interrupted
                => \A n \in Nodes : node[n] = "waiting" => node'[n] = "waiting"]_vars
    <2> SUFFICES ASSUME NodeType, [Next]_vars, firstErr \/ interrupted,
                        NEW m \in Nodes, node[m] = "waiting"
                 PROVE  node'[m] = "waiting"
      OBVIOUS
    <2>1. ASSUME NEW n \in Nodes, Start(n) PROVE FALSE
      BY <2>1 DEF Start, MayStart
    <2>2. ASSUME NEW n \in Nodes, Receive(n) PROVE node'[m] = "waiting"
      BY <2>2 DEF Receive, NodeType
    <2>3. ASSUME NEW n \in Nodes, NEW ok \in BOOLEAN, Send(n, ok)
          PROVE node'[m] = "waiting"
      BY <2>3 DEF Send, NodeType
    <2>4. CASE UNCHANGED <<node, failed>>
      BY <2>4
    <2> QED BY <2>1, <2>2, <2>3, <2>4, NodeSteps
  <1> QED BY <1>1, NodeTypes, PTL DEF Spec, NothingStartsAfterFailure

-----------------------------------------------------------------------------
\* Among nodes there is one that nothing in the set comes before.
LEMMA LeastRank ==
  ASSUME NEW W, W \subseteq Nodes, W # {}
  PROVE  \E n \in W : \A m \in W : <<m, n>> \notin Edges
  <1> DEFINE T == {Rank[n] : n \in W}
  <1>r. Rank \in [Nodes -> Nat] /\ \A e \in Edges : Rank[e[1]] < Rank[e[2]]
    BY WalkAssumption DEF WalkAssumption
  <1>1. T \subseteq Nat /\ T # {}
    BY <1>r
  <1>2. \E x \in T : \A y \in T : ~ (<<y, x>> \in OpToRel(<, Nat))
    BY <1>1, WFMin, NatLessThanWellFounded, Zenon
  <1>3. PICK x \in T : \A y \in T : ~ (<<y, x>> \in OpToRel(<, Nat))
    BY <1>2
  <1>4. \A y \in T : ~ (y < x)
    BY <1>1, <1>3, Zenon DEF OpToRel
  <1>5. PICK n \in W : Rank[n] = x
    OBVIOUS
  <1>6. ASSUME NEW m \in W, <<m, n>> \in Edges PROVE FALSE
    <2>1. Rank[m] < Rank[n]
      BY <1>6, <1>r
    <2> QED BY <2>1, <1>4, <1>5
  <1> QED BY <1>6

\* Why a walk that returns in good order has run everything: a failure is known once it
\* was received, and nothing but a failure, a cancellation or an empty rest ends it.
FailuresAreKnown ==
  /\ \A n \in failed : node[n] \in {"sending", "done"}
  /\ \A n \in failed : node[n] = "done" => firstErr
GoodEnd ==
  walk \in {"returned", "closed"} /\ ~firstErr /\ ~interrupted => \A n \in Nodes : Succeeded(n)
DrainsForCause == walk = "draining" => interrupted
EndInv == FailuresAreKnown /\ GoodEnd /\ DrainsForCause

\* A walk that neither failed nor was cancelled ends only when every node has run: there
\* is no cycle to stop at (Walk, ValidateAcyclic).
THEOREM NothingIsForgotten == Spec => []EverythingRan
  <1>1. Init => EndInv
    BY DEF Init, EndInv, FailuresAreKnown, GoodEnd, DrainsForCause
  <1>2. NodeType /\ EndInv /\ [Next]_vars => EndInv'
    <2> SUFFICES ASSUME NodeType, EndInv, [Next]_vars PROVE EndInv'
      OBVIOUS
    <2> USE DEF EndInv, FailuresAreKnown, GoodEnd, DrainsForCause
    <2>1. ASSUME NEW n \in Nodes, Start(n) PROVE EndInv'
      <3>1. node[n] = "waiting"
        BY <2>1 DEF Start, Startable, Ready
      <3> QED BY <2>1, <3>1 DEF Start, walkVars, NodeType
    <2>2. ASSUME NEW n \in Nodes, Receive(n) PROVE EndInv'
      BY <2>2 DEF Receive, NodeType
    <2>3. CASE EndStarting
      <3>1. ASSUME walk' = "returned", ~firstErr, ~interrupted
            PROVE  \A n \in Nodes : Succeeded(n)
        <4>1. Running = {} /\ Ready = {}
          BY <2>3, <3>1 DEF EndStarting
        <4>2. failed = {}
          BY <4>1, <3>1 DEF Running, NodeType
        <4>3. \A n \in Nodes : node[n] \in {"waiting", "done"}
          BY <4>1 DEF Running, NodeType
        <4>4. {n \in Nodes : node[n] = "waiting"} = {}
          <5> DEFINE W == {n \in Nodes : node[n] = "waiting"}
          <5>1. SUFFICES ASSUME W # {} PROVE FALSE
            OBVIOUS
          <5>2. PICK n \in W : \A m \in W : <<m, n>> \notin Edges
            BY <5>1, LeastRank
          <5>3. n \in Ready
            BY <5>2, <4>2, <4>3 DEF Ready, Succeeded
          <5> QED BY <5>3, <4>1
        <4> QED BY <4>2, <4>3, <4>4 DEF Succeeded
      <3>2. UNCHANGED <<node, failed, firstErr, interrupted>>
            /\ walk' \in {"select", "returned", "blocked"}
        BY <2>3 DEF EndStarting
      <3> QED BY <3>1, <3>2 DEF Succeeded
    <2>4. CASE Wake
      BY <2>4 DEF Wake
    <2>5. CASE NoticeInterrupt
      BY <2>5 DEF NoticeInterrupt
    <2>6. CASE EndDraining
      BY <2>6 DEF EndDraining
    <2>7. CASE CloseActiveScopes
      BY <2>7 DEF CloseActiveScopes, Succeeded
    <2>8. CASE Goroutine
      <3>1. PICK n \in Nodes, ok \in BOOLEAN : Send(n, ok)
        BY <2>8, GoroutineSends DEF Goroutine
      <3>2. node[n] = "running" /\ ~Succeeded(n)
        BY <3>1 DEF Send, Succeeded
      <3> QED BY <3>1, <3>2 DEF Send, walkVars, NodeType
    <2>9. CASE Interrupt
      BY <2>9 DEF Interrupt
    <2>10. CASE UNCHANGED vars
      BY <2>10 DEF vars, walkVars, Succeeded
    <2> QED BY <2>1, <2>2, <2>3, <2>4, <2>5, <2>6, <2>7, <2>8, <2>9, <2>10
            DEF Next, Walker
  <1>3. EndInv => EverythingRan
    BY DEF EndInv, GoodEnd, EverythingRan
  <1> QED BY <1>1, <1>2, <1>3, NodeTypes, PTL DEF Spec

\* The ends of a walk, together as the runs check them.
THEOREM WalksStopCleanly == Spec => StopsCleanly
  BY NothingIsLeftRunning, NothingIsForgotten, FailureStopsStarts, PTL DEF StopsCleanly

-----------------------------------------------------------------------------
\* No target has the lock of a composite: then no scope lends its lock to a member.
LocksApart == \A s \in Scopes, t \in Targets : Lock[t] = Lock[s] => Lock[t] = None

\* Why targets exclude each other: a target at work has reserved its lock, and what it
\* reserved is held; nothing but its own end gives it back.
ReservedType ==
  /\ open \subseteq Scopes
  /\ reserved \in [Nodes -> {Lock[n] : n \in Nodes} \cup {None}]
  /\ \A n \in Nodes : reserved[n] \in {None, Lock[n]}

WorkersHold ==
  \A t \in Targets : node[t] = "running" /\ Lock[t] # None
                       => reserved[t] = Lock[t] /\ Lock[t] \in held

LockInv == ReservedType /\ WorkersHold /\ SameLockNeverTogether

\* A goroutine's end leaves alone the locks of the targets still at work, as long as
\* what it releases is none of theirs.
LEMMA ReleaseSpares ==
  ASSUME NodeType, LockInv, NEW n \in Nodes, NEW ok \in BOOLEAN, Send(n, ok),
         NEW lock, held' = held \ {lock} \/ held' = held,
         \A t \in Targets : t # n /\ node[t] = "running" /\ Lock[t] # None => Lock[t] # lock,
         ReservedType', \A t \in Targets : t # n => reserved'[t] = reserved[t]
  PROVE  LockInv'
  <1>1. \A t \in Targets : t \in Nodes
    BY DEF Targets
  <1>2. node'[n] = "sending" /\ \A t \in Nodes : t # n => node'[t] = node[t]
    BY DEF Send, NodeType
  <1>3. WorkersHold'
    BY <1>1, <1>2 DEF LockInv, WorkersHold
  <1>4. SameLockNeverTogether'
    BY <1>1, <1>2 DEF LockInv, SameLockNeverTogether
  <1> QED BY <1>3, <1>4 DEF LockInv

\* "Ready targets with the same lock do not run concurrently", wherever no composite
\* has the lock of a target (tryReserveLock, releaseExecutionNode, finishScope).
THEOREM LocksExcludeTargets == LocksApart => (Spec => []SameLockNeverTogether)
  <1> SUFFICES ASSUME LocksApart PROVE Spec => []SameLockNeverTogether
    OBVIOUS
  <1>s. Scopes \subseteq Nodes /\ \A s \in Scopes : StartOf[s] \in Nodes /\ Lock[StartOf[s]] = Lock[s]
    BY WalkAssumption DEF WalkAssumption
  <1>t. \A t \in Targets : t \in Nodes /\ t \notin Scopes /\ t \notin Starts
    BY DEF Targets
  <1>1. Init => LockInv
    BY <1>t DEF Init, LockInv, ReservedType, WorkersHold, SameLockNeverTogether
  <1>2. NodeType /\ LockInv /\ [Next]_vars => LockInv'
    <2> SUFFICES ASSUME NodeType, LockInv, [Next]_vars PROVE LockInv'
      OBVIOUS
    <2>r. ReservedType /\ WorkersHold /\ SameLockNeverTogether
      BY DEF LockInv
    <2>1. ASSUME NEW n \in Nodes, Start(n) PROVE LockInv'
      <3>1. node[n] = "waiting" /\ node' = [node EXCEPT ![n] = "running"] /\ open' = open
        BY <2>1 DEF Start, Startable, Ready
      <3>2. ReservedType'
        BY <2>1, <2>r, <3>1 DEF Start, ReservedType
      <3>3. CASE NeedsLock(n)
        <4>1. Lock[n] \notin held /\ held' = held \cup {Lock[n]}
              /\ reserved' = [reserved EXCEPT ![n] = Lock[n]]
          BY <2>1, <3>3 DEF Start, Startable
        <4>2. WorkersHold'
          BY <4>1, <3>1, <2>r, <1>t DEF WorkersHold, ReservedType, NodeType
        <4>3. \A t \in Targets : t # n /\ node[t] = "running" /\ Lock[t] # None
                                 => Lock[t] # Lock[n]
          BY <4>1, <2>r DEF WorkersHold
        <4>4. SameLockNeverTogether'
          BY <4>3, <3>1, <2>r, <1>t DEF SameLockNeverTogether, NodeType
        <4> QED BY <4>2, <4>4, <3>2 DEF LockInv
      <3>4. CASE ~NeedsLock(n)
        <4>1. held' = held /\ reserved' = reserved
          BY <2>1, <3>4 DEF Start
        <4>2. n \in Targets => Lock[n] = None
          BY <3>4, <2>r DEF NeedsLock, LockHeldByActiveScope, ReservedType, LocksApart
        <4>3. WorkersHold'
          BY <4>1, <4>2, <3>1, <2>r, <1>t DEF WorkersHold, NodeType
        <4>4. SameLockNeverTogether'
          BY <4>2, <3>1, <2>r, <1>t DEF SameLockNeverTogether, NodeType
        <4> QED BY <4>3, <4>4, <3>2 DEF LockInv
      <3> QED BY <3>3, <3>4
    <2>2. ASSUME NEW n \in Nodes, Receive(n) PROVE LockInv'
      <3>1. node[n] = "sending" /\ node' = [node EXCEPT ![n] = "done"]
            /\ held' = held /\ reserved' = reserved /\ open' = open
        BY <2>2 DEF Receive, lockVars
      <3> QED BY <3>1, <2>r, <1>t
              DEF LockInv, ReservedType, WorkersHold, SameLockNeverTogether, NodeType
    <2>3. CASE CloseActiveScopes
      <3>1. node' = node /\ reserved' = reserved /\ open' = {}
            /\ held' = held \ {Lock[s] : s \in open}
        BY <2>3 DEF CloseActiveScopes
      <3>2. \A t \in Targets : Lock[t] # None => Lock[t] \notin {Lock[s] : s \in open}
        BY <2>r DEF ReservedType, LocksApart
      <3> QED BY <3>1, <3>2, <2>r
              DEF LockInv, ReservedType, WorkersHold, SameLockNeverTogether
    <2>4. ASSUME NEW s \in Scopes, StartScope(s) PROVE LockInv'
      <3> DEFINE n == StartOf[s]
      <3>1. n \in Nodes /\ n \in Starts /\ Lock[n] = Lock[s]
        BY <1>s DEF Starts
      <3>2. \A t \in Targets : Lock[t] # None => Lock[t] # reserved[n]
        BY <3>1, <2>r DEF ReservedType, LocksApart
      <3>3. PICK ok \in BOOLEAN : Send(n, ok)
        BY <2>4 DEF StartScope
      <3>4. reserved' = [reserved EXCEPT ![n] = None] /\ open' \in {open, open \cup {s}}
            /\ (held' = held \ {reserved[n]} \/ held' = held)
        BY <2>4 DEF StartScope, ReleaseNode, Release
      <3>5. ReservedType'
        BY <3>1, <3>4, <2>r DEF ReservedType
      <3>6. \A t \in Targets : t # n => reserved'[t] = reserved[t]
        BY <3>4, <2>r, <1>t DEF ReservedType
      <3> HIDE DEF n
      <3> QED BY <3>1, <3>2, <3>3, <3>4, <3>5, <3>6, ReleaseSpares
    <2>5. ASSUME NEW s \in Scopes, EndScope(s) PROVE LockInv'
      <3>1. PICK ok \in BOOLEAN : Send(s, ok)
        BY <2>5 DEF EndScope
      <3>2. reserved' = reserved /\ open' = open \ {s}
            /\ (held' = held \ {Lock[s]} \/ held' = held)
        BY <2>5 DEF EndScope, Release
      <3>3. ReservedType'
        BY <3>2, <2>r DEF ReservedType
      <3>4. \A t \in Targets : Lock[t] # None => Lock[t] # Lock[s]
        BY DEF LocksApart
      <3> QED BY <1>s, <3>1, <3>2, <3>3, <3>4, ReleaseSpares
    <2>6. ASSUME NEW n \in Nodes, PassBarrier(n) PROVE LockInv'
      <3>1. Send(n, TRUE) /\ UNCHANGED lockVars
        BY <2>6 DEF PassBarrier
      <3>2. ReservedType' /\ reserved' = reserved /\ held' = held
        BY <3>1, <2>r DEF lockVars, ReservedType
      <3>3. node' = [node EXCEPT ![n] = "sending"]
        BY <3>1 DEF Send
      <3> QED BY <3>2, <3>3, <2>r, <1>t DEF LockInv, WorkersHold, SameLockNeverTogether, NodeType
    <2>7. ASSUME NEW n \in Nodes, RunTarget(n) PROVE LockInv'
      <3>1. PICK ok \in BOOLEAN : Send(n, ok)
        BY <2>7 DEF RunTarget
      <3>2. n \in Targets /\ open' = open /\ reserved' = [reserved EXCEPT ![n] = None]
            /\ (held' = held \ {reserved[n]} \/ held' = held)
        BY <2>7 DEF RunTarget, ReleaseNode, Release
      <3>3. ReservedType'
        BY <3>2, <2>r DEF ReservedType
      <3>4. \A t \in Targets : t # n /\ node[t] = "running" /\ Lock[t] # None
                               => Lock[t] # reserved[n]
        BY <3>1, <3>2, <2>r, <1>t DEF ReservedType, SameLockNeverTogether, Send
      <3>5. \A t \in Targets : t # n => reserved'[t] = reserved[t]
        BY <3>2, <2>r, <1>t DEF ReservedType
      <3> QED BY <3>1, <3>2, <3>3, <3>4, <3>5, ReleaseSpares
    <2>8. CASE EndStarting \/ Wake \/ NoticeInterrupt \/ EndDraining \/ Interrupt \/ UNCHANGED vars
      <3>1. UNCHANGED <<node, held, reserved, open>>
        BY <2>8 DEF EndStarting, Wake, NoticeInterrupt, EndDraining, Interrupt, vars, lockVars
      <3> QED BY <3>1, <2>r DEF LockInv, ReservedType, WorkersHold, SameLockNeverTogether
    <2> QED BY <2>1, <2>2, <2>3, <2>4, <2>5, <2>6, <2>7, <2>8 DEF Next, Walker, Goroutine
  <1>3. LockInv => SameLockNeverTogether
    BY DEF LockInv
  <1> QED BY <1>1, <1>2, <1>3, NodeTypes, PTL DEF Spec

-----------------------------------------------------------------------------
(* Who keeps which lock *)

\* Nothing that runs under a scope names the scope's lock: then nobody borrows one.
NothingBorrowed == \A n \in Nodes : \A s \in Members[n] : Lock[n] = Lock[s] => Lock[n] = None

\* Who keeps a lock: targets and starts of scopes at work, and the open scopes.
Working == {n \in Starts \cup Targets : node[n] = "running"}
Keepers == Working \cup open

\* The locks L are those of the keepers H, and no two of them have the same.
Keep(H, L) ==
  /\ L = {Lock[h] : h \in H} \ {None}
  /\ \A g, h \in H : Lock[g] = Lock[h] /\ Lock[g] # None => g = h

\* A scope is open between the success of its start and the end of its own run.
Opened(s) ==
  /\ node[StartOf[s]] \in {"sending", "done"} /\ StartOf[s] \notin failed
  /\ node[s] \in {"waiting", "running"}

\* What is reserved and held is just what the keepers have.
KeepInv ==
  /\ open \subseteq Scopes
  /\ reserved = [n \in Nodes |-> IF n \in Working THEN Lock[n] ELSE None]
  /\ \A n \in failed : node[n] \in {"sending", "done"}
  /\ walk # "closed" => \A s \in Scopes : s \in open <=> Opened(s)
  /\ walk = "closed" => open = {}
  /\ Keep(Keepers, held)

\* A keeper more, with a lock that was free.
LEMMA KeepTakes ==
  ASSUME NEW H, NEW L, Keep(H, L), NEW n, Lock[n] # None => Lock[n] \notin L
  PROVE  Keep(H \cup {n}, IF Lock[n] = None THEN L ELSE L \cup {Lock[n]})
  <1>1. L = {Lock[h] : h \in H} \ {None}
    BY DEF Keep
  <1>2. (IF Lock[n] = None THEN L ELSE L \cup {Lock[n]}) = {Lock[h] : h \in H \cup {n}} \ {None}
    BY <1>1
  <1>3. ASSUME NEW g \in H \cup {n}, NEW h \in H \cup {n}, Lock[g] = Lock[h], Lock[g] # None
        PROVE  g = h
    BY <1>1, <1>3 DEF Keep
  <1> QED BY <1>2, <1>3 DEF Keep

\* A keeper less: its lock is free.
LEMMA KeepDrops ==
  ASSUME NEW H, NEW L, Keep(H, L), NEW n \in H
  PROVE  Keep(H \ {n}, L \ {Lock[n]})
  <1>1. L = {Lock[h] : h \in H} \ {None}
    BY DEF Keep
  <1>2. L \ {Lock[n]} = {Lock[h] : h \in H \ {n}} \ {None}
    BY <1>1 DEF Keep
  <1> QED BY <1>2 DEF Keep

\* A keeper that hands its lock on.
LEMMA KeepPasses ==
  ASSUME NEW H, NEW L, Keep(H, L), NEW m \in H, NEW n, Lock[n] = Lock[m]
  PROVE  Keep((H \ {m}) \cup {n}, L)
  <1>1. L = {Lock[h] : h \in H} \ {None}
    BY DEF Keep
  <1>2. L = {Lock[h] : h \in (H \ {m}) \cup {n}} \ {None}
    BY <1>1
  <1>3. ASSUME NEW g \in (H \ {m}) \cup {n}, NEW h \in (H \ {m}) \cup {n},
               Lock[g] = Lock[h], Lock[g] # None
        PROVE  g = h
    BY <1>3 DEF Keep
  <1> QED BY <1>2, <1>3 DEF Keep

\* Where a node stands among the others.
LEMMA Roles ==
  /\ Scopes \subseteq Nodes /\ Starts \subseteq Nodes /\ Targets \subseteq Nodes
  /\ \A s \in Scopes : /\ StartOf[s] \in Starts /\ Lock[StartOf[s]] = Lock[s]
                       /\ <<StartOf[s], s>> \in Edges
                       /\ \A t \in Scopes : StartOf[s] # t /\ (StartOf[s] = StartOf[t] => s = t)
  /\ \A n \in Starts \cup Targets : n \notin Scopes
  /\ \A n \in Targets : n \notin Starts
  /\ \A n \in Barriers : n \notin Scopes /\ n \notin Starts /\ n \notin Targets
  BY WalkAssumption DEF Starts, Targets

\* Who starts takes its lock, unless it has none: it finds no scope to borrow from.
LEMMA KeepStart ==
  ASSUME NothingBorrowed, NodeType, KeepInv, NEW n \in Nodes, Start(n)
  PROVE  KeepInv'
  <1> USE Roles
  <1>1. /\ node[n] = "waiting" /\ node' = [node EXCEPT ![n] = "running"]
        /\ UNCHANGED <<open, failed, walk>> /\ walk = "starting"
    BY DEF Start, Startable, Ready, walkVars
  <1>2. NeedsLock(n) <=> n \in Starts \cup Targets /\ Lock[n] # None
    <2>1. ASSUME LockHeldByActiveScope(n) PROVE Lock[n] = None
      BY <2>1 DEF LockHeldByActiveScope, NothingBorrowed
    <2> QED BY <2>1 DEF NeedsLock
  <1>3. \A s \in Scopes : Opened(s)' <=> Opened(s)
    BY <1>1 DEF Opened, NodeType
  <1>4. \A m \in failed' : node'[m] \in {"sending", "done"}
    BY <1>1 DEF KeepInv, NodeType
  <1>5. CASE n \in Starts \cup Targets
    <2>1. Working' = Working \cup {n} /\ n \notin Working
      BY <1>1, <1>5 DEF Working, NodeType
    <2>2. Keepers' = Keepers \cup {n}
      BY <1>1, <2>1 DEF Keepers
    <2>3. /\ Lock[n] # None => Lock[n] \notin held
          /\ held' = IF Lock[n] = None THEN held ELSE held \cup {Lock[n]}
          /\ reserved' = IF Lock[n] = None THEN reserved ELSE [reserved EXCEPT ![n] = Lock[n]]
      BY <1>2, <1>5 DEF Start, Startable
    <2>4. Keep(Keepers', held')
      BY <2>2, <2>3, KeepTakes DEF KeepInv
    <2>5. reserved' = [m \in Nodes |-> IF m \in Working' THEN Lock[m] ELSE None]
      BY <2>1, <2>3 DEF KeepInv
    <2> QED BY <1>1, <1>3, <1>4, <2>4, <2>5 DEF KeepInv
  <1>6. CASE n \notin Starts \cup Targets
    <2>1. Working' = Working /\ Keepers' = Keepers
      BY <1>1, <1>6 DEF Working, Keepers, NodeType
    <2>2. UNCHANGED <<held, reserved>>
      BY <1>2, <1>6 DEF Start
    <2> QED BY <1>1, <1>3, <1>4, <2>1, <2>2 DEF KeepInv
  <1> QED BY <1>5, <1>6

\* What is left to show of a goroutine's end.
LEMMA KeepSend ==
  ASSUME NodeType, IdleWhenParked, KeepInv, NEW n \in Nodes, NEW ok \in BOOLEAN, Send(n, ok),
         open' \subseteq Scopes, \A s \in Scopes : s \in open' <=> Opened(s)',
         reserved' = [m \in Nodes |-> IF m \in Working \ {n} THEN Lock[m] ELSE None],
         Keep((Working \ {n}) \cup open', held')
  PROVE  KeepInv'
  <1> USE Roles
  <1>1. /\ node[n] = "running" /\ node' = [node EXCEPT ![n] = "sending"]
        /\ failed' \subseteq failed \cup {n} /\ walk' = walk
    BY DEF Send, walkVars
  <1>2. walk # "closed"
    BY <1>1 DEF IdleWhenParked, Running
  <1>3. Working' = Working \ {n}
    BY <1>1 DEF Working, NodeType
  <1>4. \A m \in failed' : node'[m] \in {"sending", "done"}
    BY <1>1 DEF KeepInv, NodeType
  <1> QED BY <1>1, <1>2, <1>3, <1>4 DEF KeepInv, Keepers

\* No goroutine takes a lock away from another or leaves one behind.
LEMMA KeepGoroutine ==
  ASSUME NodeType, IdleWhenParked, DependenciesFirst, KeepInv, Goroutine
  PROVE  KeepInv'
  <1> USE Roles
  <1>0. ASSUME NEW n \in Nodes, node[n] = "running"
        PROVE  n \notin failed /\ walk # "closed" /\ \A s \in Scopes : s \in open <=> Opened(s)
    BY <1>0 DEF KeepInv, IdleWhenParked, Running
  <1>1. ASSUME NEW n \in Nodes, reserved' = [reserved EXCEPT ![n] = None]
        PROVE  reserved' = [m \in Nodes |-> IF m \in Working \ {n} THEN Lock[m] ELSE None]
    BY <1>1 DEF KeepInv
  <1>2. ASSUME NEW s \in Scopes, StartScope(s) PROVE KeepInv'
    <2> DEFINE n == StartOf[s]
    <2>1. n \in Starts /\ n \in Nodes /\ n \notin Scopes /\ Lock[n] = Lock[s] /\ <<n, s>> \in Edges
      OBVIOUS
    <2>2. PICK ok \in BOOLEAN :
            /\ Send(n, ok)
            /\ ok => /\ open' = open \cup {s} /\ reserved' = [reserved EXCEPT ![n] = None]
                     /\ held' = held
            /\ ~ok => ReleaseNode(n) /\ open' = open
      BY <1>2 DEF StartScope
    <2>3. node[n] = "running" /\ node' = [node EXCEPT ![n] = "sending"]
          /\ failed' = (IF ok THEN failed ELSE failed \cup {n})
      BY <2>2 DEF Send
    <2>4. n \in Working /\ n \notin open
      BY <2>1, <2>3 DEF Working, KeepInv
    <2>5. node[s] = "waiting"
      <3>1. ~Succeeded(n)
        BY <2>3 DEF Succeeded
      <3> QED BY <2>1, <3>1 DEF DependenciesFirst, NodeType
    <2>6. \A t \in Scopes : t # s => StartOf[t] # n /\ n # t
      OBVIOUS
    <2> HIDE DEF n
    <2>7. reserved' = [m \in Nodes |-> IF m \in Working \ {n} THEN Lock[m] ELSE None]
      BY <1>1, <2>1, <2>2 DEF ReleaseNode
    <2>8. \A t \in Scopes : t # s => (Opened(t)' <=> Opened(t))
      BY <2>1, <2>3, <2>6 DEF Opened, NodeType
    <2>9. n = StartOf[s]
      BY DEF n
    <2>10. CASE ok
      <3>1. Opened(s)'
        BY <1>0, <2>1, <2>3, <2>5, <2>9, <2>10 DEF Opened, NodeType
      <3>2. (Working \ {n}) \cup open' = (Keepers \ {n}) \cup {s}
        BY <2>2, <2>4, <2>10 DEF Keepers
      <3>3. Keep((Working \ {n}) \cup open', held')
        BY <2>1, <2>2, <2>4, <2>10, <3>2, KeepPasses DEF KeepInv, Keepers
      <3>4. open' \subseteq Scopes /\ \A t \in Scopes : t \in open' <=> Opened(t)'
        BY <1>0, <2>1, <2>2, <2>3, <2>8, <2>10, <3>1 DEF KeepInv
      <3> QED BY <2>1, <2>2, <2>7, <3>3, <3>4, KeepSend
    <2>11. CASE ~ok
      <3>1. ~Opened(s)' /\ ~Opened(s)
        BY <2>1, <2>3, <2>9, <2>11 DEF Opened
      <3>2. (Working \ {n}) \cup open' = Keepers \ {n}
        BY <2>2, <2>4, <2>11 DEF Keepers
      <3>3. reserved[n] = Lock[n]
        BY <2>1, <2>4 DEF KeepInv
      <3>4. held' = held \ {Lock[n]}
        <4>1. None \notin held
          BY DEF KeepInv, Keep
        <4> QED BY <2>2, <2>11, <3>3, <4>1 DEF ReleaseNode, Release
      <3>5. Keep((Working \ {n}) \cup open', held')
        BY <2>4, <3>2, <3>4, KeepDrops DEF KeepInv, Keepers
      <3>6. open' \subseteq Scopes /\ \A t \in Scopes : t \in open' <=> Opened(t)'
        BY <1>0, <2>1, <2>2, <2>3, <2>8, <2>11, <3>1 DEF KeepInv
      <3> QED BY <2>1, <2>2, <2>7, <3>5, <3>6, KeepSend
    <2> QED BY <2>10, <2>11
  <1>3. ASSUME NEW s \in Scopes, EndScope(s) PROVE KeepInv'
    <2>1. PICK ok \in BOOLEAN : Send(s, ok)
      BY <1>3 DEF EndScope
    <2>2. /\ node[s] = "running" /\ node' = [node EXCEPT ![s] = "sending"]
          /\ failed' \subseteq failed \cup {s} /\ failed \subseteq failed'
      BY <2>1 DEF Send
    <2>3. open' = open \ {s} /\ Release(Lock[s]) /\ reserved' = reserved
      BY <1>3 DEF EndScope
    <2>4. s \in open
      <3>1. Succeeded(StartOf[s])
        <4>1. <<StartOf[s], s>> \in Edges /\ <<StartOf[s], s>>[1] = StartOf[s] /\ <<StartOf[s], s>>[2] = s
          OBVIOUS
        <4> QED BY <2>2, <4>1 DEF DependenciesFirst
      <3>2. Opened(s)
        BY <2>2, <3>1 DEF Opened, Succeeded
      <3> QED BY <1>0, <2>2, <3>2
    <2>5. s \notin Working
      BY DEF Working
    <2>6. reserved' = [m \in Nodes |-> IF m \in Working \ {s} THEN Lock[m] ELSE None]
      <3>1. Working \ {s} = Working
        BY <2>5
      <3> QED BY <2>3, <3>1 DEF KeepInv
    <2>7. (Working \ {s}) \cup open' = Keepers \ {s}
      BY <2>3 DEF Keepers
    <2>8. held' = held \ {Lock[s]}
      <3>1. None \notin held
        BY DEF KeepInv, Keep
      <3> QED BY <2>3, <3>1 DEF Release
    <2>9. Keep((Working \ {s}) \cup open', held')
      BY <2>4, <2>7, <2>8, KeepDrops DEF KeepInv, Keepers
    <2>10. \A t \in Scopes : t # s => (Opened(t)' <=> Opened(t))
      BY <2>2 DEF Opened, NodeType
    <2>11. ~Opened(s)'
      BY <2>2 DEF Opened, NodeType
    <2>12. open' \subseteq Scopes /\ \A t \in Scopes : t \in open' <=> Opened(t)'
      BY <1>0, <2>2, <2>3, <2>10, <2>11 DEF KeepInv
    <2> QED BY <2>1, <2>6, <2>9, <2>12, KeepSend
  <1>4. ASSUME NEW n \in Nodes, n \notin Scopes, n \notin Starts, NEW ok \in BOOLEAN, Send(n, ok)
        PROVE  \A s \in Scopes : s \in open <=> Opened(s)'
    <2>1. /\ node[n] = "running" /\ node' = [node EXCEPT ![n] = "sending"]
          /\ failed' \subseteq failed \cup {n} /\ failed \subseteq failed'
      BY <1>4 DEF Send
    <2>2. \A s \in Scopes : Opened(s)' <=> Opened(s)
      BY <1>4, <2>1 DEF Opened, NodeType
    <2> QED BY <1>0, <2>1, <2>2
  <1>5. ASSUME NEW n \in Nodes, PassBarrier(n) PROVE KeepInv'
    <2>1. n \in Barriers /\ Send(n, TRUE) /\ UNCHANGED <<held, reserved, open>>
      BY <1>5 DEF PassBarrier, lockVars
    <2>2. n \notin Scopes /\ n \notin Starts /\ n \notin Targets
      BY <2>1
    <2>3. Working \ {n} = Working
      BY <2>2 DEF Working
    <2>4. /\ reserved' = [m \in Nodes |-> IF m \in Working \ {n} THEN Lock[m] ELSE None]
          /\ Keep((Working \ {n}) \cup open', held') /\ open' \subseteq Scopes
      BY <2>1, <2>3 DEF KeepInv, Keepers
    <2>5. \A s \in Scopes : s \in open' <=> Opened(s)'
      BY <1>4, <2>1, <2>2
    <2> QED BY <2>1, <2>4, <2>5, KeepSend
  <1>6. ASSUME NEW n \in Nodes, RunTarget(n) PROVE KeepInv'
    <2>1. PICK ok \in BOOLEAN : Send(n, ok)
      BY <1>6 DEF RunTarget
    <2>2. n \in Targets /\ ReleaseNode(n) /\ open' = open
      BY <1>6 DEF RunTarget
    <2>3. n \in Working /\ n \notin Scopes /\ n \notin Starts
      BY <2>1, <2>2 DEF Send, Working
    <2>4. reserved' = [m \in Nodes |-> IF m \in Working \ {n} THEN Lock[m] ELSE None]
      BY <1>1, <2>2 DEF ReleaseNode
    <2>5. held' = held \ {Lock[n]}
      <3>1. None \notin held /\ reserved[n] = Lock[n]
        BY <2>3 DEF KeepInv, Keep
      <3> QED BY <2>2, <3>1 DEF ReleaseNode, Release
    <2>6. (Working \ {n}) \cup open' = Keepers \ {n}
      BY <2>2, <2>3 DEF Keepers, KeepInv
    <2>7. Keep((Working \ {n}) \cup open', held') /\ open' \subseteq Scopes
      BY <2>2, <2>3, <2>5, <2>6, KeepDrops DEF KeepInv, Keepers
    <2>8. \A s \in Scopes : s \in open' <=> Opened(s)'
      BY <1>4, <2>1, <2>2, <2>3
    <2> QED BY <2>1, <2>4, <2>7, <2>8, KeepSend
  <1> QED BY <1>2, <1>3, <1>5, <1>6 DEF Goroutine

\* Where the walker is, and what it has been told.
RestType ==
  /\ walk \in {"starting", "select", "blocked", "draining", "returned", "closed"}
  /\ {firstErr, interrupted, signalled} \subseteq BOOLEAN

\* The walker, its flags and its channel stay what they are.
LEMMA RestTypes == Spec => []RestType
  <1>1. Init => RestType
    BY DEF Init, RestType
  <1>2. RestType /\ [Next]_vars => RestType'
    <2> SUFFICES ASSUME RestType, [Next]_vars PROVE RestType'
      OBVIOUS
    <2>0. ASSUME NEW lock, Release(lock), UNCHANGED walkVars PROVE RestType'
      BY <2>0 DEF Release, walkVars, RestType
    <2>1. ASSUME NEW n \in Nodes, Start(n) PROVE RestType'
      BY <2>1 DEF Start, walkVars, RestType
    <2>2. ASSUME NEW n \in Nodes, Receive(n) PROVE RestType'
      BY <2>2 DEF Receive, lockVars, RestType
    <2>3. CASE EndStarting
      BY <2>3 DEF EndStarting, lockVars, RestType
    <2>4. CASE Wake \/ NoticeInterrupt \/ EndDraining \/ CloseActiveScopes
      BY <2>4 DEF Wake, NoticeInterrupt, EndDraining, CloseActiveScopes, lockVars, RestType
    <2>5. ASSUME NEW s \in Scopes, StartScope(s) PROVE RestType'
      BY <2>0, <2>5 DEF StartScope, ReleaseNode, Send, walkVars, RestType
    <2>6. ASSUME NEW s \in Scopes, EndScope(s) PROVE RestType'
      BY <2>0, <2>6 DEF EndScope, Send
    <2>7. ASSUME NEW n \in Nodes, PassBarrier(n) \/ RunTarget(n) PROVE RestType'
      BY <2>0, <2>7 DEF PassBarrier, RunTarget, ReleaseNode, Send, lockVars, walkVars, RestType
    <2>8. CASE Interrupt \/ UNCHANGED vars
      BY <2>8 DEF Interrupt, vars, lockVars, walkVars, RestType
    <2> QED BY <2>1, <2>2, <2>3, <2>4, <2>5, <2>6, <2>7, <2>8 DEF Next, Walker, Goroutine
  <1> QED BY <1>1, <1>2, PTL DEF Spec

\* The invariant holds of a walk in which nobody borrows a lock.
LEMMA KeepInvHolds ==
  ASSUME NothingBorrowed PROVE Spec => []KeepInv
  <1> USE Roles
  <1>1. Init => KeepInv
    <2> SUFFICES ASSUME Init PROVE KeepInv
      OBVIOUS
    <2>1. Working = {} /\ open = {} /\ held = {} /\ failed = {}
      BY DEF Init, Working
    <2>2. \A s \in Scopes : ~Opened(s)
      BY DEF Init, Opened
    <2>3. Keep(Keepers, held)
      BY <2>1 DEF Keep, Keepers
    <2>4. reserved = [n \in Nodes |-> IF n \in Working THEN Lock[n] ELSE None]
      BY <2>1 DEF Init
    <2> QED BY <2>1, <2>2, <2>3, <2>4 DEF KeepInv
  <1>2. NodeType /\ IdleWhenParked /\ DependenciesFirst /\ KeepInv /\ [Next]_vars => KeepInv'
    <2> SUFFICES ASSUME NodeType, IdleWhenParked, DependenciesFirst, KeepInv, [Next]_vars
                 PROVE  KeepInv'
      OBVIOUS
    <2>1. ASSUME NEW n \in Nodes, Start(n) PROVE KeepInv'
      BY <2>1, KeepStart
    <2>2. ASSUME NEW n \in Nodes, Receive(n) PROVE KeepInv'
      <3>1. /\ node[n] = "sending" /\ node' = [node EXCEPT ![n] = "done"]
            /\ UNCHANGED <<failed, held, reserved, open>>
            /\ walk # "closed" /\ walk' # "closed"
        BY <2>2 DEF Receive, lockVars
      <3>2. Working' = Working /\ Keepers' = Keepers
        BY <3>1 DEF Working, Keepers, NodeType
      <3>3. \A s \in Scopes : Opened(s)' <=> Opened(s)
        BY <3>1 DEF Opened, NodeType
      <3>4. \A m \in failed' : node'[m] \in {"sending", "done"}
        BY <3>1 DEF KeepInv, NodeType
      <3> QED BY <3>1, <3>2, <3>3, <3>4 DEF KeepInv
    <2>3. CASE Goroutine
      BY <2>3, KeepGoroutine
    <2>4. CASE CloseActiveScopes
      <3>1. /\ UNCHANGED <<node, failed, reserved>> /\ open' = {} /\ walk' = "closed"
            /\ held' = held \ {Lock[s] : s \in open} /\ walk = "returned"
        BY <2>4 DEF CloseActiveScopes
      <3>2. Working = {} /\ Working' = {}
        BY <3>1 DEF IdleWhenParked, Running, Working
      <3>3. held' = {}
        BY <3>1, <3>2 DEF KeepInv, Keep, Keepers
      <3>4. Keep(Keepers', held')
        BY <3>1, <3>2, <3>3 DEF Keep, Keepers
      <3> QED BY <3>1, <3>2, <3>4 DEF KeepInv
    <2>5. CASE EndStarting \/ Wake \/ NoticeInterrupt \/ EndDraining \/ Interrupt \/ UNCHANGED vars
      <3>1. /\ UNCHANGED <<node, failed, held, reserved, open>>
            /\ walk' # "closed" => walk # "closed"
            /\ walk' = "closed" => walk = "closed"
        BY <2>5 DEF EndStarting, Wake, NoticeInterrupt, EndDraining, Interrupt, vars, lockVars, walkVars
      <3>2. Working' = Working /\ Keepers' = Keepers
        BY <3>1 DEF Working, Keepers
      <3>3. \A s \in Scopes : Opened(s)' <=> Opened(s)
        BY <3>1 DEF Opened
      <3> QED BY <3>1, <3>2, <3>3 DEF KeepInv
    <2> QED BY <2>1, <2>2, <2>3, <2>4, <2>5 DEF Next, Walker
  <1> QED BY <1>1, <1>2, NodeTypes, ParkedIsIdle, WalkKeepsDependencies, PTL DEF Spec

\* A lock that is taken has exactly one holder, who is at work or is an open scope, and no two
\* targets run under one lock, on every graph in which nothing that runs under a scope names
\* the scope's lock, whatever fails and whenever the caller cancels (tryReserveExecutionNode,
\* releaseExecutionNode, finishScope, closeActiveScopes).
THEOREM LocksAreKeptAlways ==
  ASSUME NothingBorrowed PROVE Spec => []LocksAreKept
  <1>1. NodeType /\ RestType /\ KeepInv => LocksAreKept
    <2> SUFFICES ASSUME NodeType, RestType, KeepInv PROVE LocksAreKept
      OBVIOUS
    <2> USE Roles
    <2>1. /\ open \subseteq Scopes
          /\ reserved = [n \in Nodes |-> IF n \in Working THEN Lock[n] ELSE None]
          /\ held = {Lock[h] : h \in Keepers} \ {None}
          /\ \A g, h \in Keepers : Lock[g] = Lock[h] /\ Lock[g] # None => g = h
          /\ Working \subseteq Nodes /\ Keepers \subseteq Nodes
      BY DEF KeepInv, Keep, Keepers, Working
    <2>2. WalkTypeOK
      <3>1. held \subseteq Locks
        BY <2>1 DEF Locks
      <3>2. reserved \in [Nodes -> Locks \cup {None}]
        BY <2>1 DEF Locks
      <3> QED BY <2>1, <3>1, <3>2 DEF WalkTypeOK, NodeType, RestType
    <2>3. ASSUME NEW l \in Locks PROVE Holders(l) = {h \in Keepers : Lock[h] = l}
      <3>1. l # None
        BY DEF Locks
      <3>2. {n \in Nodes : reserved[n] = l} = {h \in Working : Lock[h] = l}
        BY <2>1, <3>1
      <3>3. ASSUME NEW s \in open, Lock[s] = l, NEW t \in open \cap Members[s] PROVE Lock[t] # l
        BY <2>1, <3>1, <3>3 DEF NothingBorrowed
      <3> QED BY <3>2, <3>3 DEF Holders, Keepers
    <2>4. OneHolderPerLock
      BY <2>1, <2>3 DEF OneHolderPerLock, Locks
    <2>5. SameLockNeverTogether
      BY <2>1 DEF SameLockNeverTogether, Keepers, Working
    <2>6. ASSUME NEW l \in held PROVE Holders(l) # {}
      <3>1. l \in Locks
        BY <2>1 DEF Locks
      <3>2. PICK h \in Keepers : Lock[h] = l
        BY <2>1
      <3>3. h \in Holders(l)
        BY <2>3, <3>1, <3>2
      <3> QED BY <3>3
    <2>7. HeldLocksHaveHolders
      BY <2>6 DEF HeldLocksHaveHolders
    <2> QED BY <2>2, <2>4, <2>5, <2>7 DEF LocksAreKept
  <1> QED BY <1>1, NodeTypes, RestTypes, KeepInvHolds, PTL
=============================================================================
