---------------------------- MODULE ExecutionWalk ----------------------------
(***************************************************************************)
(* One `bach run`: dag.Walk over the execution graph, the goroutine of each *)
(* node, and the named locks (internal/dag, internal/runner scheduler.go    *)
(* and session.go).  A composite target is a scope: its start node takes    *)
(* the scope's lock, its end node gives it back, and the nodes in between   *)
(* run under it.  The walker starts nodes and receives results; the         *)
(* goroutines take and release locks beside it.                             *)
(***************************************************************************)
EXTENDS Naturals, FiniteSets

CONSTANTS
  Nodes,        \* nodes of the execution graph
  Edges,        \* its edges, of every kind
  Rank,         \* a topological order: ValidateAcyclic has found one
  Scopes,       \* end nodes of pipelines and groups
  StartOf,      \* by scope: its start node
  Barriers,     \* nodes between the steps of a pipeline
  Members,      \* by node: the scopes it runs under
  Lock,         \* by node: the lock of its target, or None
  None,         \* the empty lock name
  Parallelism,
  Interruptible \* TRUE when the caller's context may be cancelled

Starts == {StartOf[s] : s \in Scopes}
Targets == Nodes \ (Scopes \cup Starts \cup Barriers)
Locks == {Lock[n] : n \in Nodes} \ {None}

ASSUME WalkAssumption ==
  /\ Edges \subseteq Nodes \X Nodes
  /\ Rank \in [Nodes -> Nat] /\ \A e \in Edges : Rank[e[1]] < Rank[e[2]]
  /\ Scopes \subseteq Nodes /\ Barriers \subseteq Nodes
  /\ StartOf \in [Scopes -> Nodes]
  /\ \A s \in Scopes : <<StartOf[s], s>> \in Edges
  /\ \A s, t \in Scopes : StartOf[s] = StartOf[t] => s = t
  /\ Scopes \cap Starts = {} /\ Barriers \cap (Scopes \cup Starts) = {}
  /\ Members \in [Nodes -> SUBSET Scopes]
  /\ DOMAIN Lock = Nodes
  /\ \A s \in Scopes : Lock[StartOf[s]] = Lock[s]
  /\ Parallelism \in Nat \ {0}
  /\ Interruptible \in BOOLEAN

VARIABLES
  node,         \* by node: waiting, its goroutine running or sending, done
  failed,       \* nodes whose result is an error
  held,         \* lockManager.held
  reserved,     \* by node: reservedLock
  open,         \* scopes with a context: scopeCtx
  walk,         \* where Walk is
  firstErr,     \* Walk has seen an error, and cancelled the others
  interrupted,  \* the caller's context is done
  signalled     \* the channel the walker holds from changed() is closed

lockVars == <<held, reserved, open, signalled>>
walkVars == <<walk, firstErr, interrupted>>
vars == <<node, failed, lockVars, walkVars>>

WalkTypeOK ==
  /\ node \in [Nodes -> {"waiting", "running", "sending", "done"}]
  /\ failed \subseteq Nodes /\ held \subseteq Locks /\ open \subseteq Scopes
  /\ reserved \in [Nodes -> Locks \cup {None}]
  /\ walk \in {"starting", "select", "blocked", "draining", "returned", "closed"}
  /\ {firstErr, interrupted, signalled} \subseteq BOOLEAN

Init ==
  /\ node = [n \in Nodes |-> "waiting"]
  /\ failed = {} /\ held = {} /\ open = {}
  /\ reserved = [n \in Nodes |-> None]
  /\ walk = "starting"
  /\ firstErr = FALSE /\ interrupted = FALSE /\ signalled = FALSE

Running == {n \in Nodes : node[n] \in {"running", "sending"}}
Succeeded(n) == node[n] = "done" /\ n \notin failed
\* Slip: one dependency is enough.
ReadyAfterOne ==
  {n \in Nodes : /\ node[n] = "waiting"
                 /\ \/ \E m \in Nodes : <<m, n>> \in Edges /\ Succeeded(m)
                    \/ \A m \in Nodes : <<m, n>> \notin Edges}

Ready == {n \in Nodes : node[n] = "waiting" /\ \A m \in Nodes : <<m, n>> \in Edges => Succeeded(m)}

-----------------------------------------------------------------------------
(* Locks *)

LockHeldByActiveScope(n) == \E s \in open \cap Members[n] : Lock[s] = Lock[n]

\* tryReserveExecutionNode: end nodes and barriers reserve nothing.
NeedsLock(n) ==
  n \in Starts \cup Targets /\ Lock[n] # None /\ ~LockHeldByActiveScope(n)

\* Slip: whether the lock is held is not asked.
StartableAnyway == Ready

Startable == {n \in Ready : NeedsLock(n) => Lock[n] \notin held}

\* release of the empty name does nothing, of any other name wakes the walker.
Release(lock) ==
  IF lock = None THEN UNCHANGED <<held, signalled>>
  ELSE held' = held \ {lock} /\ signalled' = TRUE

\* Slip: the reservation goes, the lock stays.
ForgetNode(n) ==
  /\ reserved' = [reserved EXCEPT ![n] = None]
  /\ UNCHANGED <<held, signalled>>

\* releaseExecutionNode
ReleaseNode(n) ==
  /\ Release(reserved[n])
  /\ reserved' = [reserved EXCEPT ![n] = None]

-----------------------------------------------------------------------------
(* The walker *)

\* Slip: an error does not keep the rest from starting.
MayStartAfterFailure ==
  ~interrupted /\ Cardinality(Running) < Parallelism /\ Startable # {}

MayStart ==
  ~firstErr /\ ~interrupted /\ Cardinality(Running) < Parallelism /\ Startable # {}

\* startReady.  The order in which ready nodes are tried is a preference only:
\* locks are released while it looks, so any startable node may come first.
Start(n) ==
  /\ walk = "starting" /\ MayStart /\ n \in Startable
  /\ node' = [node EXCEPT ![n] = "running"]
  /\ IF NeedsLock(n)
     THEN held' = held \cup {Lock[n]} /\ reserved' = [reserved EXCEPT ![n] = Lock[n]]
     ELSE UNCHANGED <<held, reserved>>
  /\ UNCHANGED <<failed, open, signalled, walkVars>>

\* Nothing more can be started.
EndStarting ==
  /\ walk = "starting" /\ ~MayStart
  /\ walk' = CASE Running # {} -> "select"
               [] Running = {} /\ (firstErr \/ interrupted \/ Ready = {}) -> "returned"
               [] Running = {} /\ ~firstErr /\ ~interrupted /\ Ready # {} -> "blocked"
  /\ UNCHANGED <<node, failed, lockVars, firstErr, interrupted>>

\* blockedChanged fires: a new channel is fetched and everything tried again.
Wake ==
  /\ walk \in {"select", "blocked"} /\ signalled
  /\ signalled' = FALSE /\ walk' = "starting"
  /\ UNCHANGED <<node, failed, held, reserved, open, firstErr, interrupted>>

\* ctx.Done: with goroutines at work their results are awaited first.
NoticeInterrupt ==
  /\ interrupted
  /\ \/ walk = "select" /\ walk' = "draining"
     \/ walk = "blocked" /\ walk' = "returned"
  /\ UNCHANGED <<node, failed, lockVars, firstErr, interrupted>>

Receive(n) ==
  /\ walk \in {"select", "draining"} /\ node[n] = "sending"
  /\ node' = [node EXCEPT ![n] = "done"]
  /\ firstErr' = (firstErr \/ n \in failed)
  /\ walk' = IF walk = "select" THEN "starting" ELSE walk
  /\ UNCHANGED <<failed, lockVars, interrupted>>

EndDraining ==
  /\ walk = "draining" /\ Running = {}
  /\ walk' = "returned"
  /\ UNCHANGED <<node, failed, lockVars, firstErr, interrupted>>

\* closeActiveScopes, deferred by runExecutionGraph: nobody waits for its locks any more.
CloseActiveScopes ==
  /\ walk = "returned"
  /\ walk' = "closed" /\ open' = {}
  /\ held' = held \ {Lock[s] : s \in open}
  /\ UNCHANGED <<node, failed, reserved, signalled, firstErr, interrupted>>

Walker ==
  \/ \E n \in Nodes : Start(n) \/ Receive(n)
  \/ EndStarting \/ Wake \/ NoticeInterrupt \/ EndDraining \/ CloseActiveScopes

-----------------------------------------------------------------------------
(* The goroutines: runExecutionNode *)

Send(n, ok) ==
  /\ node[n] = "running"
  /\ node' = [node EXCEPT ![n] = "sending"]
  /\ failed' = IF ok THEN failed ELSE failed \cup {n}
  /\ UNCHANGED walkVars

\* The scope opens and keeps the lock; or its operation cannot be described.
StartScope(s) ==
  LET n == StartOf[s] IN
    \/ /\ Send(n, TRUE)
       /\ open' = open \cup {s}
       /\ reserved' = [reserved EXCEPT ![n] = None]
       /\ UNCHANGED <<held, signalled>>
    \/ Send(n, FALSE) /\ ReleaseNode(n) /\ UNCHANGED open

PassBarrier(n) == n \in Barriers /\ Send(n, TRUE) /\ UNCHANGED lockVars

RunTarget(n) ==
  /\ n \in Targets
  /\ \E ok \in BOOLEAN : Send(n, ok)
  /\ ReleaseNode(n)
  /\ UNCHANGED open

\* The composite's own run, then finishScope: its lock is released whoever took it.
EndScope(s) ==
  /\ \E ok \in BOOLEAN : Send(s, ok)
  /\ open' = open \ {s}
  /\ Release(Lock[s])
  /\ UNCHANGED reserved

Goroutine ==
  \/ \E s \in Scopes : StartScope(s) \/ EndScope(s)
  \/ \E n \in Nodes : PassBarrier(n) \/ RunTarget(n)

Interrupt ==
  /\ Interruptible /\ ~interrupted /\ walk \notin {"returned", "closed"}
  /\ interrupted' = TRUE
  /\ UNCHANGED <<node, failed, lockVars, walk, firstErr>>

Next == Walker \/ Goroutine \/ Interrupt

Spec == Init /\ [][Next]_vars

\* Operations end (they fail when their context is cancelled), and Go schedules
\* every goroutine.
FairSpec ==
  /\ Spec /\ WF_vars(Walker)
  /\ \A n \in Nodes : WF_vars(PassBarrier(n)) /\ WF_vars(RunTarget(n))
  /\ \A s \in Scopes : WF_vars(StartScope(s)) /\ WF_vars(EndScope(s))

-----------------------------------------------------------------------------
\* A node runs only after everything it depends on has succeeded, errors and
\* cancellation included (Walk).
DependenciesFirst ==
  \A e \in Edges : node[e[2]] # "waiting" => Succeeded(e[1])

\* Who has a lock: a node that reserved it, or an open scope, unless the scope
\* runs under another that has the lock already.
Holders(l) ==
  {n \in Nodes : reserved[n] = l} \cup
  {s \in open : Lock[s] = l /\ \A t \in open \cap Members[s] : Lock[t] # l}

\* "lock held for the whole group invocation": never two holders at a time
\* (tryReserveLock, finishScope, releaseExecutionNode).
OneHolderPerLock == \A l \in Locks : \A m, n \in Holders(l) : m = n

\* "Ready targets with the same lock do not run concurrently".
SameLockNeverTogether ==
  \A m, n \in Targets :
    /\ node[m] = "running" /\ node[n] = "running"
    /\ Lock[m] = Lock[n] /\ Lock[m] # None
    => m = n

\* A lock that is held has a holder who will release it: no path through an error
\* or a cancellation leaks one (releaseExecutionNode, closeActiveScopes).
HeldLocksHaveHolders == \A l \in held : Holders(l) # {}

\* A lock that is taken has exactly one holder, and who runs without one borrows it from
\* the scope around it (tryReserveExecutionNode, finishScope, closeActiveScopes).
LocksAreKept ==
  WalkTypeOK /\ OneHolderPerLock /\ SameLockNeverTogether /\ HeldLocksHaveHolders

\* When Walk returns nothing is running any more, so that the run can be recorded
\* as finished (Walk, runExecutionGraph).
NothingOutlivesWalk == walk \in {"returned", "closed"} => Running = {}

\* Walk returns without an error only when everything has run: it never gives up
\* with "dag walk made no progress".
EverythingRan ==
  walk = "closed" /\ ~firstErr /\ ~interrupted => \A n \in Nodes : Succeeded(n)

\* After the first error or the cancellation nothing more is started (startReady).
NothingStartsAfterFailure ==
  [][firstErr \/ interrupted => \A n \in Nodes : node[n] = "waiting" => node'[n] = "waiting"]_vars

\* Whichever way the walk ends, nothing is left at work, nothing was started after it
\* was doomed, and nothing is missing from one that succeeded (Walk).
StopsCleanly ==
  [](NothingOutlivesWalk /\ EverythingRan) /\ NothingStartsAfterFailure

\* The run comes to an end: no signal of a released lock is lost between the
\* attempt to reserve it and the wait (changed, Walk).
WalkEnds == <>(walk = "closed")
=============================================================================
