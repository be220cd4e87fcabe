---------------------------- MODULE MCExecutionWalk ----------------------------
(* Walks over the graphs that buildExecutionGraph makes of four projects.  *)
EXTENDS ExecutionWalk, ExecutionGraph, TLC

Composed(depends, steps, members, names) ==
  LET lists(f) == [t \in names |-> IF t \in DOMAIN f THEN f[t] ELSE <<>>] IN
  [depends |-> lists(depends), steps |-> lists(steps), members |-> lists(members)]

NoLists == <<>>

BarriersOf(graph) == {n \in graph.nodes : n[1] = "barrier"}
ScopesOf(graph) == {Node(n[2]) : n \in {n \in graph.nodes : n[1] = "scope_start"}}
StartsOf(graph) == [s \in ScopesOf(graph) |-> ScopeStart(s[2])]
RankOf(graph) ==
  [n \in graph.nodes |-> Cardinality({m \in graph.nodes : HasPath(graph.edges, m, n)})]
MembersOf(graph) ==
  [n \in graph.nodes |-> {s \in ScopesOf(graph) : <<n, s>> \in graph.members}]
LockOf(graph, locks) ==
  [n \in graph.nodes |->
     IF n[1] # "barrier" /\ n[2] \in DOMAIN locks THEN locks[n[2]] ELSE "none"]

\* Pipeline P (lock l1) with steps a (lock l2, needs d) and b; x (lock l1, needs d) and
\* y (lock l2) beside it: the graph that is built, written out.
P == Node("P")
a == Node("a")
b == Node("b")
d == Node("d")
x == Node("x")
y == Node("y")
start == ScopeStart("P")
afterA == Barrier("P", 1)
afterB == Barrier("P", 2)
PipelineNodes == {P, a, b, d, x, y, start, afterA, afterB}
PipelineEdges ==
  {<<d, a>>, <<d, x>>, <<d, afterA>>, <<a, afterA>>, <<afterA, b>>, <<b, afterB>>, <<afterB, P>>}
    \cup {start} \X {d, a, b, P}
PipelineRank ==
  (start :> 1) @@ (y :> 1) @@ (d :> 2) @@ (a :> 3) @@ (x :> 3) @@ (afterA :> 4) @@ (b :> 5)
    @@ (afterB :> 6) @@ (P :> 7)
PipelineScopes == {P}
PipelineStart == P :> start
PipelineBarriers == {afterA, afterB}
PipelineMembers == [n \in PipelineNodes |-> IF n \in {a, b, d} THEN {P} ELSE {}]
PipelineLock ==
  [n \in PipelineNodes |->
     IF n \in {start, P, x} THEN "l1" ELSE IF n \in {a, y} THEN "l2" ELSE "none"]

\* It is what buildExecutionGraph makes of those declarations.
ASSUME PipelineIsBuilt ==
  LET built ==
        BuildExecutionGraph(
          Composed([a |-> <<"d">>, x |-> <<"d">>], [P |-> <<"a", "b">>], NoLists,
                   {"P", "a", "b", "d", "x", "y"}),
          <<"P", "x", "y">>)
  IN /\ built.nodes = PipelineNodes /\ built.edges = PipelineEdges
     /\ MembersOf(built) = PipelineMembers

\* Group O (lock l1) of group I (lock l1) and o; I of i; x (lock l1) beside them.
Nested ==
  BuildExecutionGraph(
    Composed(NoLists, NoLists, [O |-> <<"I", "o">>, I |-> <<"i">>], {"O", "I", "i", "o", "x"}),
    <<"O", "x">>)
NestedNodes == Nested.nodes
NestedEdges == Nested.edges
NestedRank == RankOf(Nested)
NestedScopes == ScopesOf(Nested)
NestedStart == StartsOf(Nested)
NestedMembers == MembersOf(Nested)
NestedLock == LockOf(Nested, [O |-> "l1", I |-> "l1", x |-> "l1"])

\* Group G (lock l1) of m and n, both with lock l1.
Shared ==
  BuildExecutionGraph(Composed(NoLists, NoLists, [G |-> <<"m", "n">>], {"G", "m", "n"}), <<"G">>)
SharedNodes == Shared.nodes
SharedEdges == Shared.edges
SharedRank == RankOf(Shared)
SharedScopes == ScopesOf(Shared)
SharedStart == StartsOf(Shared)
SharedMembers == MembersOf(Shared)
SharedLock == LockOf(Shared, [G |-> "l1", m |-> "l1", n |-> "l1"])

\* Pipeline O (lock l1) of group M (no lock) of group I (lock l1) of i.
Deep ==
  BuildExecutionGraph(
    Composed(NoLists, [O |-> <<"M">>], [M |-> <<"I">>, I |-> <<"i">>], {"O", "M", "I", "i"}),
    <<"O">>)
DeepNodes == Deep.nodes
DeepEdges == Deep.edges
DeepRank == RankOf(Deep)
DeepScopes == ScopesOf(Deep)
DeepStart == StartsOf(Deep)
DeepBarriers == BarriersOf(Deep)
DeepMembers == MembersOf(Deep)
DeepLock == LockOf(Deep, [O |-> "l1", I |-> "l1"])
=============================================================================
