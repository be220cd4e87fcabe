---------------------------- MODULE ExecutionGraph ----------------------------
(***************************************************************************)
(* How a plan is laid out as the graph that dag.Walk runs: the plan order   *)
(* (internal/runner plan.go), then targets, scope starts and barriers       *)
(* (execution_graph.go).  Edge kinds and depths are left out: the walk      *)
(* counts each pair of nodes once, whatever its kinds.                      *)
(*                                                                          *)
(* A project is [depends, steps, members]: by target, the targets it        *)
(* depends on, the steps of a pipeline, the members of a group.             *)
(***************************************************************************)
EXTENDS Naturals, Sequences, FiniteSets, SequencesExt, TLC

Children(project, name) == project.steps[name] \o project.members[name]
IsComposite(project, name) == Children(project, name) # <<>>

\* runPlanner.visit: dependencies and children first, of what is Plannable.
RECURSIVE Visit(_, _, _)
Visit(project, order, name) ==
  IF name \in ToSet(order) THEN order
  ELSE Append(FoldLeft(LAMBDA done, child : Visit(project, done, child),
                       order, project.depends[name] \o Children(project, name)),
              name)

\* BuildPlanForTargets
PlanOrder(project, requested) ==
  FoldLeft(LAMBDA done, name : Visit(project, done, name), <<>>, requested)

\* compositeEdges: sorted by the place of the child in the plan.
InPlanOrder(order, children) == SelectSeq(order, LAMBDA name : name \in ToSet(children))

\* compositeChildrenOfKind
ChildrenOfKind(order, children) == InPlanOrder(order, children)

-----------------------------------------------------------------------------
Node(name) == <<"target", name, 0>>
ScopeStart(name) == <<"scope_start", name, 0>>
Barrier(name, i) == <<"barrier", name, i>>

\* executionGraphBuilder
Builder(project, requested) ==
  [project |-> project, order |-> PlanOrder(project, requested),
   nodes |-> {}, edges |-> {}, members |-> {}, closures |-> <<>>]

RECURSIVE Reach(_, _)
Reach(edges, from) ==
  LET next == from \cup {e[2] : e \in {e \in edges : e[1] \in from}} IN
  IF next = from THEN from ELSE Reach(edges, next)

\* runPlanner.visit: every target is known and none is needed by itself.
Needs(project) ==
  UNION {{<<t, d>> : d \in ToSet(project.depends[t] \o Children(project, t))} :
         t \in DOMAIN project.depends}
Plannable(project, requested) ==
  LET needs == Needs(project)
      planned == Reach(needs, ToSet(requested))
  IN /\ planned \subseteq DOMAIN project.depends
     /\ \A t \in planned : t \notin Reach(needs, {e[2] : e \in {e \in needs : e[1] = t}})

HasPath(edges, from, to) == to \in Reach(edges, {from})

AddEdgesTo(b, from, n) == [b EXCEPT !.edges = @ \cup {<<m, n>> : m \in from}]

\* addExecutionEdge to several nodes, and from several: an edge that would close a
\* cycle is left out.
AddExecutionEdgesFrom(b, n, to) ==
  [b EXCEPT !.edges = @ \cup {<<n, m>> : m \in {m \in to : ~HasPath(b.edges, m, n)}}]
AddExecutionEdgesTo(b, from, n) ==
  [b EXCEPT !.edges = @ \cup {<<m, n>> : m \in {m \in from : ~HasPath(b.edges, n, m)}}]

AddNode(b, n) == [b EXCEPT !.nodes = @ \cup {n}]
AddMemberScope(b, nodes, scope) ==
  [b EXCEPT !.members = @ \cup {<<n, Node(scope)>> : n \in nodes}]

Closure(b, name) == {Node(t) : t \in b.closures[name]}
ClosuresFor(b, names) == UNION {Closure(b, t) : t \in ToSet(names)}
StartOrTarget(b, name) ==
  IF IsComposite(b.project, name) THEN ScopeStart(name) ELSE Node(name)

-----------------------------------------------------------------------------
RECURSIVE AddClosure(_, _)

AddScopeStart(b, name) ==
  LET before == {Node(t) : t \in ToSet(b.project.depends[name])} IN
  AddEdgesTo(AddNode(b, ScopeStart(name)), before, ScopeStart(name))

\* One step: under the scope, after the barrier of the step before, and before its
\* own, unless an earlier step or a dependency of the pipeline has it already.
AddStep(acc, name, i, step) ==
  LET b == AddClosure(acc.builder, step)
      nodes == Closure(b, step)
      root == StartOrTarget(b, step)
      fresh == ({root} \cup nodes) \ acc.previous
      scoped == AddMemberScope(AddExecutionEdgesFrom(b, ScopeStart(name), fresh), fresh, name)
      after == IF i = 1 THEN scoped
               ELSE AddExecutionEdgesFrom(scoped, Barrier(name, i - 1), {root} \cup fresh)
      barred == AddExecutionEdgesTo(AddNode(after, Barrier(name, i)), nodes, Barrier(name, i))
  IN [builder |-> barred, previous |-> acc.previous \cup nodes]

AddPipeline(b, name, steps) ==
  LET begun == [builder |-> AddScopeStart(b, name),
                previous |-> ClosuresFor(b, b.project.depends[name])]
      built == FoldLeft(LAMBDA acc, i : AddStep(acc, name, i, steps[i]), begun,
                        [i \in DOMAIN steps |-> i]).builder
  IN AddExecutionEdgesTo(built, {Barrier(name, Len(steps)), ScopeStart(name)}, Node(name))

\* Slip: the dependencies of the group count as its members.
AddMemberAnyhow(before, name, acc, member) ==
  LET b == AddClosure(acc, member)
      nodes == Closure(b, member)
      fresh == {StartOrTarget(b, member)} \cup nodes
      scoped == AddMemberScope(AddExecutionEdgesFrom(b, ScopeStart(name), fresh), fresh, name)
  IN AddExecutionEdgesTo(scoped, nodes, Node(name))

AddMember(before, name, acc, member) ==
  LET b == AddClosure(acc, member)
      nodes == Closure(b, member)
      fresh == ({StartOrTarget(b, member)} \cup nodes) \ before
      scoped == AddMemberScope(AddExecutionEdgesFrom(b, ScopeStart(name), fresh), fresh, name)
  IN AddExecutionEdgesTo(scoped, nodes, Node(name))

AddGroup(b, name, members) ==
  LET before == ClosuresFor(b, b.project.depends[name])
      built == FoldLeft(LAMBDA acc, member : AddMember(before, name, acc, member),
                        AddScopeStart(b, name), members)
  IN AddExecutionEdgesTo(built, {ScopeStart(name)}, Node(name))

AddDependency(b, name, dep) == AddEdgesTo(AddClosure(b, dep), {Node(dep)}, Node(name))

AddClosure(b, name) ==
  IF name \in DOMAIN b.closures THEN b
  ELSE
    LET project == b.project
        steps == ChildrenOfKind(b.order, project.steps[name])
        members == ChildrenOfKind(b.order, project.members[name])
        depended == FoldLeft(LAMBDA acc, dep : AddDependency(acc, name, dep),
                             AddNode(b, Node(name)), project.depends[name])
        sequenced == IF steps = <<>> THEN depended ELSE AddPipeline(depended, name, steps)
        built == IF members = <<>> THEN sequenced ELSE AddGroup(sequenced, name, members)
        below == ToSet(project.depends[name] \o steps \o members)
    IN [built EXCEPT !.closures =
          (name :> ({name} \cup UNION {built.closures[t] : t \in below})) @@ @]

BuildExecutionGraph(project, requested) ==
  FoldLeft(AddClosure, Builder(project, requested), requested)
=============================================================================
