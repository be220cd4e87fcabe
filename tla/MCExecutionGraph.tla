---------------------------- MODULE MCExecutionGraph ----------------------------
(* The graphs of small projects, shell targets a, b and c, a group G and a     *)
(* pipeline P that may have the group for a step, and of the projects that    *)
(* small Bachfiles load to.                                                   *)
EXTENDS ExecutionGraph, MCBachfiles

CONSTANTS
  Requests,   \* the target lists `bach run` may be given
  AnyPlan    \* FALSE: plans as a reader of the declarations expects them

WithAStep == {<<"b", "P">>}
Several == {<<"P">>, <<"b", "P">>, <<"G", "P">>, <<"P", "G">>}

Names == {"a", "b", "c", "G", "P"}
Shells == {"a", "b", "c"}

Only(name, value) == [t \in Names |-> IF t = name THEN value ELSE <<>>]
Lists(set, low, high) ==
  UNION {{l \in [1..n -> set] : \A i, j \in 1..n : l[i] = l[j] => i = j} : n \in low..high}

\* Without cycles: a needs nothing, b may need a, c may need a or b, the composites a.
Projects ==
  {[depends |-> [t \in Names |-> CASE t = "b" -> b [] t = "c" -> c [] t = "G" -> g
                                    [] t = "P" -> p [] OTHER -> <<>>],
    steps |-> Only("P", steps), members |-> Only("G", members)] :
     b \in Lists({"a"}, 0, 1), c \in Lists({"a", "b"}, 0, 1), g \in Lists({"a"}, 0, 1),
     p \in Lists({"a"}, 0, 1), steps \in Lists(Shells \cup {"G"}, 1, 3),
     members \in Lists(Shells, 1, 2)}

\* The plan lists the steps of each pipeline in the order they are declared in.
StepsAsDeclared(project, requested) ==
  LET order == PlanOrder(project, requested) IN
  \A p \in ToSet(order) : InPlanOrder(order, project.steps[p]) = project.steps[p]

\* No pipeline depends on one of its own steps.
NeedsNoStep(project) ==
  \A p \in DOMAIN project.steps : ToSet(project.depends[p]) \cap ToSet(project.steps[p]) = {}

AsExpected(project, requested) ==
  AnyPlan \/ (StepsAsDeclared(project, requested) /\ NeedsNoStep(project))

VARIABLES project, requested, graph, after   \* after: by node, what runs after it

planVars == <<project, requested, graph, after>>
vars == <<loadVars, planVars>>

NoPlan == [depends |-> <<>>, steps |-> <<>>, members |-> <<>>]

\* Either a project is there already, or its Bachfile has to be loaded first.
Init ==
  /\ LoadInit /\ after = <<>>
  /\ \/ project \in Projects /\ requested \in Requests /\ source = None
        /\ AsExpected(project, requested)
     \/ project = NoPlan /\ requested = <<>>
        /\ source \in BlockSources \cup ImportSources \cup ValueSources
  /\ graph = Builder(project, requested)

Load == source # None /\ LoadNext /\ UNCHANGED planVars

\* The project that was loaded, when the targets asked for can be planned.
PlanLoaded ==
  /\ Loaded /\ project = NoPlan
  /\ requested' \in Requests
  /\ Plannable(RuntimeProject, requested') /\ AsExpected(RuntimeProject, requested')
  /\ project' = RuntimeProject /\ graph' = Builder(project', requested')
  /\ UNCHANGED <<loadVars, after>>

Build ==
  /\ project # NoPlan /\ graph.closures = <<>>
  /\ graph' = BuildExecutionGraph(project, requested)
  /\ after' = [n \in graph'.nodes |->
                Reach(graph'.edges, {e[2] : e \in {e \in graph'.edges : e[1] = n}})]
  /\ UNCHANGED <<loadVars, project, requested>>

Next == Load \/ PlanLoaded \/ Build

Spec == Init /\ [][Next]_vars

-----------------------------------------------------------------------------
Composites == {p \in DOMAIN graph.closures : IsComposite(project, p)}
Closed(names) == UNION {graph.closures[t] : t \in names}
NodesOf(names) == {Node(t) : t \in names} \cup {ScopeStart(t) : t \in names \cap Composites}
Required(p) == Closed(ToSet(project.depends[p]))

\* What the declarations say: a dependency runs first; a composite opens after its
\* dependencies, then runs what it brings in, then is done; and what a step brings in,
\* unless an earlier step or the pipeline needs it already, runs after all of the
\* earlier steps.
Dependencies ==
  UNION {NodesOf(ToSet(project.depends[t])) \X NodesOf({t}) : t \in DOMAIN graph.closures}
Wrapping ==
  UNION {LET inside == Closed(ToSet(Children(project, p))) IN
           ({ScopeStart(p)} \X NodesOf(inside \ Required(p))) \cup (NodesOf(inside) \X {Node(p)})
         : p \in Composites}
Earlier(p, j) == Closed({project.steps[p][k] : k \in 1..(j - 1)})
Sequence ==
  UNION {UNION {LET step == graph.closures[project.steps[p][j]] IN
                  NodesOf(Earlier(p, j)) \X NodesOf(step \ (Earlier(p, j) \cup Required(p)))
                : j \in DOMAIN project.steps[p]} : p \in Composites}

\* The declarations can all be met.
Consistent ==
  LET declared == Dependencies \cup Wrapping \cup Sequence IN
  \A n \in DOMAIN after : n \notin Reach(declared, {e[2] : e \in {e \in declared : e[1] = n}})

\* No plan is refused for a cycle that the builder has put there itself: the edges
\* of several composites never close one (addExecutionEdge, ValidateAcyclic).
GraphIsAcyclic == \A n \in DOMAIN after : n \notin after[n]

\* "steps: existing target names to run in order": what a step brings in runs after
\* all of every earlier step (addPipeline).
StepsInOrder == Consistent => \A e \in Sequence : e[2] \in after[e[1]]

\* What a composite brings in runs between its start and its end, so that its lock
\* and its timeout cover it, and a dependency runs first (addClosure, addPipeline,
\* addGroup).
ScopesWrapMembers ==
  Consistent => \A e \in Dependencies \cup Wrapping : e[2] \in after[e[1]]

\* No node is taken for a member of a scope that is not open around it: it would not
\* wait for the lock that the scope has (addMemberScope, tryReserveLock).
MembersInsideScope ==
  Consistent => \A m \in graph.members :
    m[1] \in after[ScopeStart(m[2][2])] /\ m[2] \in after[m[1]]

\* The graph orders all that the declarations order, steps, scopes and dependencies, and
\* takes for a member only what the scope is open around, without a cycle of the builder's
\* making (BuildExecutionGraph).
GraphFollowsDeclarations ==
  GraphIsAcyclic /\ StepsInOrder /\ ScopesWrapMembers /\ MembersInsideScope

\* In a project that was loaded, what makes an input has run before the targets that
\* read it, also when they open a scope (wireProducedInputs, addClosure).
ProductsComeFirst ==
  Loaded /\ Consistent => \A n \in DOMAIN graph.closures : \A m \in DOMAIN Targets \ {n} :
    ToSet(Targets[n].inputs) \cap ToSet(Targets[m].produces) # {} =>
      NodesOf({n}) \subseteq after[Node(m)]
=============================================================================
