------------------------------ MODULE MCBachfiles ------------------------------
(* Small Bachfiles: every shape of imports between three files, every way of  *)
(* a few values to refer to one another, and a project of each kind of block  *)
(* with one or two of its declarations changed.                               *)
EXTENDS ConfigLoad, TLC

NoOptions ==
  [withProject |-> {Root}, given |-> [option |-> {}, capitals |-> {}, exact |-> {}],
   profiles |-> <<>>, os |-> {}, default |-> None, runPlugins |-> TRUE]

SourceOf(options, files) == options @@ [files |-> files]

Target(kind, name) ==
  [kind |-> kind, name |-> name, env |-> <<>>, depends |-> <<>>, children |-> <<>>,
   inputs |-> <<>>, produces |-> <<>>, literal |-> TRUE, template |-> None, mode |-> None,
   provider |-> None, prompt |-> None, policy |-> None, subject |-> None, plan |-> None,
   workspace |-> None]

-----------------------------------------------------------------------------
Import(file) == [kind |-> "import", file |-> file]
Around(file, others) ==
  LET own == Target("shell", file) IN
  {<<own>>} \cup {<<Import(f), own>> : f \in others} \cup {<<own, Import(f)>> : f \in others}
Between(file, others) ==
  Around(file, others) \cup
  {<<Import(f), Target("shell", file), Import(g)>> : f, g \in others}

ImportSources ==
  {SourceOf([NoOptions EXCEPT !.withProject = @ \cup w],
            Root :> r @@ "lib" :> l @@ "deep" :> d) :
     r \in Between(Root, {"lib", "deep", "gone"}), l \in Between("lib", {Root, "lib", "deep"}),
     d \in Around("deep", {Root, "lib"}), w \in {{}, {"deep"}}}

-----------------------------------------------------------------------------
Var(name, refs) == [kind |-> "var", name |-> name, refs |-> refs]
Entry(name, refs) == [name |-> name, refs |-> refs]
Optionally(name, choices) == {<<>>} \cup {<<Entry(name, refs)>> : refs \in choices}
x == <<"var", "x">>
A == <<"env", "A">>
B == <<"env", "B">>
Home == <<"env", "HOME">>

ValueSources ==
  {SourceOf([NoOptions EXCEPT !.given = g, !.profiles = p, !.os = os],
            Root :> <<Var("x", vx), Var("y", vy), [kind |-> "env", name |-> "env", env |-> a \o b],
                      [kind |-> "profile", name |-> "p", env |-> pa \o pb],
                      [kind |-> "profile", name |-> "q", env |-> <<Entry("A", {})>>],
                      [Target("shell", "t") EXCEPT !.env = ta]>>) :
     os \in {{"HOME"}, {"HOME", "B"}},
     vx \in {None, {}, {<<"var", "y">>}}, vy \in {{}, {x}, {Home}},
     g \in {[option |-> {}, capitals |-> {}, exact |-> {}],
            [option |-> {"x"}, capitals |-> {"x"}, exact |-> {}],
            [option |-> {}, capitals |-> {}, exact |-> {"y"}]},
     p \in {<<>>, <<"p">>, <<"p", "q">>},
     a \in Optionally("A", {{}, {B}, {x, Home}}), b \in Optionally("B", {{}, {A}}),
     pa \in Optionally("A", {{B}}), pb \in Optionally("B", {{}, {A}}),
     ta \in Optionally("A", {{}, {B}})}

-----------------------------------------------------------------------------
Workflow ==
  [name |-> "w", plan |-> <<"T">>, implement |-> <<"T">>,
   merge |-> <<[target |-> None, template |-> "T"]>>,
   deploy |-> <<[name |-> "prod", target |-> "a", approval |-> TRUE]>>,
   verify |-> <<[name |-> "smoke", target |-> "b", approval |-> None]>>]
Routes == <<[name |-> "bug", workflow |-> "w"]>>
FactoryOf(workflows, routes) ==
  [kind |-> "factory", name |-> "f", workflows |-> workflows,
   triggers |-> <<[name |-> "issues", routes |-> routes]>>]
Plugin(name, type, patches) ==
  [kind |-> "plugin", name |-> name, type |-> type, timeout |-> None, fails |-> FALSE,
   inputs |-> IF type = "graph" THEN {"extra"} ELSE {}, patches |-> patches]
Input(name) == [kind |-> "input", name |-> name, src |-> TRUE, srcs |-> FALSE]
Provider(type, command) == [kind |-> "provider", name |-> "pr", type |-> type, command |-> command]
Prompt(path) == [kind |-> "prompt", name |-> "pm", path |-> path]
Policy(required, reviewers) ==
  [kind |-> "policy", name |-> "q", required |-> required, reviewers |-> reviewers,
   literal |-> TRUE, subject |-> None]
Template ==
  [kind |-> "agent_template", name |-> "T", mode |-> None, provider |-> "pr",
   prompt |-> "pm", policy |-> "q", workspace |-> None]
Quality(target, parser) == [kind |-> "quality", name |-> target, parser |-> parser]
Alias(name, target) == [kind |-> "alias", name |-> name, target |-> target]
Implementer(name) == [Target("agent", name) EXCEPT !.template = "T", !.plan = "plan"]
Reviewer == [Target("agent", "R") EXCEPT !.mode = "review", !.provider = "pr"]
Merger == [Target("agent", "M") EXCEPT !.mode = "merge", !.provider = "pr", !.subject = "W"]
Maker == [Target("shell", "a") EXCEPT !.produces = <<"gen">>]
User == [Target("shell", "b") EXCEPT !.inputs = <<"file", "gen">>]
Late == [Target("shell", "c") EXCEPT !.inputs = <<"extra">>]
Group == [Target("group", "G") EXCEPT !.children = <<"a", "b">>]
Pipeline == [Target("pipeline", "P") EXCEPT !.children = <<"c", "b">>]

Sample ==
  <<Input("gen"), Provider("agent", TRUE), Prompt("inside"), Policy(<<"a">>, <<"R">>), Template,
    Maker, User, Late, Group, Pipeline, Implementer("W"), Reviewer, Merger,
    FactoryOf(<<Workflow>>, <<>>), Plugin("pl", "graph", "b" :> <<"c">>),
    Plugin("ps", "quality", <<>>), Quality("a", "ps"), Alias("al", "G")>>

\* What a block may be instead, or beside, by its place.
Changes ==
  {<<1, Input("other")>>, <<1, [Input("gen") EXCEPT !.srcs = TRUE]>>,
   <<2, Provider("opencode", FALSE)>>, <<2, Provider("agent", FALSE)>>,
   <<3, Prompt(Outside)>>, <<4, Policy(<<"gone">>, <<"R">>)>>, <<4, Policy(<<>>, <<"a">>)>>,
   <<4, [Policy(<<"gone">>, <<>>) EXCEPT !.literal = FALSE]>>,
   <<4, [Policy(<<"gone">>, <<>>) EXCEPT !.subject = "W"]>>,
   <<4, [Policy(<<"a">>, <<"W">>) EXCEPT !.literal = FALSE]>>,
   <<5, [Template EXCEPT !.mode = "review"]>>, <<5, [Template EXCEPT !.policy = None]>>,
   <<5, [Template EXCEPT !.workspace = "shared"]>>, <<5, [Template EXCEPT !.workspace = Outside]>>,
   <<5, [Template EXCEPT !.prompt = "gone"]>>,
   <<6, [Maker EXCEPT !.depends = <<"b">>]>>, <<6, [Maker EXCEPT !.produces = <<"gen", "extra">>]>>,
   <<6, [Maker EXCEPT !.depends = <<"gone">>]>>, <<6, [Maker EXCEPT !.inputs = <<"gen">>]>>,
   <<7, [User EXCEPT !.produces = <<"gen">>]>>, <<7, [User EXCEPT !.depends = <<"c">>]>>,
   <<7, [User EXCEPT !.depends = <<"gone">>, !.literal = FALSE]>>,
   <<8, [Late EXCEPT !.produces = <<"extra">>]>>, <<8, [Late EXCEPT !.inputs = <<"extra", "gen">>]>>,
   <<9, [Group EXCEPT !.children = <<"a", "P">>]>>, <<9, [Group EXCEPT !.inputs = <<"extra", "gen">>]>>,
   <<10, [Pipeline EXCEPT !.children = <<"G", "c">>]>>, <<10, [Pipeline EXCEPT !.children = <<"gone">>]>>,
   <<10, [Pipeline EXCEPT !.children = <<"W", "b">>]>>,
   <<11, [Implementer("W") EXCEPT !.plan = None]>>, <<11, [Implementer("W") EXCEPT !.template = "gone"]>>,
   <<12, [Reviewer EXCEPT !.mode = "implement", !.plan = "plan"]>>, <<12, Target("shell", "R")>>,
   <<13, [Merger EXCEPT !.subject = "R"]>>, <<13, Implementer("M")>>, <<13, [Implementer("W") EXCEPT !.provider = "pr"]>>,
   <<14, FactoryOf(<<Workflow, [Workflow EXCEPT !.name = "v"]>>, <<>>)>>,
   <<14, FactoryOf(<<Workflow, [Workflow EXCEPT !.name = "v"]>>, Routes)>>,
   <<14, FactoryOf(<<[Workflow EXCEPT !.deploy = <<[name |-> "prod", target |-> "al", approval |-> None]>>]>>,
                   <<>>)>>,
   <<14, FactoryOf(<<[Workflow EXCEPT !.deploy = <<[name |-> "prod", target |-> "a", approval |-> None]>> \o @]>>,
                   <<>>)>>,
   <<14, FactoryOf(<<[Workflow EXCEPT !.merge = <<[target |-> "M", template |-> None]>>, !.plan = <<"gone">>]>>,
                   Routes)>>,
   <<15, Plugin("pl", "graph", "gone" :> <<"c">>)>>,
   <<15, [Plugin("pl", "graph", <<>>) EXCEPT !.fails = TRUE]>>,
   <<15, Plugin("pl", "graph", "c" :> <<"b">>)>>, <<15, Plugin("pl", "graph", "a" :> <<"gone">>)>>,
   <<16, Plugin("ps", "graph", <<>>)>>, <<17, Quality("gone", None)>>,
   <<18, Alias("al", "gone")>>, <<18, Alias("a", "G")>>,
   <<19, Alias("of", "al")>>, <<19, Alias("al", "a")>>, <<19, Target("shell", "a")>>,
   <<19, [Policy(<<"a">>, <<"W">>) EXCEPT !.subject = "W"]>>,
   <<19, [kind |-> "resource", name |-> "extra"]>>}

Changed(sample, c) ==
  IF c[1] <= Len(sample) THEN [sample EXCEPT ![c[1]] = c[2]] ELSE Append(sample, c[2])

BlockSources ==
  {SourceOf([NoOptions EXCEPT !.default = "al", !.runPlugins = r],
            Root :> Changed(Changed(Sample, c), d)) :
     c, d \in Changes, r \in BOOLEAN} \cup
  {SourceOf([NoOptions EXCEPT !.withProject = {}], Root :> Sample)}

ASSUME SourcesAreWellFormed ==
  \A s \in BlockSources \cup ImportSources \cup ValueSources : WellFormed(s)
=============================================================================
