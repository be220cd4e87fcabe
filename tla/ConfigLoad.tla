------------------------------ MODULE ConfigLoad ------------------------------
(***************************************************************************)
(* How a Bachfile becomes a project (internal/config): imports are spliced  *)
(* in, variables and environments are resolved in whatever order Go's maps  *)
(* give, declarations are registered and wired, and what does not fit makes *)
(* the load fail.                                                           *)
(*                                                                          *)
(* A file is a sequence of import lines, [kind |-> "import", file], and of  *)
(* blocks, records with a kind, a name and what other declarations read of  *)
(* them.  A value is the set of the <<layer, name>> pairs it was made from. *)
(***************************************************************************)
EXTENDS Naturals, Sequences, FiniteSets, SequencesExt

CONSTANTS
  None,   \* an attribute that is not written
  Root    \* the file that `bach` is given

VARIABLES
  source,   \* the files, the options and the process environment
  phase,    \* how far loadWithOptions has come
  stack,    \* the files being read, with the next item of each
  seen,     \* importLoader.seen
  blocks,   \* the blocks spliced so far
  layers,   \* the environments still to be resolved, the first one next
  layer,    \* the one being resolved
  values,   \* by layer, what its names mean
  config    \* config.Project

loadVars == <<source, phase, stack, seen, blocks, layers, layer, values, config>>

KindsIn(list, kinds) ==
  LET chosen[n \in 0 .. Len(list)] ==
        IF n = 0 THEN <<>>
        ELSE IF list[n].kind \in kinds THEN Append(chosen[n - 1], list[n]) ELSE chosen[n - 1]
  IN chosen[Len(list)]
OfKinds(kinds) == KindsIn(blocks, kinds)
OfKind(kind) == KindsIn(blocks, {kind})
NamesOf(list) == {b.name : b \in ToSet(list)}
NoneTwice(list) == \A i, j \in DOMAIN list : list[i].name = list[j].name => i = j
ByName(list) ==
  [n \in NamesOf(list) |-> list[CHOOSE i \in DOMAIN list : list[i].name = n]]

TargetKinds == {"shell", "image", "pipeline", "group", "agent"}
CompositeKinds == {"pipeline", "group"}

\* A source: options, and files whose blocks have the attributes that their kind has,
\* each of them written once.
TargetFields ==
  {"kind", "name", "env", "depends", "children", "inputs", "produces", "literal", "template",
   "mode", "provider", "prompt", "policy", "subject", "plan", "workspace"}
IsList(value) == value \in Seq(ToSet(value))
WellFormed(s) ==
  /\ Root \in DOMAIN s.files /\ IsList(s.profiles)
  /\ \A f \in DOMAIN s.files :
       /\ IsList(s.files[f])
       /\ \A b \in ToSet(s.files[f]) :
            /\ b.kind \in TargetKinds => TargetFields \subseteq DOMAIN b
            /\ b.kind = "policy" => IsList(b.required) /\ IsList(b.reviewers)
  /\ \A f, g \in DOMAIN s.files : \A i \in DOMAIN s.files[f], j \in DOMAIN s.files[g] :
       s.files[f][i] = s.files[g][j] /\ s.files[f][i].kind # "import" => f = g /\ i = j

\* The empty Project that loadWithOptions starts from.
EmptyProject ==
  [inputs |-> {}, resources |-> {}, producers |-> <<>>, providers |-> <<>>, prompts |-> {},
   policies |-> <<>>, templates |-> <<>>, factories |-> <<>>, targets |-> <<>>,
   plugins |-> <<>>, aliases |-> <<>>]

LoadInit ==
  /\ phase = "imports" /\ stack = <<[file |-> Root, next |-> 1]>> /\ seen = {Root}
  /\ blocks = <<>> /\ layers = <<>> /\ layer = None /\ values = <<>>
  /\ config = EmptyProject

Refuse == phase' = "refused" /\ UNCHANGED <<source, stack, seen, blocks, layers, layer, values, config>>

\* mergeEnvMaps: what the first map leaves out, the second one says.
Over(first, second) ==
  [n \in DOMAIN first \cup DOMAIN second |->
     IF n \in DOMAIN first THEN first[n] ELSE second[n]]
Single(n, value) == [m \in {n} |-> value]

-----------------------------------------------------------------------------
\* Imports.
Item == source.files[Last(stack).file][Last(stack).next]
AtEnd == Last(stack).next > Len(source.files[Last(stack).file])
Advanced == [stack EXCEPT ![Len(stack)].next = @ + 1]
OnStack == {frame.file : frame \in ToSet(stack)}

\* Slip: only the importing file itself is looked for.
ClosesLoop(file) == file = Last(stack).file

\* importLoader.load, indexString: the file is one that is being read.
ClosesCycle(file) == file \in OnStack

Reading == phase = "imports" /\ stack # <<>>

\* resolveImportPath, load, hasProjectBlock
ImportRefused ==
  /\ Reading /\ ~AtEnd /\ Item.kind = "import"
  /\ \/ Item.file \notin DOMAIN source.files
     \/ ClosesCycle(Item.file)
     \/ Item.file \notin seen /\ Item.file \in source.withProject
  /\ Refuse

\* A file imported again: it brings nothing more.
ImportAgain ==
  /\ Reading /\ ~AtEnd /\ Item.kind = "import"
  /\ Item.file \in seen /\ ~ClosesCycle(Item.file)
  /\ stack' = Advanced
  /\ UNCHANGED <<source, phase, seen, blocks, layers, layer, values, config>>

ImportFile ==
  /\ Reading /\ ~AtEnd /\ Item.kind = "import"
  /\ Item.file \in DOMAIN source.files \ (seen \cup source.withProject)
  /\ ~ClosesCycle(Item.file)
  /\ stack' = Append(Advanced, [file |-> Item.file, next |-> 1])
  /\ seen' = seen \cup {Item.file}
  /\ UNCHANGED <<source, phase, blocks, layers, layer, values, config>>

\* mergeImportBlocks: blocks stay where they are written.
TakeBlock ==
  /\ Reading /\ ~AtEnd /\ Item.kind # "import"
  /\ blocks' = Append(blocks, Item) /\ stack' = Advanced
  /\ UNCHANGED <<source, phase, seen, layers, layer, values, config>>

EndFile ==
  /\ Reading /\ AtEnd
  /\ stack' = Front(stack)
  /\ IF Len(stack) = 1
     THEN phase' = "values" /\ layers' = <<<<"variables">>, <<"project">>>> \o
                                          [i \in DOMAIN source.profiles |->
                                             <<"profile", source.profiles[i]>>]
     ELSE UNCHANGED <<phase, layers>>
  /\ UNCHANGED <<source, seen, blocks, layer, values, config>>

-----------------------------------------------------------------------------
\* Variables and environments.  A name is <<"var", x>> or <<"env", x>>.
Vars == {<<"var", x>> : x \in NamesOf(OfKind("var"))}

\* resolveVariables: the option wins, then BACH_VAR_ with the name in capitals,
\* then BACH_VAR_ with the name as it is.
Given(x) ==
  CASE x \in source.given.option   -> {<<<<"option">>, <<"var", x>>>>}
    [] x \in source.given.capitals -> {<<<<"capitals">>, <<"var", x>>>>}
    [] x \in source.given.exact    -> {<<<<"exact">>, <<"var", x>>>>}
    [] OTHER -> {}
GivenVars == {v \in Vars : Given(v[2]) # {}}

\* What one layer declares: by name, what its value refers to.
Declared(list, kind) ==
  [n \in {<<kind, e.name>> : e \in ToSet(list)} |->
     (CHOOSE e \in ToSet(list) : <<kind, e.name>> = n).refs]
Defaults ==
  SelectSeq(OfKind("var"), LAMBDA v : v.refs # None /\ <<"var", v.name>> \notin GivenVars)
Profile(name) == ByName(OfKind("profile"))[name].env
TargetEnv(name) == ByName(OfKinds(TargetKinds))[name].env

Entries(l) ==
  CASE l[1] = "variables" -> Defaults
    [] l[1] = "project"   -> FlattenSeq([i \in DOMAIN OfKind("env") |-> OfKind("env")[i].env])
    [] l[1] = "profile"   -> Profile(l[2])
    [] l[1] = "target"    -> TargetEnv(l[2])

ValueOf(l) == IF l \in DOMAIN values THEN values[l] ELSE <<>>

\* Later profiles over earlier ones over the environment of the project.
ProfileEnv ==
  FoldLeft(LAMBDA env, p : Over(ValueOf(<<"profile", p>>), env), <<>>, source.profiles)
RuntimeEnv == Over(ProfileEnv, ValueOf(<<"project">>))

\* What a layer starts from.
Base(l) ==
  CASE l[1] = "variables" -> [v \in GivenVars |-> Given(v[2])]
    [] l[1] = "project"   -> ValueOf(<<"variables">>)
    [] OTHER -> Over(RuntimeEnv, ValueOf(<<"variables">>))

\* resolveVariables, resolveSelectedProfiles, profileBlocks, resolveEnvBlocks: the
\* declarations of a layer fit.
Fits(l) ==
  CASE l[1] = "variables" -> /\ NoneTwice(OfKind("var"))
                             /\ source.given.option \subseteq NamesOf(OfKind("var"))
    [] l[1] = "profile"   -> /\ NoneTwice(OfKind("profile"))
                             /\ l[2] \in NamesOf(OfKind("profile"))
                             /\ NoneTwice(Entries(l))
    [] OTHER -> NoneTwice(Entries(l))

Kind(l) == IF l[1] = "variables" THEN "var" ELSE "env"

ProcessEnv == [n \in {<<"env", x>> : x \in source.os} |-> {<<<<"os">>, n>>}]

\* Slip: a name that the layer declares anew still has its old value meanwhile.
ContextWithOld(l) == Over(Over(l.done, l.base), ProcessEnv)

\* evalContextForValues: what a value may refer to now.  The names of the process
\* environment are always there, also those that the layer declares anew.
Context(l) ==
  Over(Over(l.done, [n \in DOMAIN l.base \ DOMAIN l.refs |-> l.base[n]]), ProcessEnv)

OpenLayer ==
  /\ phase = "values" /\ layer = None /\ layers # <<>>
  /\ IF Fits(Head(layers))
     THEN /\ layer' = [name |-> Head(layers),
                       refs |-> Declared(Entries(Head(layers)), Kind(Head(layers))),
                       base |-> Base(Head(layers)), done |-> <<>>]
          /\ layers' = Tail(layers)
          /\ UNCHANGED <<source, phase, stack, seen, blocks, values, config>>
     ELSE Refuse

Unresolved == DOMAIN layer.refs \ DOMAIN layer.done
Resolvable == {n \in Unresolved : layer.refs[n] \subseteq DOMAIN Context(layer)}

\* One pass of the fixpoint takes the names in the order the map gives them.
ResolveName ==
  /\ phase = "values" /\ layer # None
  /\ \E n \in Resolvable : layer' = [layer EXCEPT !.done = Over(Single(n,
       {<<layer.name, n>>} \cup UNION {Context(layer)[r] : r \in layer.refs[n]}), @)]
  /\ UNCHANGED <<source, phase, stack, seen, blocks, layers, values, config>>

\* The variables without a value are empty from here on.
CloseLayer ==
  /\ phase = "values" /\ layer # None /\ Resolvable = {}
  /\ IF Unresolved = {}
     THEN /\ values' = Over(Single(layer.name,
               IF layer.name = <<"variables">>
               THEN Over(Over(layer.done, layer.base), [v \in Vars |-> {}])
               ELSE layer.done), values)
          /\ layer' = None
          /\ phase' = IF layers # <<>> THEN "values"
                      ELSE IF layer.name[1] = "target" THEN "attach" ELSE "decode"
          /\ UNCHANGED <<source, stack, seen, blocks, layers, config>>
     ELSE Refuse

-----------------------------------------------------------------------------
\* Registration.  A reference in a list is a target's name; a block whose references
\* are `literal` writes them as texts, which nobody looks up when they are read.
OrElse(value, default) == IF value = None THEN default ELSE value
Optional(value, set) == value = None \/ value \in set
AppendUnique(list, more) ==
  FoldLeft(LAMBDA all, x : IF x \in ToSet(all) THEN all ELSE Append(all, x), list, more)

\* decodeTargetRefList, targetRefEvalContext
Decoded(b, refs) == b.literal \/ ToSet(refs) \subseteq NamesOf(OfKinds(TargetKinds))

Modes == {"implement", "review", "merge"}
Outside == "outside"   \* a path that leaves the place it has to be in

\* registerProviders: an agent has a command, opencode has none.
ValidProvider(p) ==
  (p.type = "agent" /\ p.command) \/ (p.type = "opencode" /\ ~p.command)
ProviderServes(providers, name, mode) ==
  /\ name \in DOMAIN providers
  /\ providers[name].type = "opencode" => mode = "implement"

PolicyKey(p) == IF p.subject = None THEN <<p.name>> ELSE <<p.name, p.subject>>

\* resolveAgentTemplateReferences, resolveAgentTemplatePrompt,
\* resolveAgentTemplatePolicy, validateAgentTemplateBlocks
ValidTemplate(c, t) ==
  LET mode == OrElse(t.mode, "implement") IN
  /\ mode \in Modes /\ ProviderServes(c.providers, t.provider, mode)
  /\ Optional(t.prompt, c.prompts)
  /\ t.policy # None => mode = "implement" /\ <<t.policy>> \in DOMAIN c.policies
  /\ t.workspace # Outside

\* validateFactoryWorkflow
ValidWorkflow(w) ==
  /\ Len(w.plan) <= 1 /\ Len(w.implement) <= 1 /\ Len(w.merge) <= 1
  /\ \A m \in ToSet(w.merge) : (m.target = None) # (m.template = None)
  /\ \A phase_ \in ToSet(w.deploy \o w.verify) : phase_.target # None
  /\ \A phase_ \in ToSet(w.verify) : phase_.approval = None

\* validateProviderTriggers: several workflows need routes, to workflows that exist.
ValidTrigger(f, t) ==
  /\ Len(f.workflows) > 1 => t.routes # <<>>
  /\ NoneTwice(t.routes) /\ \A r \in ToSet(t.routes) : r.workflow \in NamesOf(f.workflows)

\* validateFactory
ValidFactory(f) ==
  /\ f.workflows # <<>> /\ NoneTwice(f.workflows)
  /\ \A w \in ToSet(f.workflows) : ValidWorkflow(w)
  /\ NoneTwice(f.triggers) /\ \A t \in ToSet(f.triggers) : ValidTrigger(f, t)

ReadPrimitives ==
  [EmptyProject EXCEPT
     !.inputs = NamesOf(OfKind("input")), !.resources = NamesOf(OfKind("resource")),
     !.providers = ByName(OfKind("provider")), !.prompts = NamesOf(OfKind("prompt")),
     !.policies = [k \in {PolicyKey(p) : p \in ToSet(OfKind("policy"))} |->
                     CHOOSE p \in ToSet(OfKind("policy")) : PolicyKey(p) = k],
     !.templates = ByName(OfKind("agent_template")), !.factories = ByName(OfKind("factory"))]

\* The rest of loadWithOptions, a few functions at a time: what they register, or the
\* first complaint.
Register(from, fits, to, project) ==
  /\ phase = from
  /\ IF fits
     THEN /\ phase' = to /\ config' = project
          /\ UNCHANGED <<source, stack, seen, blocks, layers, layer, values>>
     ELSE Refuse

\* registerInputs, registerResources, registerProviders, registerPrompts,
\* registerPolicies, registerAgentTemplates, registerFactories
RegisterPrimitives ==
  Register("decode",
    /\ Root \in source.withProject
    /\ \A kind \in {"input", "resource", "provider", "prompt", "agent_template", "factory"} :
         NoneTwice(OfKind(kind))
    /\ \A i \in ToSet(OfKind("input")) : ~(i.src /\ i.srcs)
    /\ \A p \in ToSet(OfKind("provider")) : ValidProvider(p)
    /\ \A p \in ToSet(OfKind("prompt")) : p.path # Outside
    /\ \A i, j \in DOMAIN OfKind("policy") :
         PolicyKey(OfKind("policy")[i]) = PolicyKey(OfKind("policy")[j]) => i = j
    /\ \A p \in ToSet(OfKind("policy")) : Decoded(p, p.required \o p.reviewers)
    /\ \A t \in ToSet(OfKind("agent_template")) : ValidTemplate(ReadPrimitives, t)
    /\ \A f \in ToSet(OfKind("factory")) : ValidFactory(f),
    "targets", ReadPrimitives)

\* applyAgentTemplate, cloneAgentWorkspaceBlocks: what the agent does not say.
Applied(a) ==
  IF a.template = None THEN [a EXCEPT !.mode = OrElse(@, "implement")]
  ELSE LET t == config.templates[a.template] IN
       [a EXCEPT !.mode = OrElse(@, OrElse(t.mode, "implement")),
                 !.provider = OrElse(@, t.provider), !.prompt = OrElse(@, t.prompt),
                 !.policy = OrElse(@, t.policy), !.workspace = OrElse(@, t.workspace)]

\* resolveAgentReferences
ValidAgent(a) ==
  /\ a.mode \in Modes /\ ProviderServes(config.providers, a.provider, a.mode)
  /\ Optional(a.prompt, config.prompts)
  /\ CASE a.mode = "merge"  -> a.subject \in NamesOf(OfKind("agent"))
       [] a.mode = "review" -> a.policy = None
       [] OTHER -> a.plan # None /\ a.workspace # Outside

\* A clone of its own where neither the agent nor its template names one.
Settled(a) == IF a.mode = "implement" THEN [a EXCEPT !.workspace = OrElse(@, a.name)] ELSE a

Resolved(b) == IF b.kind = "agent" THEN Settled(Applied(b)) ELSE b
WithTemplate(b) == Optional(b.template, DOMAIN config.templates)
WithEnv == OfKinds(TargetKinds \ CompositeKinds)

\* registerTargets, resolveTargetExtraAttributes; the environments come next
\* (resolveTargetEnv).
RegisterTargets ==
  LET targets == OfKinds(TargetKinds) IN
  /\ phase = "targets"
  /\ IF /\ NoneTwice(targets)
        /\ \A b \in ToSet(targets) :
             /\ Decoded(b, b.depends \o b.children) /\ WithTemplate(b)
             /\ b.kind = "agent" => ValidAgent(Applied(b))
     THEN /\ config' = [config EXCEPT !.targets =
                [n \in NamesOf(targets) |-> Resolved(ByName(targets)[n])]]
          /\ layers' = [i \in DOMAIN WithEnv |-> <<"target", WithEnv[i].name>>]
          /\ phase' = IF WithEnv = <<>> THEN "attach" ELSE "values"
          /\ UNCHANGED <<source, stack, seen, blocks, layer, values>>
     ELSE Refuse

Targets == config.targets
ModeOf(name) ==
  IF Targets[name].kind = "agent" THEN Targets[name].mode ELSE None
Agents == {n \in DOMAIN Targets : Targets[n].kind = "agent"}

\* Slip: any target passes for a reviewer.
ReviewedByKnown(policy) == \A r \in ToSet(policy.reviewers) : r \in DOMAIN Targets

ReviewedByReviewers(policy) ==
  \A r \in ToSet(policy.reviewers) : r \in DOMAIN Targets /\ ModeOf(r) = "review"

\* attachAgentPolicies, attachMergeSubjects, validateSubjectPolicies: the targets that
\* an attached policy requires are looked up only in a policy with a subject.
AttachAgents ==
  Register("attach",
    /\ \A a \in Agents : Targets[a].policy # None =>
         /\ <<Targets[a].policy>> \in DOMAIN config.policies
         /\ ReviewedByReviewers(config.policies[<<Targets[a].policy>>])
    /\ \A a \in Agents : Targets[a].mode = "merge" =>
         /\ Targets[a].subject \in DOMAIN Targets
         /\ ModeOf(Targets[a].subject) = "implement"
         /\ Targets[Targets[a].subject].policy # None
    /\ \A k \in DOMAIN config.policies : config.policies[k].subject # None =>
         /\ config.policies[k].required # <<>>
         /\ ToSet(config.policies[k].required) \subseteq DOMAIN Targets,
    "rest", config)

\* ResolveTargetName
ResolveTargetName(c, name) == IF name \in DOMAIN c.aliases THEN c.aliases[name].target ELSE name
KnownTarget(name) == ResolveTargetName(config, name) \in DOMAIN Targets

\* validateFactoryWorkflowReferences, before there are aliases.
WorkflowKnown(w) ==
  /\ ToSet(w.plan \o w.implement) \subseteq DOMAIN config.templates
  /\ \A m \in ToSet(w.merge) : IF m.template # None THEN m.template \in DOMAIN config.templates
                               ELSE KnownTarget(m.target)
  /\ \A phase_ \in ToSet(w.deploy \o w.verify) : KnownTarget(phase_.target)

\* registerPlugins
ValidPlugin(p) ==
  \/ p.type = "graph" /\ p.timeout = None
  \/ p.type = "quality" /\ p.patches = <<>> /\ p.timeout # "0s"

\* registerQualityConfigs, validateQualityParsers
ValidQuality(q) ==
  /\ q.name \in DOMAIN Targets
  /\ q.parser # None => \E p \in ToSet(OfKind("plugin")) : p.name = q.parser /\ p.type = "quality"

\* registerAliases
ValidAlias(a) ==
  /\ a.name \notin DOMAIN Targets
  /\ a.target \in DOMAIN Targets \ NamesOf(OfKind("alias"))

RegisterRest ==
  Register("rest",
    /\ \A f \in ToSet(OfKind("factory")) : \A w \in ToSet(f.workflows) : WorkflowKnown(w)
    /\ \A kind \in {"plugin", "quality", "alias"} : NoneTwice(OfKind(kind))
    /\ \A p \in ToSet(OfKind("plugin")) : ValidPlugin(p)
    /\ \A q \in ToSet(OfKind("quality")) : ValidQuality(q)
    /\ \A a \in ToSet(OfKind("alias")) : ValidAlias(a),
    "plugins", [config EXCEPT !.plugins = ByName(OfKind("plugin")),
                              !.aliases = ByName(OfKind("alias"))])

GraphPlugins == SelectSeq(OfKind("plugin"), LAMBDA p : p.type = "graph")
Patches(name) ==
  FlattenSeq([i \in DOMAIN GraphPlugins |->
    LET patches == GraphPlugins[i].patches IN
    IF name \in DOMAIN patches THEN patches[name] ELSE <<>>])

\* runPlugins, runPlugin; `bach validate` leaves them out (ValidateWithOptions).
RunPlugins ==
  Register("plugins",
    source.runPlugins => \A p \in ToSet(GraphPlugins) :
      ~p.fails /\ DOMAIN p.patches \subseteq DOMAIN Targets,
    "wire",
    IF ~source.runPlugins THEN config
    ELSE [config EXCEPT
            !.inputs = @ \cup UNION {p.inputs : p \in ToSet(GraphPlugins)},
            !.targets = [n \in DOMAIN Targets |->
               [Targets[n] EXCEPT !.depends = AppendUnique(@, Patches(n))]]])

Produced == UNION {{<<n, i>> : i \in DOMAIN Targets[n].produces} : n \in DOMAIN Targets}
ProducedBy(p) == Targets[p[1]].produces[p[2]]
Producers == [k \in {ProducedBy(p) : p \in Produced} |->
                (CHOOSE p \in Produced : ProducedBy(p) = k)[1]]

\* The products that the target reads, its own apart.
Reads(n) ==
  SelectSeq(Targets[n].inputs, LAMBDA k : k \in DOMAIN Producers /\ Producers[k] # n)
MakersFor(n) == [i \in DOMAIN Reads(n) |-> Producers[Reads(n)[i]]]

\* Slip: only the first of them counts.
WiredFirst(n) ==
  AppendUnique(Targets[n].depends, IF Reads(n) = <<>> THEN <<>> ELSE <<MakersFor(n)[1]>>)

Wired(n) == AppendUnique(Targets[n].depends, MakersFor(n))

\* validateCompositeTargetCycles: some composites have each a child among them.
HasCycle(next) ==
  \E knot \in (SUBSET DOMAIN next) \ {{}} : \A n \in knot : next[n] \cap knot # {}
CompositeChildren ==
  [n \in {n \in DOMAIN Targets : Targets[n].kind \in CompositeKinds} |->
     ToSet(Targets[n].children)]

\* wireProducedInputs
WireProducedInputs ==
  Register("wire",
    /\ \A p \in Produced : ProducedBy(p) \in config.inputs \cup config.resources
    /\ \A p, q \in Produced : ProducedBy(p) = ProducedBy(q) => p = q
    /\ \A n \in DOMAIN Targets :
         ToSet(Wired(n)) \cup ToSet(Targets[n].children) \subseteq DOMAIN Targets
    /\ ~HasCycle(CompositeChildren)
    /\ source.default # None => ResolveTargetName(config, source.default) \in DOMAIN Targets,
    "loaded", [config EXCEPT
                 !.producers = Producers,
                 !.targets = [n \in DOMAIN Targets |->
                    [Targets[n] EXCEPT !.depends = Wired(n)]]])

\* RuntimeProject, runtimeTarget: what the runner plans from.  The generated policy
\* targets are left out: they need nothing and nothing needs them.
RuntimeProject ==
  LET ChildrenOf(kind) ==
        [n \in DOMAIN Targets |-> IF Targets[n].kind = kind THEN Targets[n].children ELSE <<>>]
  IN [depends |-> [n \in DOMAIN Targets |-> Targets[n].depends],
      steps |-> ChildrenOf("pipeline"), members |-> ChildrenOf("group")]

LoadNext ==
  \/ ImportRefused \/ ImportAgain \/ ImportFile \/ TakeBlock \/ EndFile
  \/ OpenLayer \/ CloseLayer \/ ResolveName
  \/ RegisterPrimitives \/ RegisterTargets \/ AttachAgents \/ RegisterRest
  \/ RunPlugins \/ WireProducedInputs

\* A mode is written.
ASSUME ConfigAssumption == None \notin Modes

LoadSpec == LoadInit /\ WellFormed(source) /\ [][LoadNext]_loadVars

-----------------------------------------------------------------------------
Imports(file) ==
  {item.file : item \in {item \in ToSet(source.files[file]) : item.kind = "import"}}
OwnBlocks(file) ==
  {i \in DOMAIN source.files[file] : source.files[file][i].kind # "import"}
Spliced == phase \notin {"imports", "refused"}
Places(b) == {k \in DOMAIN blocks : blocks[k] = b}

\* "The same canonical file can be imported more than once and is loaded only once.
\* Import cycles fail": a source that is read has no cycle, lacks no file, and has each
\* block once and in its order; and one that is refused while it is read has a reason
\* (importLoader.load, mergeImportBlocks).
ImportsOnce ==
  /\ Spliced =>
       /\ \A f \in seen : Imports(f) \subseteq seen \ source.withProject
       /\ ~HasCycle([f \in seen |-> Imports(f)])
       /\ \A f \in seen : \A i \in OwnBlocks(f) :
            /\ Cardinality(Places(source.files[f][i])) = 1
            /\ \A j \in OwnBlocks(f) : i < j =>
                 \A k \in Places(source.files[f][i]), l \in Places(source.files[f][j]) : k < l
  /\ phase = "refused" /\ stack # <<>> =>
       \/ HasCycle([f \in DOMAIN source.files |-> Imports(f)])
       \/ \E f \in seen : \E g \in Imports(f) :
            g \notin DOMAIN source.files \/ g \in source.withProject

\* A name has one value, whatever the order in which the map gives the names: what a
\* value was made from is what those names mean in the end, those of the process
\* environment apart (resolveEnvBlocks, resolveVariables).
ValuesAgree ==
  (layer # None /\ phase = "values") =>
    \A n \in DOMAIN layer.done :
      \A r \in (layer.refs[n] \cap DOMAIN layer.refs) \ DOMAIN ProcessEnv :
        r \in DOMAIN layer.done /\ layer.done[r] \subseteq layer.done[n]

Loaded == phase = "loaded"
References(n) == ToSet(Targets[n].depends) \cup ToSet(Targets[n].children)

\* Nothing that a loaded project runs by is missing: dependencies, children, subjects,
\* reviewers and the phases of the factories are targets of the right kind, whoever
\* declared them and whatever a plugin has added; only the targets that an attached
\* policy requires may be missing, when they are written as texts.
LoadedIsClosed ==
  Loaded =>
    /\ \A n \in DOMAIN Targets : References(n) \subseteq DOMAIN Targets
    /\ \A a \in Agents : Targets[a].policy # None =>
         LET policy == config.policies[<<Targets[a].policy>>] IN
         /\ \A r \in ToSet(policy.reviewers) : r \in Agents /\ Targets[r].mode = "review"
         /\ ~policy.literal => ToSet(policy.required) \subseteq DOMAIN Targets
    /\ \A a \in Agents : Targets[a].mode = "merge" =>
         /\ Targets[a].subject \in Agents
         /\ Targets[Targets[a].subject].policy # None
    /\ \A n \in DOMAIN config.aliases : config.aliases[n].target \in DOMAIN Targets
    /\ \A f \in DOMAIN config.factories : \A w \in ToSet(config.factories[f].workflows) :
         \A p \in ToSet(w.deploy \o w.verify) : p.target \in DOMAIN Targets

\* By hand (the README): a policy's targets exist however they are written.
RequiredTargetsExist ==
  Loaded => \A a \in Agents : Targets[a].policy # None =>
    ToSet(config.policies[<<Targets[a].policy>>].required) \subseteq DOMAIN Targets

\* By hand: two implementers do not share a clone.
ClonesAreSeparate ==
  Loaded => \A a, b \in Agents :
    /\ Targets[a].mode = "implement" /\ Targets[b].mode = "implement"
    /\ Targets[a].workspace = Targets[b].workspace => a = b

\* By hand: a phase that asks for approval gets it (DeployRequiresApproval takes the
\* first phase of the name).
DeployRequiresApproval(w, name) ==
  LET first == CHOOSE i \in DOMAIN w.deploy :
                 w.deploy[i].name = name /\ \A j \in 1..(i - 1) : w.deploy[j].name # name
  IN w.deploy[first].approval = TRUE
ApprovalsAreAsked ==
  Loaded => \A f \in DOMAIN config.factories : \A w \in ToSet(config.factories[f].workflows) :
    \A p \in ToSet(w.deploy) : p.approval = TRUE => DeployRequiresApproval(w, p.name)

\* By hand: what the process environment says of a name that is declared counts nowhere.
OneValueEach ==
  (layer # None /\ phase = "values") =>
    \A n \in DOMAIN layer.done : \A r \in layer.refs[n] \cap DOMAIN layer.refs :
      r \in DOMAIN layer.done /\ layer.done[r] \subseteq layer.done[n]

\* By hand: BACH_VAR_name before BACH_VAR_NAME (docs/reference/19-variables.md).
ExactNameWins ==
  \A x \in source.given.exact \ source.given.option :
    <<"var", x>> \in Vars => Given(x) = {<<<<"exact">>, <<"var", x>>>>}
=============================================================================
