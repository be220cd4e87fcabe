\* Two daemons competing for the lease on clocks that disagree, two items under
\* one dedupe key, gates on the plan and the deploy, an operator who approves,
\* people who edit the plan while the item waits.  Daemons crash and are stopped.
SPECIFICATION Spec
CONSTANTS
  Factories = {f1}
  Factory = f1
  Daemons = {d1, d2}
  Items = {1, 2}
  Phases = {"plan", "implement", "deploy.production"}
  Workflow <- MCSpine
  Gated = {"plan", "deploy.production"}
  DeployPhases = {"deploy.production"}
  AgentMerge = FALSE
  Operators = {o1}
  Pollers = {}
  Rejecters = {}
  Priorities = {0}
  DedupeKeys <- MCKeys
  SubmitKeys = {Issue}
  Issue = Issue
  Revisions = {r1}
  Hashes = {h1, h2}
  EditableIn = {"waiting_approval"}
  Mortal = {d1, d2}
  Times = {0, 1}
  TTL = 1
  MaxRejections = 0
  StoreMayFail = FALSE
  None = None
SYMMETRY DaemonSymmetry
INVARIANTS
  WorkersAreApart
  NoAbandonedItem
  OneOpenItemPerKey
  ShipsWhatWasApproved
PROPERTIES
  ImplementsLifecycle
CHECK_DEADLOCK FALSE
