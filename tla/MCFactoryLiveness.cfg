\* One daemon that is neither stopped nor killed and an operator who keeps
\* approving: every gate opens and every submitted item settles.
SPECIFICATION FairSpec
CONSTANTS
  Factories = {f1}
  Factory = f1
  Daemons = {d1}
  Items = {1, 2}
  Phases = {"plan", "implement", "deploy.production"}
  Workflow <- MCSpine
  Gated = {"plan", "deploy.production"}
  DeployPhases = {"deploy.production"}
  AgentMerge = FALSE
  Operators = {o1}
  Pollers = {}
  Rejecters = {}
  Priorities = {0}
  DedupeKeys <- MCKeys
  SubmitKeys = {Issue}
  Issue = Issue
  Revisions = {r1}
  Hashes = {h1}
  EditableIn = {}
  Mortal = {}
  Times = {0, 1}
  TTL = 1
  MaxRejections = 0
  StoreMayFail = FALSE
  None = None
PROPERTIES
  ItemsSettle
CHECK_DEADLOCK FALSE
