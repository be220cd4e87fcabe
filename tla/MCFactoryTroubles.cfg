\* Rejections, crashes and store calls that return errors, a merge lane run by an
\* agent: a provider and an operator approve and reject at once, on lists that go
\* stale, and a rejected item may be retried once.
SPECIFICATION Spec
CONSTANTS
  Factories = {f1}
  Factory = f1
  Daemons = {d1}
  Items = {1, 2}
  Phases = {"plan", "implement", "merge"}
  Workflow <- MCGatedSpine
  Gated = {"plan", "implement"}
  DeployPhases = {}
  AgentMerge = TRUE
  Operators = {o1}
  Pollers = {d1}
  Rejecters = {d1, o1}
  Priorities = {0}
  DedupeKeys <- MCKeys
  SubmitKeys = {Issue}
  Issue = Issue
  Revisions = {r1}
  Hashes = {h1}
  EditableIn = {}
  Mortal = {d1}
  Times = {0, 1}
  TTL = 1
  MaxRejections = 1
  StoreMayFail = TRUE
  None = None
INVARIANTS
  GatesHold
  EndsAreSound
CHECK_DEADLOCK FALSE
