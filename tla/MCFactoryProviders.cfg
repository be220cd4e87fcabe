\* Pages of two, one page a poll; the trigger without approvals and with them.
SPECIFICATION MCSpec
CONSTANTS
  Factories = {"f"}
  Daemons = {}
  Items = {1, 2, 3, 4, 5}
  Phases = {"plan", "implement", "deploy.staging"}
  Priorities = {0}
  DedupeKeys <- IntakeKeys
  Revisions = {b1, b2}
  Hashes = {"h1"}
  Times = {0}
  MaxRejections = 0
  None = none
  b1 = b1
  b2 = b2
  b3 = b3
  p = p
  Factory = "f"
  Issues = {1, 2}
  Workflows = {"wf"}
  Route <- RouteAll
  Pollers = {p}
  PerPage = 2
  MaxPages = 1
  MaxTime = 3
  SameSecond = FALSE
  Faults = FALSE
  Pulls = {1}
  Served <- ServedPhases
  Gated = {"plan", "deploy.staging"}
  Lanes = {"plan", "merge"}
  Feed = 3
  MaxVoices = 2
  MaxTroubles = 1
PROPERTIES
  IssuesAreTakenIn
  ApprovalsAreDecided
  
CHECK_DEADLOCK FALSE
