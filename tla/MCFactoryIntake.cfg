\* Two pollers of one trigger, faults, an unroutable text.
SPECIFICATION IntakeSpec
CONSTANTS
  Factories = {"f"}
  Daemons = {}
  Items = {1, 2}
  Phases = {"plan"}
  Priorities = {0}
  DedupeKeys <- IntakeKeys
  Revisions = {b1, b2, b3}
  Hashes = {}
  Times = {0}
  MaxRejections = 0
  None = none
  b1 = b1
  b2 = b2
  b3 = b3
  p = p
  q = q
  Factory = "f"
  Issues = {1, 2}
  Workflows = {"wf"}
  Route <- RouteSome
  Pollers = {p, q}
  PerPage = 2
  MaxPages = 1
  MaxTime = 3
  SameSecond = FALSE
  Faults = TRUE
SYMMETRY IntakeSymmetry
INVARIANTS
  CursorIsEarned
CHECK_DEADLOCK FALSE
