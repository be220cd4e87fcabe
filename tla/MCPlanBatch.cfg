\* A command and another invocation over graphs of three Plans, with an edit and a fault.
SPECIFICATION PlanSpec
CONSTANTS
  Plans = {p1, p2, p3}
  Commands = {c}
  MaxDepends = 2
  MaxText = 2
  Parallelism = 2
  MaxTroubles = 2
  None = None
SYMMETRY PlanSymmetry
INVARIANTS
  PlansInOrder
  EveryPlanDecided
  GivesUpWithReason
  InProgressIsActive
CHECK_DEADLOCK FALSE
