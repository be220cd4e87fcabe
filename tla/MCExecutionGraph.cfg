\* Every small project whose plan lists the steps of its pipeline as declared, and
\* what small Bachfiles load to.
SPECIFICATION Spec
CONSTANTS
  None = None
  Root = "root"
  Requests <- Several
  AnyPlan = FALSE
INVARIANTS
  ImportsOnce
  ValuesAgree
  LoadedIsClosed
  
  GraphFollowsDeclarations
CHECK_DEADLOCK FALSE
