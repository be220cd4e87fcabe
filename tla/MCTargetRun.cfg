\* Two overlapping invocations, retries, timeouts, interrupts, crashes and edits.
SPECIFICATION RunSpec
CONSTANTS
  Runs = {r1, r2}
  None = None
  Versions = {v1, v2}
  Bachfiles <- MCBachfiles
  Contract = "command"
  EditsMidRun = FALSE
SYMMETRY RunSymmetry
INVARIANTS
  CachedMeansBuilt
  SuccessIsEarned
  ReturnedRunsAreClosed
CHECK_DEADLOCK FALSE
