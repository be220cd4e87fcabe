SPECIFICATION MCSpec
CONSTANTS
  a = a
  b = b
  p = p
  None = None
  Callers = {a, b, p}
  Poller = p
  Scripts <- MCScripts
  MaxTurns = 2
INVARIANTS
  AnswersAreEffects
  NothingOutlivesCall
  
PROPERTIES
  CallsReturn
  StopEndsProviders
