\* An implementer with two attempts and a merge agent, two at a time, beside people
\* who commit to main and others who store evidence.
SPECIFICATION AgentSpec
CONSTANTS
  Implementers = {i}
  Mergers = {m}
  Reviewers = {v1, v2}
  MaxCommits = 2
  MaxAttempts = 2
  Providers = {"agent", "opencode"}
  Relaxed = FALSE
  None = None
SYMMETRY AgentSymmetry
INVARIANTS
  PassedIsReviewed
  DamageNeverPasses
  
PROPERTIES
  PassedMeansEvidence
CHECK_DEADLOCK FALSE
