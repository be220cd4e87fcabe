\* A locked pipeline beside two locked targets, three at a time; anything may fail,
\* the caller may cancel.  The walk always ends.
SPECIFICATION FairSpec
CONSTANTS
  Nodes <- PipelineNodes
  Edges <- PipelineEdges
  Rank <- PipelineRank
  Scopes <- PipelineScopes
  StartOf <- PipelineStart
  Barriers <- PipelineBarriers
  Members <- PipelineMembers
  Lock <- PipelineLock
  None = "none"
  Parallelism = 3
  Interruptible = TRUE
INVARIANTS
  DependenciesFirst
  LocksAreKept
PROPERTIES
  StopsCleanly
  WalkEnds
CHECK_DEADLOCK FALSE
