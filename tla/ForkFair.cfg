SPECIFICATION FairSpec
CONSTANTS
  Nodes <- ForkNodes
  Kind <- ForkKind
  Edges <- ForkEdges
  Conditional <- ForkConditional
  Fallible = {}
  Reviewed = {}
  Bulk = {}
  AutoOutcome <- ForkOutcome
  None = None
  MaxLost = 0
  MaxAbandoned = 0
  MaxPauses = 2
INVARIANTS ClosedMeansEnded ConsumedMeansExecuted
PROPERTIES RunSettles CancelEnds
CHECK_DEADLOCK FALSE
