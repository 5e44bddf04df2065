SPECIFICATION Spec
CONSTANTS
  Nodes <- ForkNodes
  Kind <- ForkKind
  Edges <- ForkEdges
  Conditional = {}
  Fallible = {}
  Reviewed = {}
  Bulk = {}
  AutoOutcome <- ForkOutcome
  None = None
  MaxLost = 1
  MaxAbandoned = 0
  MaxPauses = 1
INVARIANTS ClosedMeansEnded
CHECK_DEADLOCK FALSE
