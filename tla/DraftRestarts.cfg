SPECIFICATION Spec
CONSTANTS
  Nodes <- DraftNodes
  Kind <- DraftKind
  Edges <- DraftEdges
  Conditional <- DraftConditional
  Fallible = {"draft"}
  Reviewed = {}
  Bulk = {"edit"}
  AutoOutcome <- DraftOutcome
  None = None
  MaxLost = 3
  MaxAbandoned = 0
  MaxPauses = 2
INVARIANTS TypeOK RoutedMatchesTasks WorkIsUnblocked
CHECK_DEADLOCK FALSE
