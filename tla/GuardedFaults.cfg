SPECIFICATION Spec
CONSTANTS
  Nodes <- GuardedNodes
  Kind <- GuardedKind
  Edges <- GuardedEdges
  Conditional = {}
  Fallible = {"deliver"}
  Reviewed = {"start"}
  Bulk = {}
  AutoOutcome <- GuardedOutcome
  None = None
  MaxLost = 1
  MaxAbandoned = 1
  MaxPauses = 1
INVARIANTS SettledWhenEnded ApprovedBeforeExecuted EffectsAuthorized
PROPERTIES ImplementsLifecycle DoneStaysDone
CHECK_DEADLOCK FALSE
