SPECIFICATION Spec
CONSTANTS
  Calls <- SmallCalls
  Workflow <- SmallWorkflow
  Key <- SmallKey
  Units <- SmallUnits
  HardLimit = 2
  LastMonth = 1
INVARIANTS PeriodWithinLimit BooksBalance StartedOnce
PROPERTIES StopHolds
CHECK_DEADLOCK FALSE
