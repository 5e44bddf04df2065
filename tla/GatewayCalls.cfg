SPECIFICATION Spec
CONSTANTS
  Invocations <- SmallInvocations
  Operations = {"plain", "structured"}
  Operation <- SmallOperation
  Structured = {"structured"}
  MaxConcurrency = 2
  RetryLimit = 2
  Threshold = 2
INVARIANTS SlotsBalance NeverReplayed AnsweredOnce
PROPERTIES EveryCallEnds
CHECK_DEADLOCK FALSE
