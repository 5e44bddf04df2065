SPECIFICATION Spec
CONSTANTS
  MaxAttempts = 2
  Tools = {"write", "publish"}
  Inputs = {"x", "y"}
  NoInput = "none"
  MaxTurns = 3
  MaxToolCalls = 2
  Reviewed = {"publish"}
  MaxRestarts = 1
INVARIANTS SentOnce ReceiptsTruthful SucceededIsSettled
PROPERTIES ExecutionEnds
CHECK_DEADLOCK FALSE
