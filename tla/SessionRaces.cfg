SPECIFICATION Spec
CONSTANTS
  Sessions = {phone, laptop}
  MaxVerifiers = 3
  Idle = 1
  Absolute = 2
  MaxTime = 3
INVARIANTS OneWayIn ReplayEndsIt
PROPERTIES StaysOut
CHECK_DEADLOCK FALSE
