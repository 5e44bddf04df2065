SPECIFICATION Spec
CONSTANTS
  Users <- People
  Requester = "req"
  Steps = {"legal", "finance"}
  Alphabet <- SmallAlphabet
  Policies <- SmallPolicies
  None = None
  MaxRefreshes = 2
INVARIANTS GrantedUnderPolicy ConsumedAsGranted
PROPERTIES DecidesKnowingly ImplementsAuthorization
CHECK_DEADLOCK FALSE
