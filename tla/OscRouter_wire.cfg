SPECIFICATION Spec
CONSTANTS
  Capacity = 2
  MaxFrame = 128
  Tails = {0, 25, 129}
  MaxWords = 2
  MaxCalls = 2
  MaxLocal = 0
INVARIANT WireAgreed
CHECK_DEADLOCK FALSE
