SPECIFICATION Spec
CONSTANTS
  MaxCalls = 1
CHECK_DEADLOCK FALSE
INVARIANTS PeerFailureIsReported
