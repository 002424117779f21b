CONSTANTS
  Local = {"i", "j", "e", "t", "result"}
  Horizon = 20
SPECIFICATION FlowSpec
INVARIANT AcceptedReadsAreInitialized
CHECK_DEADLOCK FALSE
