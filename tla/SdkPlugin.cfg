SPECIFICATION SdkSpec
CONSTANTS
  Capacity = 1
  StdoutLimit = 5
  MaxFrame = 2
  MaxCalls = 3
  Deadline = TRUE
  Descendants = FALSE
INVARIANTS SdkTypeOK CallsMatch AnswerDelivered
PROPERTY SdkReturns
CHECK_DEADLOCK FALSE
