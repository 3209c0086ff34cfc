SPECIFICATION Spec
CONSTANTS
  Capacity = 1
  StdoutLimit = 2
  MaxFrame = 2
  Deadline = TRUE
  Descendants = TRUE
INVARIANTS TypeOK AnsweredInTurn
PROPERTIES ImplementsRemoteCall Returns
CHECK_DEADLOCK FALSE
