SPECIFICATION Spec
CONSTANTS
  Entries = 2
  MaxWorkers = 2
INVARIANT IntentWhole
CHECK_DEADLOCK FALSE
