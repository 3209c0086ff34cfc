SPECIFICATION Spec
CONSTANTS
  Entries = 4
  MaxWorkers = 2
INVARIANT TypeOK
INVARIANT AllOrCancelled
PROPERTY SlotsSettle
PROPERTY Returns
CHECK_DEADLOCK FALSE
