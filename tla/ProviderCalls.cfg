SPECIFICATION Spec
CONSTANTS
  MaxJobs = 3
  Limit = 2
  Names = {"a", "b"}
  Leaves = {"x"}
  MaxEntries = 2
CHECK_DEADLOCK FALSE
INVARIANT TypeOK
INVARIANT EveryJobReported
INVARIANT CopiesReported
INVARIANT KeepsExisting
INVARIANT StoppedIsGone
PROPERTY ImplementsGather
PROPERTY FanoutReturns
PROPERTY CopyEnds
PROPERTY Expires
