SPECIFICATION Spec
CONSTANTS
  Callers = {c1, c2}
  Entries = 2
  MaxVersion = 2
  Cancels = TRUE
INVARIANT TypeOK
INVARIANT FailuresRetried
PROPERTY OneIndex
