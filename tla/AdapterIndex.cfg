SPECIFICATION Spec
CONSTANTS
  Callers = {c1}
  Entries = 1
  MaxVersion = 1
  Cancels = FALSE
INVARIANT IndexRetried
