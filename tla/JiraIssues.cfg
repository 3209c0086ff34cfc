SPECIFICATION Spec
CONSTANTS
  Transitions <- MCTransitions
  Workflow <- MCWorkflow
  DefaultSteps = 2
  MostSteps = 3
  MaxImages = 2
CHECK_DEADLOCK FALSE
INVARIANT TypeOK
INVARIANT ReachedWhenSaid
INVARIANT AppliedReported
INVARIANT CreatedIsSaid
INVARIANT TextWhole
