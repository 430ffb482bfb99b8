SPECIFICATION Spec
CHECK_DEADLOCK FALSE
CONSTANTS
  Accounts = {ann}
  None = None
  MaxSteps = 4
INVARIANT SessionInvariant
PROPERTIES SessionSurvives WaitsEnd
