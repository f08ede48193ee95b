CONSTANTS
  Registered <- MCRegistered
  Limit = 2
  MinSize = 2
  MaxSize = 3
  Sizes = {0, 2, 3, 4}
  Endless = Endless
  None = None
SPECIFICATION Spec
INVARIANTS GuardsHold WellFramed
PROPERTY Answered
CHECK_DEADLOCK FALSE
