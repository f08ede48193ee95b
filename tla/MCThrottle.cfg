SPECIFICATION Spec
CONSTANTS
  rt1 = rt1
  k1 = k1
  k2 = k2
  Route <- OneRoute
  Scope <- OwnScope
  Key <- TwoKeys
  Configs <- ThrottleConfigs
  Sweep = 1
  Precise = 1024
  MaxDelay = 2
  MaxTime = 5
SYMMETRY Symmetry
INVARIANTS LimitsHold SlidingSmooth RetryAfterHonoured DeniedOnlyWhenUsed
PROPERTIES SweptWhenLarge
CHECK_DEADLOCK FALSE
