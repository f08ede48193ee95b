SPECIFICATION Spec
CONSTANTS
  t1 = t1
  t2 = t2
  t3 = t3
  h1 = h1
  h2 = h2
  None = None
  Task = {t1, t2, t3}
  Handle = {h1, h2}
  Prefix <- Characters
  Default <- Defaults
  Key <- TwoKeys
  Glob <- Matches
  Ttls = {0, 3}
  Capacity = 1
  PerMilli = 2
  MaxTime = 2
SYMMETRY Symmetry
INVARIANT Forgotten
PROPERTIES OthersUntouched
CHECK_DEADLOCK FALSE
