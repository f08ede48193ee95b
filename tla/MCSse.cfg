SPECIFICATION Spec
CONSTANTS
  s1 = s1
  s2 = s2
  Stream = {s1, s2}
  NoCap = NoCap
  Configs <- SseConfigs
  MaxItems = 2
  MaxTime = 3
SYMMETRY Symmetry
INVARIANTS SlotsExact NothingStuck TimeoutEnds
PROPERTIES HeartbeatKeepsAlive
CHECK_DEADLOCK FALSE
