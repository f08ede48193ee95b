SPECIFICATION FairSpec
CONSTANTS
  c1 = c1
  c2 = c2
  a = a
  NoIp = NoIp
  Conn <- TwoConns
  Ip <- OneIp
  Looping <- OneLooping
  Cap = 1
INVARIANTS LimiterExact HooksExactlyOnce
PROPERTIES ShutdownEndsLoops CloseCodeReported
CHECK_DEADLOCK FALSE
