SPECIFICATION FairSpec
CONSTANTS
  c1 = c1
  c2 = c2
  a = a
  NoIp = NoIp
  Conn <- TwoConns
  Ip <- OneIp
  Looping <- NoLooping
  Cap = 1
  N = 2
  Startup = 0
  Stop = 0
  Ready = 1
  Sockets <- OneConn
INVARIANT RequestsHaveResources
PROPERTIES ImplementsLifecycle ImplementsWebSocket NothingAcceptedAfterShutdown SignalReturns
CHECK_DEADLOCK FALSE
