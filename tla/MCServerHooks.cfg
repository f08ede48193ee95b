SPECIFICATION Spec
CONSTANTS
  c1 = c1
  c2 = c2
  a = a
  NoIp = NoIp
  Conn <- OneConn
  Ip <- OneIp
  Looping <- OneLooping
  Cap = 1
  N = 1
  Startup = 0
  Stop = 0
  Ready = 1
  Sockets <- OneConn
PROPERTIES HooksSurviveShutdown
CHECK_DEADLOCK FALSE
