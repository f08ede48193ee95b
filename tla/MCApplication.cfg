SPECIFICATION MCSpec
CONSTANTS
  N = 3
  Startup = 1
  Stop = 1
  Ready = 2
  Loads = 2
  OwnLoad = "boot"
  Loader = {"boot", "same", "other"}
  Field = {"host", "port"}
  Prefix <- MCPrefix
  Declared <- MCDeclared
  Environments <- MCEnvironments
  Parsable <- MCParsable
  Valid <- MCValid
  Malformed = Malformed
  Unset = Unset
  Call = {"first", "second"}
  Cookie = {"sid"}
  Value = {"old", "new"}
  None = None
INVARIANTS ReverseOrder CleanReturn LoadExplained SessionCarried
PROPERTY ClientContract
CHECK_DEADLOCK FALSE
