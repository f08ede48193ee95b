CONSTANTS
  r1 = r1
  r2 = r2
  RouterId = {r1, r2}
  PrefixSet <- MCPrefixSet
  Decls <- MCDecls
  MaxCalls = 5
  Hole = {"{a}"}
  Rest = {"{*rest}"}
  Word <- MCWord
  DocPaths <- MCDocPaths
  Nul = "nul"
  Methods = {"GET", "POST"}
  Paths <- MCPaths
  Facts <- MCFacts
  Services <- MCServices
  HandlerErrors <- MCErrors
  None = None
SPECIFICATION Spec
INVARIANTS Reached  DocumentsServed
CONSTRAINT Narrow
SYMMETRY Symmetry
CHECK_DEADLOCK FALSE
