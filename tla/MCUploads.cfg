CONSTANTS
  r1 = r1  r2 = r2  a = a  b = b  target = target
  Request = {r1, r2}
  Name = {a, b}
  Path = {target}
  Route <- MCRoute
  App <- MCApp
  Builtin <- MCBuiltin
  Model <- MCModel
  Unset = Unset
  Flush = 2
  Chunk = {1, 2}
  MaxOps = 2
SPECIFICATION UploadsSpec
CONSTRAINT OneParses
SYMMETRY Symmetry
INVARIANTS WithinLimits BoundAsSent SavedIsKept
CHECK_DEADLOCK FALSE
