SPECIFICATION Safety
CONSTANTS
  Calls = {c1, c2}
  Watchers = {w1}
  MaxReconciles = 1
  MaxLifetime = 0
  MaxRSS = 0
  ReadError = ReadError
CHECK_DEADLOCK FALSE
INVARIANT ExitLeavesNobodyAtGate
