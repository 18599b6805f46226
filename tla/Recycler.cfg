\* The quota of calls, the lifetime and the RSS limit are on, and two goroutines
\* may decide to recycle, as in TestRecycleIsIdempotent; the program starts one.
SPECIFICATION Spec
CONSTANTS
  Calls = {c1, c2}
  Watchers = {w1, w2}
  MaxReconciles = 2
  MaxLifetime = 1
  MaxRSS = 1
  ReadError = ReadError
CHECK_DEADLOCK FALSE
INVARIANTS
  TypeOK
  GateExcludes
  InflightExact
  SingleDrain
  RecycleHasCause
PROPERTIES
  CountRecycles
  RSSRecycles
  GateWaitEnds
  DrainShrinks
  ImplementsDrain
