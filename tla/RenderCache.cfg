\* Four keys for a cache of three entries that expire after two ticks.
SPECIFICATION HSpec
CONSTANTS
  Keys = {k1, k2, k3, k4}
  Values = {v1, v2}
  MaxEntries = 3
  TTL = 2
  NoValue = NoValue
PROPERTY ImplementsMemo
INVARIANTS
  TypeOK
  ListMatchesMap
  LRUOrder
  KeepsRecent
