\* A remote source whose first version does not parse, and an inline one; entries
\* expire, renders leak until the process is recycled, some pods have no cache.
SPECIFICATION Spec
CONSTANTS
  Calls = {c1, c2}
  Watchers = {w1}
  MaxReconciles = 0
  MaxLifetime = 0
  MaxRSS = 2
  ReadError = ReadError
  MaxEntries = 1
  CacheChoice = {TRUE, FALSE}
  TTL = 2
  Sources = {oci, inline}
  Remote = {oci}
  Params = {p1}
  MaxVersion = 1
  Broken = {0}
  Failure = Failure
INVARIANTS
  TypeOK
  RecycleHasCause
  AnswersOwnRequest
  DrainFinishesWork
PROPERTIES
  CacheRemembers
  StaleEntriesExpire
  LeakIsReset
