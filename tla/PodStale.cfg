\* The same remote source with a cache that does not expire.
SPECIFICATION Safety
CONSTANTS
  Calls = {c1}
  Watchers = {w1}
  MaxReconciles = 0
  MaxLifetime = 0
  MaxRSS = 0
  ReadError = ReadError
  MaxEntries = 1
  CacheChoice = {TRUE}
  TTL = 0
  Sources = {oci}
  Remote = {oci}
  Params = {p1}
  MaxVersion = 1
  Broken = {}
  Failure = Failure
INVARIANT AnswerIsCurrent
