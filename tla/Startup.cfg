\* A scaled-down machine: uint64 has 8 bits, and 32 is a limit that counts as none.
SPECIFICATION Spec
CONSTANTS
  Environments <- ModelEnvironments
  Word = 256
  Factor <- ModelFactor
  PiB = 32
  MaxRSS = 34
  Unset = Unset
  Malformed = Malformed
  None = None
INVARIANTS
  TypeOK
  DefaultBeatsKernel
  RSSLimitIsMeant
