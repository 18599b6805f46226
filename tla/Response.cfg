\* Every output of up to three objects, under every target.
SPECIFICATION RSpec
CONSTANTS
  MaxObjects = 3
  ConditionsOnly = FALSE
  Requests <- MCRequests
  Split <- MCSplit
  Reserved = {"Ready", "Synced"}
\* The call returns.
CHECK_DEADLOCK FALSE
INVARIANTS
  RTypeOK
  EarlierStateKept
  ItemsLand
  PatchesLand
  MetaLand
  XRLands
  EarlyReturnsAreFatal
  CompleteCarriesAll
  ForceDecides
PROPERTY FailureKeepsDesired
