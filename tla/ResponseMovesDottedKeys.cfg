\* An object with a dotted key, written to the XR.
SPECIFICATION RSpec
CONSTANTS
  MaxObjects = 1
  ConditionsOnly = FALSE
  Requests <- MCRequests
  Split <- MCSplit
  Reserved = {"Ready", "Synced"}
CHECK_DEADLOCK FALSE
INVARIANT CopiedToSamePath
