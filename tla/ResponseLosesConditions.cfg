\* Two Conditions objects in one output.
SPECIFICATION RSpec
CONSTANTS
  MaxObjects = 2
  ConditionsOnly = TRUE
  Requests <- MCRequests
  Split <- MCSplit
  Reserved = {"Ready", "Synced"}
CHECK_DEADLOCK FALSE
INVARIANT EveryConditionAdded
