SPECIFICATION Spec
CONSTANTS
  States = {"intact"}
  Frames = {"http", "other"}
  MaxLines = 3
  MaxStale = 1
INVARIANT OwnPayload
CHECK_DEADLOCK FALSE
