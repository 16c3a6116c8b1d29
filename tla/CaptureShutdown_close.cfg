SPECIFICATION ShutdownSpec
CONSTANTS
  Kinds = {"parsed", "malformed"}
  MaxTimeouts = 2
  MaxSessions = 2
  MaxKeys = 1
CHECK_DEADLOCK FALSE
INVARIANT ClosedOnlyByCloser
PROPERTIES CloseEndsLoop ClosedLoopEnds
