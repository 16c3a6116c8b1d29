SPECIFICATION SessionSpec
CONSTANTS
  Kinds = {"parsed", "unknown", "malformed"}
  MaxTimeouts = 1
  MaxSessions = 2
  MaxKeys = 1
  MaxLines = 2
  MaxListed = 2
INVARIANT RecordedOnce
CHECK_DEADLOCK FALSE
