SPECIFICATION SessionSpec
CONSTANTS
  Kinds = {"parsed", "unknown", "malformed"}
  MaxTimeouts = 1
  MaxSessions = 2
  MaxKeys = 1
  MaxLines = 3
  MaxListed = 3
INVARIANTS SessionTypeOK NothingLost TotalIsOnDisk ListedIsRecorded
PROPERTIES DiskIsLog RepeatsOnlyOnError
CHECK_DEADLOCK FALSE
