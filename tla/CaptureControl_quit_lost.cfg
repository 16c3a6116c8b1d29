SPECIFICATION FairSpec
CONSTANTS
  Kinds = {"parsed", "unknown", "malformed"}
  MaxTimeouts = 3
  MaxSessions = 1
  MaxKeys = 1
PROPERTY QuitStops
CHECK_DEADLOCK FALSE
