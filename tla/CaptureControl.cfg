SPECIFICATION FairSpec
CONSTANTS
  Kinds = {"parsed", "unknown", "malformed"}
  MaxTimeouts = 3
  MaxSessions = 3
  MaxKeys = 2
INVARIANTS TypeOK PromptOnlyAtMax ReadsOpenHandle HandleIsCurrent FailedSetupClosed
PROPERTIES QuitStopsWhenPolled QuitNearer
CHECK_DEADLOCK FALSE
