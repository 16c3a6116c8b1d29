SPECIFICATION FairSpec
CONSTANTS
  States = {"blank", "broken", "corrupt", "intact"}
  Frames = {"http", "hello", "ack", "raw", "rawhello", "short", "other"}
  MaxLines = 3
  MaxStale = 1
INVARIANTS TypeOK RowsAreIntactLines PayloadNotPassed InStepWhileAllTcp NoneMissedWhileAllTcp
PROPERTIES Finishes AnalysisShrinks
CHECK_DEADLOCK FALSE
