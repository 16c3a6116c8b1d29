SPECIFICATION StatsFairSpec
CONSTANTS
  Lines <- MCLines
  Captured <- MCCaptured
  MaxTyped = 5
  MaxInput = 2
INVARIANTS
  StackIsPath
  OutputIsCurrent
  StatsTypeOK
  ReportIsOfFile
  TotalsAreOfFile
  ReportIsCurrent
PROPERTIES
  FailedLineDropped
  ReportComes
