SPECIFICATION BenchmarksSpec
CONSTANTS
  NamesOf <- PagesVisit
  Classes = {"c"}
  Default = "c"
  Limit = 1
  MaxFrames = 1
  None = None
PROPERTY FramesShown
CHECK_DEADLOCK FALSE
