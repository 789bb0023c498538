SPECIFICATION Spec
CONSTANTS
  Sheets = {1, 2}
  WithPregap = {2}
  Pieces <- MCPieces
  TrackCount <- AllAudio
  PipeCap = 1
  LongLines = FALSE
  MaxRuns = 1
  MaxExits = 1
  NoSheet = NoSheet
  NoStray = NoStray
PROPERTIES
  ShutdownLeavesNoShnsplit
