SPECIFICATION FairSpec
CONSTANTS
  Sheets = {1, 2}
  WithPregap = {2}
  Pieces <- MCPieces
  TrackCount <- DataTrack
  PipeCap = 1
  LongLines = TRUE
  MaxRuns = 3
  MaxExits = 2
  NoSheet = NoSheet
  NoStray = NoStray
INVARIANTS
  TypeOK
  DoneIsWholeAlbum
  TagsMatchTracks
  ProgressWithinTotal
  TempCopiesAccounted
PROPERTIES
  ProgressMovesForward
  CancelledRunEnds
  RunEnds
