SPECIFICATION Spec
CONSTANTS
  LogCap = 3
  Names = {1, 2, 3}
  Audio = {1, 3}
  NoSource = NoSource
  Dirs = {"root", "a", "b", "x"}
  Root = "root"
  Children <- MCChildren
  PathOrder <- MCPathOrder
  Contents <- MCContents
  MaxOutput = 1
  MaxChanges = 1
INVARIANTS
  TypeOK
  StillDirectoriesReported
  OnlyRootIsFatal
  SummaryAgrees
  OfferedAlbumsResolve
