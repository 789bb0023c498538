SPECIFICATION Spec
CONSTANTS
  Names = {1, 2, 3}
  Audio = {1, 3}
  NoSource = NoSource
  Undecodable = Undecodable
  ReadLimit = 80
  Unknown = Unknown
  InputDir <- MCInputDir
  OutputDir <- MCOutputDir
  Tree <- MCTree
  Refused = Refused
  Cases <- MCCases
  Shifting <- MCShifting
INVARIANTS
  TypeOK
  SameSubtree
  IdNamesSheet
  FieldsStayWithTheirTrack
  CoverIsBest
  DurationIsOfSource
