SPECIFICATION Spec
CONSTANTS
  i1 = i1
  i2 = i2
  i3 = i3
  c1 = c1
  c2 = c2
  c3 = c3
  c4 = c4
  Ids = {i1, i2, i3}
  Calls = {c1, c2, c3, c4}
  QueueCap = 1
  LogCap = 1
  MaxTracks = 1
  MaxLines = 1
  NoState = NoState
SYMMETRY Symmetry
INVARIANT
  DuplicateNamesAJob
