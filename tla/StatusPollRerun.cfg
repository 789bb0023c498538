SPECIFICATION PollSpec
CONSTANTS
  i1 = i1
  c1 = c1
  c2 = c2
  Ids = {i1}
  Calls = {c1, c2}
  PolledId = i1
  QueueCap = 1
  LogCap = 3
  MaxTracks = 1
  MaxLines = 2
  NoState = NoState
SYMMETRY CallSymmetry
INVARIANT
  NothingAddedIsSkipped
