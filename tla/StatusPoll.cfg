SPECIFICATION PollSpec
CONSTANTS
  i1 = i1
  i2 = i2
  c1 = c1
  c2 = c2
  c3 = c3
  Ids = {i1, i2}
  Calls = {c1, c2, c3}
  PolledId = i1
  QueueCap = 1
  LogCap = 2
  MaxTracks = 0
  MaxLines = 2
  NoState = NoState
SYMMETRY CallSymmetry
INVARIANTS
  TerminalPollIsComplete
  FollowedWithoutHoles
PROPERTY
  PollsMoveForward
