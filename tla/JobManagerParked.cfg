SPECIFICATION FairSpec
CONSTANTS
  i1 = i1
  c1 = c1
  Ids = {i1}
  Calls = {c1}
  QueueCap = 1
  LogCap = 1
  MaxTracks = 1
  MaxLines = 1
  NoState = NoState
PROPERTY
  NotAcceptedWithoutWorker
