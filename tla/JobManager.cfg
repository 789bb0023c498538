SPECIFICATION CallFairSpec
CONSTANTS
  i1 = i1
  i2 = i2
  c1 = c1
  c2 = c2
  c3 = c3
  Ids = {i1, i2}
  Calls = {c1, c2, c3}
  QueueCap = 1
  LogCap = 2
  MaxTracks = 1
  MaxLines = 2
  NoState = NoState
INVARIANTS
  TypeOK
  PlaceholderOwned
  QueueMatchesRegistry
  SlotIsBacked
  AcceptedIsPlaced
  RefusalLeavesNoTrace
  ErrorExplained
PROPERTIES
  TerminalIsFinal
  EntryMovesForward
  ImplementsService
  EnqueueReturns
  NotAcceptedAfterCancel
  AcceptedJobEnds
  WorkerLeaves
