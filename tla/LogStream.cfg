SPECIFICATION Spec
CONSTANTS
  LogCap = 2
  MaxLines = 5
  NoReply = NoReply
INVARIANTS
  TypeOK
  RetainedTail
  ReceivedInOrder
  MissedOnlyIfEvicted
