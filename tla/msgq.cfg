SPECIFICATION Spec
CONSTANTS
  Threads <- MCThreads
  Patient <- MCPatient
  Prio <- MCPrio
  Msg = {1, 2}
  NoMsg = NoMsg
  MaxMsgs = 2
  MaxPuts = 4
INVARIANTS
  TypeOK
  WaitersMatchTheQueue
  FirstInFirstOut
  WokenReaderHasMessage
CHECK_DEADLOCK FALSE
