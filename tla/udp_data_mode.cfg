\* The client is told to measure in data.
SPECIFICATION Spec
CONSTANTS
  s1 = s1
  s2 = s2
  None = None
  Senders <- OneSender
  ClientBuf <- RoomyBuf
  SeqMod = 16
  MaxTime = 4
  ClientDuration <- OneSec
  ClientMode <- DataMode
  MaxStart = 0
  MaxSends = 3
  ServerBuf = 16
  ServerDuration = 1
  MaxRx = 2
INVARIANTS
  DataModeCountsWrites
\* The programs stop: a state where all are done is a proper end.
CHECK_DEADLOCK FALSE
