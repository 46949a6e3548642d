\* A client whose buffer has no room for the prefix, and a server that cuts datagrams.
SPECIFICATION Spec
CONSTANTS
  s1 = s1
  s2 = s2
  None = None
  Senders <- TwoSenders
  ClientBuf <- MixedBuf
  SeqMod = 16
  MaxTime = 3
  ClientDuration <- OneSec
  ClientMode <- TimeMode
  MaxStart = 0
  MaxSends = 2
  ServerBuf = 4
  ServerDuration = 1
  MaxRx = 2
INVARIANTS
  SuccessMeansTraffic
\* The programs stop: a state where all are done is a proper end.
CHECK_DEADLOCK FALSE
