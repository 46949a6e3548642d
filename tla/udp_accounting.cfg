\* Two senders of six numbers each, of a counter that wraps at five; five reads.
SPECIFICATION Spec
CONSTANTS
  s1 = s1
  s2 = s2
  None = None
  Senders <- TwoSenders
  ClientBuf <- RoomyBuf
  SeqMod = 5
  MaxTime = 1
  ClientDuration <- OneSec
  ClientMode <- TimeMode
  MaxStart = 0
  MaxSends = 6
  ServerBuf = 16
  ServerDuration = None
  MaxRx = 5
INVARIANTS
  SpanIsAccountedFor
  LossBracketsMissing
  LossIsReal
  TypeOK
PROPERTIES
  HighWaterNeverRecedes
  CountsLikeALossMeter
\* The programs stop: a state where all are done is a proper end.
CHECK_DEADLOCK FALSE
