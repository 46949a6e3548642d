\* One client of two seconds, one server of two seconds, the clock in half seconds.
SPECIFICATION FairSpec
CONSTANTS
  s1 = s1
  s2 = s2
  None = None
  Senders <- OneSender
  ClientBuf <- RoomyBuf
  SeqMod = 16
  MaxTime = 6
  ClientDuration <- TwoSecs
  ClientMode <- TimeMode
  MaxStart = 1
  MaxSends = 3
  ServerBuf = 16
  ServerDuration = 2
  MaxRx = 3
INVARIANTS
  FinalReportCountsEverySend
  ClientLinesWithinTime
  ServerLinesWithinTime
  NoReadPastDeadline
PROPERTIES
  TimedServerStops
  ClientStops
\* The programs stop: a state where all are done is a proper end.
CHECK_DEADLOCK FALSE
