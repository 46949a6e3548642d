\* Two clients of one and two seconds, three bytes and one, a queue of one.
SPECIFICATION FairSpec
CONSTANTS
  a = a
  b = b
  Clients <- TwoClients
  Server = Server
  ClientBuf <- McClientBuf
  ClientDuration <- McClientDuration
  ServerBufs <- McServerBufs
  Backlog = 1
  Window = 2
  MaxBytes <- McMaxBytes
  MaxSecs = 2
  MaxFaults = 1
INVARIANTS
  ReportsAgree
  FaultsStayWhereTheyHit
  NobodyIsForgotten
PROPERTIES
  StreamsAreWholeOrBroken
  ClosedStreamsDrain
  ServedToTheEnd
  NoClientIsStarved
\* Clients end, and without clients the server waits for ever.
CHECK_DEADLOCK FALSE
