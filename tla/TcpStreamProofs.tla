--------------------------- MODULE TcpStreamProofs ---------------------------
(***************************************************************************)
(* Proofs about TcpStream for every set of clients, every buffer size,     *)
(* duration, backlog and window, and every bound.                          *)
(***************************************************************************)
EXTENDS TcpStream, TLAPS

\* A reading of the clock is a number of seconds.
LEMMA ReadingsType ==
  ASSUME NEW last \in Nat, NEW secs \in Readings(last)
  PROVE  secs \in Nat
BY TcpAssumption DEF Readings, MaxOf

\* Closing an interval keeps the state of a client and moves no bit out of its
\* books.
LEMMA CloseIntervalBooks ==
  ASSUME NEW k \in ClientState, NEW secs \in Nat
  PROVE  LET l == CloseInterval(k, secs) IN
         /\ l \in ClientState
         /\ l.pc = k.pc
         /\ l.total + l.interval_sent = k.total + k.interval_sent
         /\ l.interval = IF secs > k.interval THEN secs ELSE k.interval
         /\ secs > k.interval => l.interval_sent = 0
<1> DEFINE closed == [pc |-> k.pc, interval |-> secs, interval_sent |-> 0,
                      total |-> k.total + k.interval_sent]
<1>1. closed \in ClientState
  BY DEF ClientState
<1>2. CASE secs > k.interval
  <2>1. CloseInterval(k, secs) = closed
    BY <1>2 DEF CloseInterval, ClientState
  <2>2. QED
    BY <1>1, <1>2, <2>1 DEF ClientState
<1>3. CASE ~(secs > k.interval)
  BY <1>3 DEF CloseInterval, ClientState
<1>4. QED
  BY <1>2, <1>3

\* The same for the interval of a thread.
LEMMA MeterBooks ==
  ASSUME NEW k \in ThreadState, NEW secs \in Nat
  PROVE  LET l == Meter(k, secs) IN
         /\ l \in ThreadState
         /\ l.pc = k.pc
         /\ l.reported + l.interval_sent = k.reported + k.interval_sent
<1> DEFINE closed == [pc |-> k.pc, n |-> k.n, interval |-> secs, interval_sent |-> 0,
                      reported |-> k.reported + k.interval_sent]
<1>1. closed \in ThreadState
  BY DEF ThreadState
<1>2. CASE secs > k.interval
  <2>1. Meter(k, secs) = closed
    BY <1>2 DEF Meter, ThreadState
  <2>2. QED
    BY <1>1, <1>2, <2>1 DEF ThreadState
<1>3. CASE ~(secs > k.interval)
  BY <1>3 DEF Meter, ThreadState
<1>4. QED
  BY <1>2, <1>3

------------------------------------------------------------------------------
(***************************************************************************)
(* What the steps do to the locals of one client and one thread.           *)
(***************************************************************************)

\* The update of two fields, field by field.
LEMMA SentFields ==
  ASSUME NEW k \in ClientState, NEW bits \in Nat
  PROVE  LET l == [k EXCEPT !.pc = "sample", !.interval_sent = bits] IN
         /\ l \in ClientState
         /\ l.pc = "sample" /\ l.interval = k.interval /\ l.total = k.total
         /\ l.interval_sent = bits
BY DEF ClientState

\* A send adds to what is written and to the open interval alike.
LEMMA SendEffect ==
  ASSUME TypeOK, NEW c \in Clients, Send(c)
  PROVE  \E k \in Nat, l \in ClientState :
           /\ written' = [written EXCEPT ![c] = @ + k]
           /\ client' = [client EXCEPT ![c] = l]
           /\ l.pc = "sample" /\ l.interval = client[c].interval /\ l.total = client[c].total
           /\ l.interval_sent = client[c].interval_sent + Bits(k)
<1>1. PICK k \in 0 .. ClientBuf[c] : SendCounting(c, k, k)
  BY DEF Send
<1>2. k \in Nat /\ client[c] \in ClientState
  BY TcpAssumption DEF TypeOK
<1> DEFINE bits == client[c].interval_sent + Bits(k)
           l == [client[c] EXCEPT !.pc = "sample", !.interval_sent = bits]
<1>3. bits \in Nat
  BY <1>2 DEF ClientState, Bits
<1>4. client' = [client EXCEPT ![c] = l] /\ written' = [written EXCEPT ![c] = @ + k]
  BY <1>1 DEF SendCounting
<1>5. /\ l \in ClientState
      /\ l.pc = "sample" /\ l.interval = client[c].interval /\ l.total = client[c].total
      /\ l.interval_sent = bits
  <2> HIDE DEF bits
  <2>1. QED
    BY <1>2, <1>3, SentFields
<1> HIDE DEF l
<1>6. QED
  BY <1>2, <1>4, <1>5

\* A reading of the clock keeps the books of a client, and ends it exactly when
\* the deadline has passed; the interval is then closed.
LEMMA SampleEffect ==
  ASSUME TypeOK, NEW c \in Clients, Sample(c)
  PROVE  \E secs \in Nat, l \in ClientState :
           /\ client' = [client EXCEPT ![c] = l]
           /\ l.pc = IF secs >= ClientDuration[c] THEN "done" ELSE "send"
           /\ conn' = IF secs >= ClientDuration[c] THEN ClosedByClient(c) ELSE conn
           /\ l.total + l.interval_sent = client[c].total + client[c].interval_sent
           /\ l.interval = IF secs > client[c].interval THEN secs ELSE client[c].interval
           /\ secs > client[c].interval => l.interval_sent = 0
<1>1. client[c] \in ClientState /\ client[c].interval \in Nat
  BY DEF TypeOK, ClientState
<1>2. PICK secs \in Readings(client[c].interval) : SampleAt(c, secs)
  BY DEF Sample
<1>3. secs \in Nat
  BY <1>1, <1>2, ReadingsType
<1> DEFINE k == CloseInterval(client[c], secs)
           p == IF secs >= ClientDuration[c] THEN "done" ELSE "send"
           l == [k EXCEPT !.pc = p]
<1>4. /\ k \in ClientState
      /\ k.total + k.interval_sent = client[c].total + client[c].interval_sent
      /\ k.interval = IF secs > client[c].interval THEN secs ELSE client[c].interval
      /\ secs > client[c].interval => k.interval_sent = 0
  BY <1>1, <1>3, CloseIntervalBooks
<1>5. client' = [client EXCEPT ![c] = l] /\ conn' = IF secs >= ClientDuration[c] THEN ClosedByClient(c) ELSE conn
  BY <1>2 DEF SampleAt
<1> HIDE DEF k
<1>6. /\ l \in ClientState /\ l.pc = p
      /\ l.total = k.total /\ l.interval = k.interval /\ l.interval_sent = k.interval_sent
  BY <1>4 DEF ClientState
<1> HIDE DEF l
<1>7. QED
  BY <1>3, <1>4, <1>5, <1>6

\* A read adds to what is heard and to the books of the thread alike.
LEMMA RecvEffect ==
  ASSUME TypeOK, NEW c \in Clients, Recv(c)
  PROVE  \E r \in 1 .. InFlight(c), l \in ThreadState :
           /\ heard' = [heard EXCEPT ![c] = @ + r]
           /\ thread' = [thread EXCEPT ![c] = l]
           /\ l.pc = "recv"
           /\ l.reported + l.interval_sent
                = thread[c].reported + thread[c].interval_sent + Bits(r)
<1>1. /\ thread[c] \in ThreadState /\ thread[c].interval \in Nat /\ sz \in Nat
      /\ InFlight(c) \in Int
  BY TcpAssumption DEF TypeOK, ThreadState, InFlight
<1>2. PICK r \in 1 .. MinOf(sz, InFlight(c)), secs \in Readings(thread[c].interval) :
        Reads(c, r, Counted(thread[c], r, secs))
  BY DEF Recv
<1>3. secs \in Nat /\ r \in Nat /\ r \in 1 .. InFlight(c)
  BY <1>1, <1>2, ReadingsType DEF MinOf
<1> DEFINE bits == thread[c].interval_sent + Bits(r)
           bytes == IF thread[c].n + r = sz THEN 0 ELSE thread[c].n + r
           k == [thread[c] EXCEPT !.interval_sent = bits, !.n = bytes]
           l == Meter(k, secs)
<1>4. bits \in Nat /\ bytes \in Nat
  BY <1>1, <1>3 DEF ThreadState, Bits
<1>5. thread[c].pc = "recv" /\ heard' = [heard EXCEPT ![c] = @ + r] /\ thread' = [thread EXCEPT ![c] = l]
  BY <1>2 DEF Reads, Counted
<1>6. k \in ThreadState /\ k.pc = thread[c].pc /\ k.reported = thread[c].reported /\ k.interval_sent = bits
  <2> HIDE DEF bits, bytes
  <2>1. thread[c] \in ThreadState
    BY <1>1
  <2>2. QED
    BY <2>1, <1>4 DEF ThreadState
<1> HIDE DEF k
<1>7. l \in ThreadState /\ l.pc = k.pc /\ l.reported + l.interval_sent = k.reported + k.interval_sent
  BY <1>3, <1>6, MeterBooks
<1>8. k.reported + k.interval_sent = thread[c].reported + thread[c].interval_sent + Bits(r)
  BY <1>1, <1>3, <1>6 DEF ThreadState, Bits
<1> HIDE DEF l
<1>9. QED
  BY <1>3, <1>5, <1>6, <1>7, <1>8

------------------------------------------------------------------------------
(***************************************************************************)
(* Type correctness.                                                       *)
(***************************************************************************)

\* The initial state is of the declared types.
LEMMA TypeInit == Init => TypeOK
BY TcpAssumption DEF Init, TypeOK, ClientState, ThreadState

\* What the end of the server does to threads and connections is of their types.
LEMMA ServerEndsType ==
  ASSUME TypeOK, ServerEnds
  PROVE  /\ server' = "gone" /\ queue' = <<>>
         /\ thread' \in [Clients -> ThreadState]
         /\ conn' \in [Clients -> {"none", "open", "closed", "reset"}]
<1>1. \A c \in Clients : thread[c] \in ThreadState /\ [thread[c] EXCEPT !.pc = "killed"] \in ThreadState
  BY DEF TypeOK, ThreadState
<1>2. QED
  BY <1>1 DEF ServerEnds, TypeOK

\* Every step of a client, of its thread or of its connection keeps the types.
LEMMA ConnectionType ==
  ASSUME TypeOK, NEW c \in Clients, ClientStep(c) \/ ThreadStep(c) \/ Breaks(c)
  PROVE  TypeOK'
<1>1. client[c] \in ClientState /\ thread[c] \in ThreadState
  BY DEF TypeOK
<1>2. \A p \in {"send", "failed"} : [client[c] EXCEPT !.pc = p] \in ClientState
  BY <1>1 DEF ClientState
<1>3. /\ \A p \in {"ended", "panicked"} : [thread[c] EXCEPT !.pc = p] \in ThreadState
      /\ [thread[c] EXCEPT !.n = 0] \in ThreadState
  BY <1>1 DEF ThreadState
<1>4. ClosedByClient(c) \in [Clients -> {"none", "open", "closed", "reset"}]
  BY DEF TypeOK, ClosedByClient
<1>5. CASE Connect(c)
  BY <1>2, <1>5 DEF Connect, TypeOK
<1>6. CASE ConnectFails(c)
  BY <1>2, <1>6 DEF ConnectFails, TypeOK
<1>7. CASE Send(c)
  <2>1. UNCHANGED <<sz, server, queue, conn, thread, heard, faults>>
    BY <1>7 DEF Send, SendCounting
  <2>2. PICK k \in Nat, l \in ClientState :
          written' = [written EXCEPT ![c] = @ + k] /\ client' = [client EXCEPT ![c] = l]
    BY <1>7, SendEffect
  <2>3. QED
    BY <2>1, <2>2 DEF TypeOK
<1>8. CASE SendFails(c)
  BY <1>2, <1>8 DEF SendFails, TypeOK
<1>9. CASE Sample(c)
  <2>1. UNCHANGED <<sz, server, queue, thread, written, heard, faults>>
    BY <1>9 DEF Sample
  <2>2. QED
    <3>1. PICK secs \in Nat, l \in ClientState :
            /\ client' = [client EXCEPT ![c] = l]
            /\ conn' = IF secs >= ClientDuration[c] THEN ClosedByClient(c) ELSE conn
      BY <1>9, SampleEffect
    <3>2. QED
      BY <1>4, <2>1, <3>1 DEF TypeOK
<1>10. CASE Killed(c)
  BY <1>2, <1>4, <1>10 DEF Killed, TypeOK
<1>11. CASE Recv(c)
  <2>1. UNCHANGED <<sz, server, queue, conn, client, written, faults>>
    BY <1>11 DEF Recv, Reads
  <2>2. PICK r \in 1 .. InFlight(c), l \in ThreadState :
          heard' = [heard EXCEPT ![c] = @ + r] /\ thread' = [thread EXCEPT ![c] = l]
    BY <1>11, RecvEffect
  <2>3. r \in Nat
    BY <2>2 DEF InFlight, TypeOK
  <2>4. QED
    BY <2>1, <2>2, <2>3 DEF TypeOK
<1>12. CASE RecvEof(c)
  <2>1. conn' \in [Clients -> {"none", "open", "closed", "reset"}]
    BY <1>12 DEF RecvEof, TypeOK
  <2>2. thread' \in [Clients -> ThreadState]
    BY <1>3, <1>12 DEF RecvEof, TypeOK
  <2>3. QED
    BY <1>12, <2>1, <2>2 DEF RecvEof, TypeOK
<1>13. CASE RecvFails(c)
  BY <1>3, <1>13 DEF RecvFails, TypeOK
<1>14. CASE Breaks(c)
  BY <1>14 DEF Breaks, TypeOK
<1>15. QED
  BY <1>5, <1>6, <1>7, <1>8, <1>9, <1>10, <1>11, <1>12, <1>13, <1>14
     DEF ClientStep, ThreadStep

\* Every step keeps the types.
LEMMA TypeStep == TypeOK /\ [Next]_vars => TypeOK'
<1> SUFFICES ASSUME TypeOK, [Next]_vars PROVE TypeOK'
  OBVIOUS
<1>1. CASE \E c \in Clients : ClientStep(c) \/ ThreadStep(c) \/ Breaks(c)
  BY <1>1, ConnectionType
<1>2. CASE Accept
  <2>1. Head(queue) \in Clients /\ Tail(queue) \in Seq(Clients)
    BY <1>2 DEF Accept, TypeOK
  <2>2. [thread[Head(queue)] EXCEPT !.pc = "recv"] \in ThreadState
    BY <2>1 DEF TypeOK, ThreadState
  <2>3. QED
    BY <1>2, <2>1, <2>2 DEF Accept, TypeOK
<1>3. CASE AcceptFails \/ AcceptAborted
  <2>1. ServerEnds
    BY <1>3 DEF AcceptFails, AcceptAborted
  <2>2. /\ server' = "gone" /\ queue' = <<>>
        /\ thread' \in [Clients -> ThreadState]
        /\ conn' \in [Clients -> {"none", "open", "closed", "reset"}]
    BY <2>1, ServerEndsType
  <2>3. QED
    BY <1>3, <2>2 DEF AcceptFails, AcceptAborted, TypeOK
<1>4. CASE UNCHANGED vars
  BY <1>4 DEF vars, TypeOK
<1>5. QED
  BY <1>1, <1>2, <1>3, <1>4 DEF Next

\* Every variable of both transports' ends and of the network keeps its type.
THEOREM TcpTypeCorrect == Spec => []TypeOK
BY TypeInit, TypeStep, PTL DEF Spec

------------------------------------------------------------------------------
(***************************************************************************)
(* The inductive invariant, part by part.                                  *)
(***************************************************************************)

\* The connection keeps following its client.
LEMMA ConnStep == TypeOK /\ ConnInv /\ QueueInv /\ [Next]_vars => ConnInv'
<1> SUFFICES ASSUME TypeOK, ConnInv, QueueInv, [Next]_vars PROVE ConnInv'
  OBVIOUS
<1> USE DEF ConnInv
<1>1. ASSUME NEW c \in Clients, ClientStep(c) \/ ThreadStep(c) \/ Breaks(c)
      PROVE  ConnInv'
  <2>1. client \in [Clients -> ClientState] /\ thread \in [Clients -> ThreadState]
        /\ conn \in [Clients -> {"none", "open", "closed", "reset"}]
    BY DEF TypeOK
  <2>2. client[c].pc \in {"idle", "send", "sample", "done", "failed"}
    BY <2>1 DEF ClientState
  <2>3. CASE Connect(c)
    BY <2>1, <2>3 DEF Connect, ClientState
  <2>4. CASE ConnectFails(c)
    BY <2>1, <2>4 DEF ConnectFails, ClientState
  <2>5. CASE Send(c)
    <3>1. PICK l \in ClientState : client' = [client EXCEPT ![c] = l] /\ l.pc = "sample"
      BY <2>5, SendEffect
    <3>2. client[c].pc = "send" /\ UNCHANGED <<conn, thread>>
      BY <2>5 DEF Send, SendCounting
    <3>3. QED
      BY <2>1, <3>1, <3>2
  <2>6. CASE SendFails(c)
    BY <2>1, <2>6 DEF SendFails, ClientState
  <2>7. CASE Sample(c)
    <3>1. PICK secs \in Nat, l \in ClientState :
            /\ client' = [client EXCEPT ![c] = l]
            /\ l.pc = IF secs >= ClientDuration[c] THEN "done" ELSE "send"
            /\ conn' = IF secs >= ClientDuration[c] THEN ClosedByClient(c) ELSE conn
      BY <2>7, SampleEffect
    <3>2. client[c].pc = "sample" /\ UNCHANGED thread
      BY <2>7 DEF Sample
    <3>3. QED
      BY <2>1, <3>1, <3>2 DEF ClosedByClient
  <2>8. CASE Killed(c)
    BY <2>1, <2>8 DEF Killed, ClosedByClient, ClientState
  <2>9. CASE Recv(c)
    <3>1. PICK l \in ThreadState : thread' = [thread EXCEPT ![c] = l] /\ l.pc = "recv"
      BY <2>9, RecvEffect
    <3>2. thread[c].pc = "recv" /\ UNCHANGED <<conn, client>>
      BY <2>9 DEF Recv, Reads
    <3>3. QED
      BY <2>1, <3>1, <3>2
  <2>10. CASE RecvEof(c)
    BY <2>1, <2>10 DEF RecvEof, ThreadState
  <2>11. CASE RecvFails(c)
    BY <2>1, <2>11 DEF RecvFails, ThreadState
  <2>12. CASE Breaks(c)
    BY <2>1, <2>2, <2>12 DEF Breaks
  <2>13. QED
    BY <1>1, <2>3, <2>4, <2>5, <2>6, <2>7, <2>8, <2>9, <2>10, <2>11, <2>12
       DEF ClientStep, ThreadStep
<1>2. CASE Accept
  <2>1. Head(queue) \in Clients /\ Head(queue) = queue[1] /\ 1 \in DOMAIN queue
    BY <1>2 DEF Accept, TypeOK
  <2>2. conn[Head(queue)] # "none"
    BY <2>1 DEF QueueInv
  <2>3. QED
    BY <1>2, <2>1, <2>2 DEF Accept, TypeOK, ThreadState
<1>3. CASE AcceptFails \/ AcceptAborted
  BY <1>3 DEF AcceptFails, AcceptAborted, ServerEnds, TypeOK, ThreadState
<1>4. CASE UNCHANGED vars
  BY <1>4 DEF vars
<1>5. QED
  BY <1>1, <1>2, <1>3, <1>4 DEF Next

\* The queue keeps connections that nobody serves, each of them once.
LEMMA QueueStep == TypeOK /\ ConnInv /\ QueueInv /\ [Next]_vars => QueueInv'
<1> SUFFICES ASSUME TypeOK, ConnInv, QueueInv, [Next]_vars PROVE QueueInv'
  OBVIOUS
<1> USE DEF QueueInv
<1>1. /\ queue \in Seq(Clients) /\ DOMAIN queue = 1 .. Len(queue) /\ Len(queue) \in Nat
      /\ \A i \in DOMAIN queue : queue[i] \in Clients
  BY DEF TypeOK
<1>2. ASSUME UNCHANGED queue, \A d \in Clients : conn[d] # "none" => conn'[d] # "none",
             \A d \in Clients : thread[d].pc = "none" => thread'[d].pc = "none"
      PROVE  QueueInv'
  BY <1>1, <1>2
<1>3. ASSUME NEW c \in Clients, ClientStep(c) \/ ThreadStep(c) \/ Breaks(c)
      PROVE  QueueInv'
  <2>1. client \in [Clients -> ClientState] /\ thread \in [Clients -> ThreadState]
        /\ conn \in [Clients -> {"none", "open", "closed", "reset"}]
    BY DEF TypeOK
  <2>2. CASE Connect(c)
    <3>1. conn[c] = "none" /\ thread[c].pc = "none"
      BY <2>2 DEF Connect, ConnInv
    <3>2. /\ queue' = Append(queue, c) /\ conn' = [conn EXCEPT ![c] = "open"]
          /\ UNCHANGED thread
      BY <2>2 DEF Connect
    <3>3. \A i \in DOMAIN queue : queue[i] # c
      BY <3>1
    <3>4. /\ DOMAIN queue' = 1 .. Len(queue) + 1
          /\ \A i \in DOMAIN queue : queue'[i] = queue[i]
          /\ queue'[Len(queue) + 1] = c
      BY <1>1, <3>2
    <3>5. \A i \in DOMAIN queue' : i \in DOMAIN queue \/ i = Len(queue) + 1
      BY <1>1, <3>4
    <3>6. QED
      BY <1>1, <2>1, <3>1, <3>2, <3>3, <3>4, <3>5
  <2>3. CASE ConnectFails(c) \/ Send(c) \/ SendFails(c)
    <3>1. UNCHANGED <<queue, conn, thread>>
      BY <2>3 DEF ConnectFails, Send, SendCounting, SendFails
    <3>2. QED
      BY <1>2, <3>1
  <2>4. CASE Sample(c) \/ Killed(c)
    <3>1. UNCHANGED <<queue, thread>> /\ (conn' = conn \/ conn' = ClosedByClient(c))
      BY <2>4 DEF Sample, SampleAt, Killed
    <3>2. QED
      BY <1>2, <2>1, <3>1 DEF ClosedByClient
  <2>5. CASE Recv(c)
    <3>1. thread[c].pc = "recv" /\ UNCHANGED <<queue, conn>>
      BY <2>5 DEF Recv, Reads
    <3>2. PICK l \in ThreadState : thread' = [thread EXCEPT ![c] = l]
      BY <2>5, RecvEffect
    <3>3. QED
      BY <1>2, <2>1, <3>1, <3>2
  <2>6. CASE RecvEof(c) \/ RecvFails(c)
    <3>1. /\ thread[c].pc = "recv" /\ UNCHANGED queue
          /\ \A d \in Clients : d # c => thread'[d] = thread[d]
          /\ \A d \in Clients : conn[d] # "none" => conn'[d] # "none"
      BY <2>1, <2>6 DEF RecvEof, RecvFails
    <3>2. QED
      BY <1>2, <3>1
  <2>7. CASE Breaks(c)
    BY <1>2, <2>1, <2>7 DEF Breaks
  <2>8. QED
    BY <1>3, <2>2, <2>3, <2>4, <2>5, <2>6, <2>7 DEF ClientStep, ThreadStep
<1>4. CASE Accept
  <2>1. /\ queue # <<>> /\ queue' = Tail(queue) /\ UNCHANGED conn
        /\ thread' = [thread EXCEPT ![queue[1]].pc = "recv"]
    BY <1>1, <1>4 DEF Accept
  <2>2. /\ 1 \in DOMAIN queue
        /\ \A i \in DOMAIN queue' : i + 1 \in DOMAIN queue /\ queue'[i] = queue[i + 1] /\ i \in 1 .. Len(queue)
    BY <1>1, <2>1
  <2>3. \A i \in DOMAIN queue' : queue'[i] # queue[1] /\ queue'[i] \in Clients
    BY <1>1, <2>2
  <2>4. \A i \in DOMAIN queue' : thread'[queue'[i]] = thread[queue'[i]]
    BY <2>1, <2>3 DEF TypeOK
  <2>5. QED
    BY <2>1, <2>2, <2>4
<1>5. CASE AcceptFails \/ AcceptAborted
  BY <1>5 DEF AcceptFails, AcceptAborted, ServerEnds
<1>6. CASE UNCHANGED vars
  BY <1>2, <1>6 DEF vars
<1>7. QED
  BY <1>3, <1>4, <1>5, <1>6 DEF Next

\* No byte is heard before it is written, and none is left at a proper end.
LEMMA HeardStep == TypeOK /\ ConnInv /\ QueueInv /\ HeardInv /\ [Next]_vars => HeardInv'
<1> SUFFICES ASSUME TypeOK, ConnInv, QueueInv, HeardInv, [Next]_vars PROVE HeardInv'
  OBVIOUS
<1> USE DEF HeardInv
<1>1. /\ client \in [Clients -> ClientState] /\ thread \in [Clients -> ThreadState]
      /\ conn \in [Clients -> {"none", "open", "closed", "reset"}]
      /\ written \in [Clients -> Nat] /\ heard \in [Clients -> Nat] /\ sz \in Nat
  BY TcpAssumption DEF TypeOK
<1>2. ASSUME NEW c \in Clients, ClientStep(c) \/ ThreadStep(c) \/ Breaks(c)
      PROVE  HeardInv'
  <2>1. CASE Connect(c)
    BY <1>1, <2>1 DEF Connect, ConnInv
  <2>2. CASE ConnectFails(c) \/ SendFails(c)
    BY <2>2 DEF ConnectFails, SendFails
  <2>3. CASE Send(c)
    <3>1. PICK k \in Nat : written' = [written EXCEPT ![c] = @ + k]
      BY <2>3, SendEffect
    <3>2. client[c].pc = "send" /\ UNCHANGED <<sz, conn, thread, heard>>
      BY <2>3 DEF Send, SendCounting
    <3>3. conn[c] # "closed"
      BY <3>2 DEF ConnInv
    <3>4. QED
      BY <1>1, <3>1, <3>2, <3>3
  <2>4. CASE Sample(c) \/ Killed(c)
    <3>1. /\ UNCHANGED <<sz, thread, written, heard>>
          /\ conn' = conn \/ conn' = ClosedByClient(c)
      BY <2>4 DEF Sample, SampleAt, Killed
    <3>2. QED
      BY <1>1, <3>1 DEF ClosedByClient
  <2>5. CASE Recv(c)
    <3>1. PICK r \in 1 .. InFlight(c), l \in ThreadState :
            /\ heard' = [heard EXCEPT ![c] = @ + r]
            /\ thread' = [thread EXCEPT ![c] = l] /\ l.pc = "recv"
      BY <2>5, RecvEffect
    <3>2. UNCHANGED <<sz, conn, written>>
      BY <2>5 DEF Recv, Reads
    <3>3. QED
      BY <1>1, <3>1, <3>2 DEF InFlight
  <2>6. CASE RecvEof(c)
    <3>1. sz = 0 \/ (conn[c] = "closed" /\ heard[c] = written[c])
      BY <1>1, <2>6 DEF RecvEof, AtEof, InFlight
    <3>2. UNCHANGED <<sz, written, heard>>
      BY <2>6 DEF RecvEof
    <3>3. CASE sz = 0
      BY <3>2, <3>3
    <3>4. CASE sz # 0
      <4>1. UNCHANGED conn
        BY <1>1, <2>6, <3>1, <3>4 DEF RecvEof, InFlight
      <4>2. \A d \in Clients : d # c => thread'[d] = thread[d]
        BY <1>1, <2>6 DEF RecvEof
      <4>3. QED
        BY <3>1, <3>2, <3>4, <4>1, <4>2
    <3>5. QED
      BY <3>3, <3>4
  <2>7. CASE RecvFails(c)
    BY <1>1, <2>7 DEF RecvFails, ThreadState
  <2>8. CASE Breaks(c)
    BY <1>1, <2>8 DEF Breaks
  <2>9. QED
    BY <1>2, <2>1, <2>2, <2>3, <2>4, <2>5, <2>6, <2>7, <2>8 DEF ClientStep, ThreadStep
<1>3. CASE Accept
  <2>1. Head(queue) \in Clients
    BY <1>3 DEF Accept, TypeOK
  <2>2. QED
    BY <1>1, <1>3, <2>1 DEF Accept, ThreadState
<1>4. CASE AcceptFails \/ AcceptAborted
  <2>1. /\ UNCHANGED <<sz, written, heard>>
        /\ conn' = [c \in Clients |->
             IF conn[c] \in {"open", "closed"} /\ thread[c].pc # "ended" THEN "reset" ELSE conn[c]]
    BY <1>4 DEF AcceptFails, AcceptAborted, ServerEnds
  <2>2. \A c \in Clients : thread'[c].pc = "ended" => thread[c].pc = "ended"
    <3>1. \A c \in Clients : [thread[c] EXCEPT !.pc = "killed"].pc = "killed"
      BY <1>1 DEF ThreadState
    <3>2. thread' = [c \in Clients |->
            IF thread[c].pc = "recv" THEN [thread[c] EXCEPT !.pc = "killed"] ELSE thread[c]]
      BY <1>4 DEF AcceptFails, AcceptAborted, ServerEnds
    <3>3. QED
      BY <3>1, <3>2
  <2>3. QED
    BY <1>1, <2>1, <2>2
<1>5. CASE UNCHANGED vars
  BY <1>5 DEF vars
<1>6. QED
  BY <1>2, <1>3, <1>4, <1>5 DEF Next

\* The books of clients and threads stay in balance.
LEMMA BooksStep == TypeOK /\ BooksInv /\ [Next]_vars => BooksInv'
<1> SUFFICES ASSUME TypeOK, BooksInv, [Next]_vars PROVE BooksInv'
  OBVIOUS
<1>1. /\ client \in [Clients -> ClientState] /\ thread \in [Clients -> ThreadState]
      /\ written \in [Clients -> Nat] /\ heard \in [Clients -> Nat]
      /\ ClientDuration \in [Clients -> Nat]
  BY TcpAssumption DEF TypeOK
<1> DEFINE Sent(d) == client[d].total + client[d].interval_sent = Bits(written[d])
           Told(d) == thread[d].reported + thread[d].interval_sent = Bits(heard[d])
           Timed(d) == ClientDuration[d] >= 1 =>
             /\ client[d].pc \in {"idle", "send", "sample"} => client[d].interval < ClientDuration[d]
             /\ client[d].pc = "done" => client[d].interval_sent = 0
<1>2. \A d \in Clients : Sent(d) /\ Told(d) /\ Timed(d)
  BY DEF BooksInv
<1>3. SUFFICES \A d \in Clients : Sent(d)' /\ Told(d)' /\ Timed(d)'
  BY DEF BooksInv
<1>4. ASSUME NEW c \in Clients, ClientStep(c) \/ ThreadStep(c) \/ Breaks(c)
      PROVE  \A d \in Clients : Sent(d)' /\ Told(d)' /\ Timed(d)'
  <2>1. CASE Connect(c) \/ ConnectFails(c) \/ SendFails(c) \/ Killed(c)
    <3>1. /\ UNCHANGED <<thread, written, heard>>
          /\ \E p \in {"send", "failed"} : client' = [client EXCEPT ![c].pc = p]
          /\ client[c].pc \in {"idle", "send", "sample"}
      BY <2>1 DEF Connect, ConnectFails, SendFails, Killed
    <3>2. \A d \in Clients :
            /\ client'[d].total = client[d].total
            /\ client'[d].interval_sent = client[d].interval_sent
            /\ client'[d].interval = client[d].interval
            /\ client'[d].pc = client[d].pc \/ (d = c /\ client'[d].pc \in {"send", "failed"})
      BY <1>1, <3>1 DEF ClientState
    <3>3. QED
      BY <1>2, <3>1, <3>2
  <2>2. CASE Send(c)
    <3>1. PICK k \in Nat, l \in ClientState :
            /\ written' = [written EXCEPT ![c] = @ + k]
            /\ client' = [client EXCEPT ![c] = l]
            /\ l.pc = "sample" /\ l.interval = client[c].interval /\ l.total = client[c].total
            /\ l.interval_sent = client[c].interval_sent + Bits(k)
      BY <2>2, SendEffect
    <3>2. client[c].pc = "send" /\ UNCHANGED <<thread, heard>>
      BY <2>2 DEF Send, SendCounting
    <3>3. client'[c] = l /\ written'[c] = written[c] + k
      BY <1>1, <3>1
    <3>4. /\ client[c].total \in Nat /\ client[c].interval_sent \in Nat /\ written[c] \in Nat
          /\ client[c].total + client[c].interval_sent = Bits(written[c])
      BY <1>1, <1>2 DEF ClientState
    <3>5. Bits(written[c] + k) = Bits(written[c]) + Bits(k) /\ Bits(k) \in Nat
      BY <3>4 DEF Bits
    <3>6. l.total + l.interval_sent = Bits(written[c] + k)
      BY <3>1, <3>4, <3>5
    <3>7. client'[c].total + client'[c].interval_sent = Bits(written'[c])
      BY <3>3, <3>6
    <3>8. QED
      BY <1>1, <1>2, <3>1, <3>2, <3>7
  <2>3. CASE Sample(c)
    <3>1. PICK secs \in Nat, l \in ClientState :
            /\ client' = [client EXCEPT ![c] = l]
            /\ l.pc = IF secs >= ClientDuration[c] THEN "done" ELSE "send"
            /\ l.total + l.interval_sent = client[c].total + client[c].interval_sent
            /\ l.interval = IF secs > client[c].interval THEN secs ELSE client[c].interval
            /\ secs > client[c].interval => l.interval_sent = 0
      BY <2>3, SampleEffect
    <3>2. client[c].pc = "sample" /\ UNCHANGED <<thread, written, heard>>
      BY <2>3 DEF Sample
    <3>3. client[c].interval \in Nat /\ ClientDuration[c] \in Nat
      BY <1>1 DEF ClientState
    <3>4. Timed(c)'
      BY <1>1, <1>2, <3>1, <3>2, <3>3
    <3>5. QED
      BY <1>1, <1>2, <3>1, <3>2, <3>4
  <2>4. CASE Recv(c)
    <3>1. PICK r \in 1 .. InFlight(c), l \in ThreadState :
            /\ heard' = [heard EXCEPT ![c] = @ + r]
            /\ thread' = [thread EXCEPT ![c] = l]
            /\ l.reported + l.interval_sent
                 = thread[c].reported + thread[c].interval_sent + Bits(r)
      BY <2>4, RecvEffect
    <3>2. UNCHANGED <<client, written>> /\ r \in Nat
      BY <1>1, <2>4, <3>1 DEF Recv, Reads, InFlight
    <3>3. Told(c)'
      BY <1>1, <1>2, <3>1, <3>2 DEF Bits, ThreadState
    <3>4. QED
      BY <1>1, <1>2, <3>1, <3>2, <3>3
  <2>5. CASE RecvEof(c) \/ RecvFails(c) \/ Breaks(c)
    <3>1. /\ UNCHANGED <<client, written, heard>>
          /\ \A d \in Clients : /\ thread'[d].reported = thread[d].reported
                                /\ thread'[d].interval_sent = thread[d].interval_sent
      BY <1>1, <2>5 DEF RecvEof, RecvFails, Breaks, ThreadState
    <3>2. QED
      BY <1>2, <3>1
  <2>6. QED
    BY <1>4, <2>1, <2>2, <2>3, <2>4, <2>5 DEF ClientStep, ThreadStep
<1>5. CASE Accept \/ AcceptFails \/ AcceptAborted
  <2>1. UNCHANGED <<client, written, heard>>
    BY <1>5 DEF Accept, AcceptFails, AcceptAborted
  <2>2. \A d \in Clients : /\ thread'[d].reported = thread[d].reported
                           /\ thread'[d].interval_sent = thread[d].interval_sent
    <3>1. CASE Accept
      BY <1>1, <3>1 DEF Accept, ThreadState
    <3>2. CASE AcceptFails \/ AcceptAborted
      BY <1>1, <3>2 DEF AcceptFails, AcceptAborted, ServerEnds, ThreadState
    <3>3. QED
      BY <1>5, <3>1, <3>2
  <2>3. QED
    BY <1>2, <2>1, <2>2
<1>6. CASE UNCHANGED vars
  BY <1>2, <1>6 DEF vars
<1>7. QED
  BY <1>4, <1>5, <1>6 DEF Next

\* A step that leaves the server, the place of every thread and what is broken as
\* they are keeps the excuses, if no client fails by it.
LEMMA FaultKept ==
  ASSUME FaultInv, UNCHANGED <<sz, server>>, faults \subseteq faults',
         \A d \in Clients :
           /\ thread'[d].pc = thread[d].pc
           /\ conn'[d] = "reset" => conn[d] = "reset" \/ d \in faults'
           /\ server = "gone" /\ conn[d] = "reset" => conn'[d] = "reset"
           /\ client'[d].pc = "failed" => client[d].pc = "failed" \/ Excused(d)'
  PROVE  FaultInv'
<1>1. server' = "gone" => Server \in faults' \/ \E c \in Clients : BrokeInQueue(c)'
  BY DEF FaultInv, BrokeInQueue
<1>2. \A c \in Clients : Excused(c) => Excused(c)'
  BY DEF Excused
<1>3. ASSUME NEW c \in Clients
      PROVE  /\ thread'[c].pc = "recv" => server' = "up"
             /\ conn'[c] = "reset" /\ thread'[c].pc \in {"none", "recv"} /\ server' = "up" =>
                  c \in faults'
             /\ conn'[c] = "reset" \/ client'[c].pc = "failed" => Excused(c)'
             /\ thread'[c].pc = "panicked" => c \in faults'
  BY <1>2 DEF FaultInv, Excused
<1>4. QED
  BY <1>1, <1>3 DEF FaultInv

\* A step of one thread, of which only a break of its own connection ends in panic.
LEMMA FaultOfThread ==
  ASSUME FaultInv, NEW c \in Clients, UNCHANGED <<sz, server, client, faults>>,
         server = "up",
         \A d \in Clients \ {c} : thread'[d].pc = thread[d].pc /\ conn'[d] = conn[d],
         thread'[c].pc \in {"recv", "ended", "panicked"},
         thread'[c].pc = "panicked" => c \in faults,
         conn'[c] = "reset" => conn[c] = "reset" \/ (sz = 0 /\ thread'[c].pc = "ended"),
         conn'[c] = "reset" /\ thread'[c].pc = "recv" => c \in faults
  PROVE  FaultInv'
<1>1. ASSUME NEW d \in Clients
      PROVE  /\ thread'[d].pc = "recv" => server' = "up"
             /\ conn'[d] = "reset" /\ thread'[d].pc \in {"none", "recv"} /\ server' = "up" =>
                  d \in faults'
             /\ conn'[d] = "reset" \/ client'[d].pc = "failed" => Excused(d)'
             /\ thread'[d].pc = "panicked" => d \in faults'
  <2>1. CASE d = c
    BY <2>1 DEF FaultInv, Excused
  <2>2. CASE d # c
    BY <2>2 DEF FaultInv, Excused
  <2>3. QED
    BY <2>1, <2>2
<1>2. QED
  BY <1>1 DEF FaultInv

\* Whatever fails has its excuse.
LEMMA FaultStep == TypeOK /\ QueueInv /\ FaultInv /\ [Next]_vars => FaultInv'
<1> SUFFICES ASSUME TypeOK, QueueInv, FaultInv, [Next]_vars PROVE FaultInv'
  OBVIOUS
<1>1. /\ client \in [Clients -> ClientState] /\ thread \in [Clients -> ThreadState]
      /\ conn \in [Clients -> {"none", "open", "closed", "reset"}]
      /\ written \in [Clients -> Nat] /\ heard \in [Clients -> Nat]
      /\ server \in {"up", "gone"} /\ queue \in Seq(Clients)
  BY DEF TypeOK
<1>2. ASSUME NEW c \in Clients, ClientStep(c) \/ ThreadStep(c) \/ Breaks(c)
      PROVE  FaultInv'
  <2>1. CASE Connect(c)
    <3>1. \A d \in Clients : client'[d].pc = "failed" => client[d].pc = "failed"
      BY <1>1, <2>1 DEF Connect, ClientState
    <3>2. \A d \in Clients : conn'[d] = "reset" => conn[d] = "reset"
      BY <1>1, <2>1 DEF Connect
    <3>3. QED
      BY <2>1, <3>1, <3>2, FaultKept DEF Connect
  <2>2. CASE ConnectFails(c)
    <3>1. UNCHANGED <<sz, server, conn, thread>> /\ faults \subseteq faults' /\ Excused(c)'
      BY <2>2 DEF ConnectFails, Excused
    <3>2. \A d \in Clients : client'[d].pc = "failed" => client[d].pc = "failed" \/ d = c
      BY <1>1, <2>2 DEF ConnectFails
    <3>3. QED
      BY <3>1, <3>2, FaultKept
  <2>3. CASE Send(c)
    <3>1. PICK l \in ClientState : client' = [client EXCEPT ![c] = l] /\ l.pc = "sample"
      BY <2>3, SendEffect
    <3>2. UNCHANGED <<sz, server, conn, thread, faults>>
      BY <2>3 DEF Send, SendCounting
    <3>3. QED
      BY <1>1, <3>1, <3>2, FaultKept
  <2>4. CASE SendFails(c)
    <3>1. UNCHANGED <<sz, server, conn, thread, faults>> /\ Excused(c)
      BY <2>4 DEF SendFails, FaultInv
    <3>2. \A d \in Clients : client'[d].pc = "failed" => client[d].pc = "failed" \/ d = c
      BY <1>1, <2>4 DEF SendFails
    <3>3. Excused(c)'
      BY <3>1 DEF Excused
    <3>4. QED
      BY <3>1, <3>2, <3>3, FaultKept
  <2>5. CASE Sample(c)
    <3>1. PICK secs \in Nat, l \in ClientState :
            /\ client' = [client EXCEPT ![c] = l]
            /\ l.pc = IF secs >= ClientDuration[c] THEN "done" ELSE "send"
            /\ conn' = IF secs >= ClientDuration[c] THEN ClosedByClient(c) ELSE conn
      BY <2>5, SampleEffect
    <3>2. UNCHANGED <<sz, server, thread, faults>>
      BY <2>5 DEF Sample
    <3>3. \A d \in Clients : conn'[d] = "reset" <=> conn[d] = "reset"
      BY <1>1, <3>1 DEF ClosedByClient
    <3>4. \A d \in Clients : client'[d].pc = "failed" => client[d].pc = "failed"
      BY <1>1, <3>1
    <3>5. QED
      BY <3>2, <3>3, <3>4, FaultKept
  <2>6. CASE Killed(c)
    <3>1. UNCHANGED <<sz, server, thread>> /\ faults' = faults \cup {c}
      BY <2>6 DEF Killed
    <3>2. \A d \in Clients : conn'[d] = "reset" <=> conn[d] = "reset"
      BY <1>1, <2>6 DEF Killed, ClosedByClient
    <3>3. \A d \in Clients : client'[d].pc = "failed" => client[d].pc = "failed" \/ d = c
      BY <1>1, <2>6 DEF Killed
    <3>4. Excused(c)'
      BY <3>1 DEF Excused
    <3>5. QED
      BY <3>1, <3>2, <3>3, <3>4, FaultKept
  <2>7. CASE Recv(c)
    <3>1. PICK l \in ThreadState : thread' = [thread EXCEPT ![c] = l] /\ l.pc = "recv"
      BY <2>7, RecvEffect
    <3>2. UNCHANGED <<sz, server, conn, client, faults>> /\ thread[c].pc = "recv"
      BY <2>7 DEF Recv, Reads
    <3>3. \A d \in Clients : thread'[d].pc = thread[d].pc
      BY <1>1, <3>1, <3>2
    <3>4. QED
      BY <3>2, <3>3, FaultKept
  <2>8. CASE RecvEof(c)
    <3>1. UNCHANGED <<sz, server, client, faults>> /\ thread[c].pc = "recv" /\ server = "up"
      BY <2>8 DEF RecvEof, FaultInv
    <3>2. \A d \in Clients \ {c} : thread'[d].pc = thread[d].pc /\ conn'[d] = conn[d]
      BY <1>1, <2>8 DEF RecvEof
    <3>3. CASE thread[c].n = 0
      <4>1. thread'[c].pc = "ended"
        BY <1>1, <2>8, <3>3 DEF RecvEof, ThreadState
      <4>2. conn'[c] = "reset" => conn[c] = "reset" \/ sz = 0
        BY <1>1, <2>8, <3>3 DEF RecvEof, AtEof, InFlight
      <4>3. QED
        BY <3>1, <3>2, <4>1, <4>2, FaultOfThread
    <3>4. CASE thread[c].n # 0
      <4>1. thread'[c].pc = "recv" /\ conn'[c] = conn[c]
        BY <1>1, <2>8, <3>1, <3>4 DEF RecvEof, ThreadState
      <4>2. conn[c] = "reset" => c \in faults
        BY <3>1 DEF FaultInv
      <4>3. QED
        BY <3>1, <3>2, <4>1, <4>2, FaultOfThread
    <3>5. QED
      BY <3>3, <3>4
  <2>9. CASE RecvFails(c)
    <3>1. /\ UNCHANGED <<sz, server, client, faults, conn>>
          /\ thread[c].pc = "recv" /\ conn[c] = "reset" /\ conn'[c] = conn[c]
      BY <2>9 DEF RecvFails
    <3>2. server = "up" /\ c \in faults
      BY <3>1 DEF FaultInv
    <3>3. /\ thread'[c].pc = "panicked"
          /\ \A d \in Clients \ {c} : thread'[d].pc = thread[d].pc /\ conn'[d] = conn[d]
      BY <1>1, <2>9 DEF RecvFails, ThreadState
    <3>4. QED
      BY <3>1, <3>2, <3>3, FaultOfThread
  <2>10. CASE Breaks(c)
    <3>1. UNCHANGED <<sz, server, thread, client>> /\ faults' = faults \cup {c}
      BY <2>10 DEF Breaks
    <3>2. \A d \in Clients : conn'[d] = "reset" <=> conn[d] = "reset" \/ d = c
      BY <1>1, <2>10 DEF Breaks
    <3>3. QED
      BY <3>1, <3>2, FaultKept
  <2>11. QED
    BY <1>2, <2>1, <2>2, <2>3, <2>4, <2>5, <2>6, <2>7, <2>8, <2>9, <2>10
       DEF ClientStep, ThreadStep
<1>3. CASE Accept
  <2>1. UNCHANGED <<sz, server, conn, client, faults>> /\ server = "up"
    BY <1>3 DEF Accept
  <2>2. PICK c \in Clients : c = Head(queue) /\ thread[c].pc = "none"
    BY <1>1, <1>3 DEF Accept, QueueInv
  <2>3. /\ thread'[c].pc = "recv" /\ conn'[c] = conn[c]
        /\ \A d \in Clients \ {c} : thread'[d].pc = thread[d].pc /\ conn'[d] = conn[d]
    BY <1>1, <1>3, <2>2 DEF Accept, ThreadState
  <2>4. conn[c] = "reset" => c \in faults
    BY <2>1, <2>2 DEF FaultInv
  <2>5. QED
    BY <2>1, <2>2, <2>3, <2>4, FaultOfThread
<1>4. CASE AcceptFails \/ AcceptAborted
  <2>1. /\ server = "up" /\ server' = "gone" /\ client' = client /\ sz' = sz
        /\ faults \subseteq faults'
    BY <1>4 DEF AcceptFails, AcceptAborted, ServerEnds
  <2>2. \A d \in Clients : /\ thread'[d].pc = IF thread[d].pc = "recv" THEN "killed" ELSE thread[d].pc
                           /\ conn[d] = "reset" => conn'[d] = "reset"
    BY <1>1, <1>4 DEF AcceptFails, AcceptAborted, ServerEnds, ThreadState
  <2>3. Server \in faults' \/ \E c \in Clients : BrokeInQueue(c)'
    <3>1. CASE AcceptFails
      BY <3>1 DEF AcceptFails
    <3>2. CASE AcceptAborted
      <4>1. PICK c \in Clients : thread[c].pc = "none" /\ conn[c] = "reset"
        BY <1>1, <3>2 DEF AcceptAborted, QueueInv
      <4>2. c \in faults
        BY <2>1, <4>1 DEF FaultInv
      <4>3. BrokeInQueue(c)'
        BY <2>1, <2>2, <4>1, <4>2 DEF BrokeInQueue
      <4>4. QED
        BY <4>1, <4>3
    <3>3. QED
      BY <1>4, <3>1, <3>2
  <2>4. ASSUME NEW d \in Clients
        PROVE  /\ thread'[d].pc # "recv"
               /\ Excused(d)'
               /\ thread'[d].pc = "panicked" => d \in faults'
    BY <2>1, <2>2 DEF FaultInv, Excused
  <2>5. QED
    BY <2>1, <2>3, <2>4 DEF FaultInv
<1>5. CASE UNCHANGED vars
  BY <1>5, FaultKept DEF vars
<1>6. QED
  BY <1>2, <1>3, <1>4, <1>5 DEF Next

------------------------------------------------------------------------------
(***************************************************************************)
(* The invariant, and the properties it implies.                           *)
(***************************************************************************)

\* Nothing is written, heard, queued or broken at the start.
LEMMA StreamInit == Init => StreamInv
<1> SUFFICES ASSUME Init PROVE StreamInv
  OBVIOUS
<1>1. TypeOK
  BY TypeInit
<1>2. /\ \A c \in Clients : /\ conn[c] = "none" /\ written[c] = 0 /\ heard[c] = 0
                            /\ client[c].pc = "idle" /\ client[c].total = 0
                            /\ client[c].interval = 0 /\ client[c].interval_sent = 0
                            /\ thread[c].pc = "none" /\ thread[c].reported = 0
                            /\ thread[c].interval_sent = 0
      /\ DOMAIN queue = {} /\ server = "up"
  BY DEF Init
<1>3. ConnInv /\ QueueInv /\ HeardInv /\ FaultInv
  BY <1>2 DEF ConnInv, QueueInv, HeardInv, FaultInv
<1>4. BooksInv
  <2>1. \A c \in Clients : ClientDuration[c] \in Nat
    BY TcpAssumption
  <2>2. Bits(0) = 0
    BY DEF Bits
  <2>3. QED
    BY <1>2, <2>1, <2>2 DEF BooksInv
<1>5. QED
  BY <1>1, <1>3, <1>4 DEF StreamInv

\* The inductive invariant holds of every set of clients, in every state.
THEOREM StreamInvariant == Spec => []StreamInv
<1>1. StreamInv /\ [Next]_vars => StreamInv'
  BY TypeStep, ConnStep, QueueStep, HeardStep, BooksStep, FaultStep DEF StreamInv
<1>2. QED
  BY StreamInit, <1>1, PTL DEF Spec

\* What a client reports at its end is what its thread heard: the client that is
\* done has closed its last interval, and the thread that ended has heard all.
THEOREM ReportsTheorem == Spec => []ReportsAgree
<1>1. StreamInv => ReportsAgree
  <2> SUFFICES ASSUME StreamInv, NEW c \in Clients,
                      client[c].pc = "done", ClientDuration[c] >= 1,
                      thread[c].pc = "ended", sz # 0
               PROVE  /\ client[c].total = Bits(heard[c])
                      /\ thread[c].reported + thread[c].interval_sent = Bits(heard[c])
    BY DEF ReportsAgree
  <2>1. heard[c] = written[c]
    BY DEF StreamInv, HeardInv
  <2>2. client[c].interval_sent = 0 /\ client[c].total \in Nat
    BY DEF StreamInv, BooksInv, TypeOK, ClientState
  <2>3. /\ client[c].total + client[c].interval_sent = Bits(written[c])
        /\ thread[c].reported + thread[c].interval_sent = Bits(heard[c])
    BY DEF StreamInv, BooksInv
  <2>4. QED
    BY <2>1, <2>2, <2>3
<1>2. QED
  BY StreamInvariant, <1>1, PTL

\* A connection with a thread of its own harms nobody else, and the server goes by
\* its own fault or by a connection that broke before it had one.
THEOREM FaultsTheorem == Spec => []FaultsStayWhereTheyHit
<1>1. StreamInv => FaultsStayWhereTheyHit
  BY DEF StreamInv, FaultInv, Excused, FaultsStayWhereTheyHit
<1>2. QED
  BY StreamInvariant, <1>1, PTL

------------------------------------------------------------------------------
(***************************************************************************)
(* What keeps the connections moving: nobody is forgotten, nothing spins.  *)
(***************************************************************************)

\* A connection stays where it is while neither the accept loop nor its thread moves
\* it, whatever becomes of its client.
LEMMA PlaceKept ==
  ASSUME NEW d \in Clients, Placed(d), UNCHANGED <<queue, server>>,
         thread'[d].pc = thread[d].pc,
         conn'[d] = conn[d] \/ conn'[d] = "reset" \/ (conn[d] = "open" /\ conn'[d] = "closed"),
         conn[d] = "closed" => written'[d] = written[d] /\ heard'[d] = heard[d]
  PROVE  Placed(d)'
BY DEF Placed

\* Every step leaves every connection that is not broken in some hands.
LEMMA PlacedStep ==
  StreamInv /\ (\A d \in Clients : Placed(d)) /\ [Next]_vars => \A d \in Clients : Placed(d)'
<1> SUFFICES ASSUME StreamInv, \A d \in Clients : Placed(d), [Next]_vars, NEW d \in Clients
             PROVE  Placed(d)'
  OBVIOUS
<1>1. /\ client \in [Clients -> ClientState] /\ thread \in [Clients -> ThreadState]
      /\ conn \in [Clients -> {"none", "open", "closed", "reset"}]
      /\ written \in [Clients -> Nat] /\ heard \in [Clients -> Nat] /\ sz \in Nat
      /\ queue \in Seq(Clients) /\ DOMAIN queue = 1 .. Len(queue) /\ Len(queue) \in Nat
      /\ \A i \in DOMAIN queue : queue[i] \in Clients
      /\ Placed(d)
  BY TcpAssumption DEF StreamInv, TypeOK
<1>2. ASSUME NEW c \in Clients, ClientStep(c) \/ ThreadStep(c) \/ Breaks(c)
      PROVE  Placed(d)'
  <2>1. CASE Connect(c)
    <3>1. /\ server = "up" /\ conn[c] = "none" /\ thread[c].pc = "none"
          /\ queue' = Append(queue, c) /\ conn' = [conn EXCEPT ![c] = "open"]
          /\ UNCHANGED <<server, thread, written, heard>>
      BY <2>1 DEF Connect, StreamInv, ConnInv
    <3>2. /\ DOMAIN queue' = 1 .. Len(queue) + 1
          /\ \A i \in DOMAIN queue : queue'[i] = queue[i] /\ i \in DOMAIN queue'
          /\ queue'[Len(queue) + 1] = c
      BY <1>1, <3>1
    <3>3. CASE d = c
      <4>1. Len(queue) + 1 \in DOMAIN queue'
        BY <1>1, <3>2
      <4>2. QED
        BY <3>1, <3>2, <3>3, <4>1 DEF Placed
    <3>4. CASE d # c
      BY <1>1, <3>1, <3>2, <3>4 DEF Placed
    <3>5. QED
      BY <3>3, <3>4
  <2>2. CASE ConnectFails(c) \/ SendFails(c)
    BY <1>1, <2>2, PlaceKept DEF ConnectFails, SendFails
  <2>3. CASE Send(c)
    <3>1. /\ client[c].pc = "send" /\ UNCHANGED <<queue, server, conn, thread, heard>>
          /\ d # c => written'[d] = written[d]
      BY <1>1, <2>3 DEF Send, SendCounting
    <3>2. conn[c] # "closed"
      BY <3>1 DEF StreamInv, ConnInv
    <3>3. QED
      BY <1>1, <3>1, <3>2, PlaceKept
  <2>4. CASE Sample(c) \/ Killed(c)
    <3>1. /\ UNCHANGED <<queue, server, thread, written, heard>>
          /\ conn' = conn \/ conn' = ClosedByClient(c)
      BY <2>4 DEF Sample, SampleAt, Killed
    <3>2. conn'[d] = conn[d] \/ (conn[d] = "open" /\ conn'[d] = "closed")
      BY <1>1, <3>1 DEF ClosedByClient
    <3>3. QED
      BY <1>1, <3>1, <3>2, PlaceKept
  <2>5. CASE Recv(c)
    <3>1. /\ thread[c].pc = "recv" /\ UNCHANGED <<queue, server, conn, written>>
          /\ d # c => heard'[d] = heard[d]
      BY <1>1, <2>5 DEF Recv, Reads
    <3>2. PICK l \in ThreadState : thread' = [thread EXCEPT ![c] = l] /\ l.pc = "recv"
      BY <2>5, RecvEffect DEF StreamInv
    <3>3. thread'[d].pc = thread[d].pc
      BY <1>1, <3>1, <3>2
    <3>4. QED
      BY <1>1, <3>1, <3>3 DEF Placed
  <2>6. CASE RecvEof(c)
    <3>1. /\ thread[c].pc = "recv" /\ UNCHANGED <<queue, server, written, heard>>
          /\ sz = 0 \/ (conn[c] = "closed" /\ heard[c] = written[c])
      BY <1>1, <2>6 DEF RecvEof, AtEof, InFlight
    <3>2. CASE d # c
      <4>1. thread'[d] = thread[d] /\ conn'[d] = conn[d]
        BY <1>1, <2>6, <3>2 DEF RecvEof
      <4>2. QED
        BY <1>1, <3>1, <4>1, PlaceKept
    <3>3. CASE d = c /\ thread[c].n = 0
      <4>1. /\ thread'[c].pc = "ended"
            /\ conn'[c] = IF conn[c] = "open" \/ InFlight(c) > 0 THEN "reset" ELSE conn[c]
        BY <1>1, <2>6, <3>3 DEF RecvEof, ThreadState
      <4>2. heard[c] <= written[c] /\ heard[c] \in Nat /\ written[c] \in Nat
        BY <1>1 DEF StreamInv, HeardInv
      <4>3. conn'[c] \in {"open", "closed"} => conn'[c] = "closed" /\ heard[c] = written[c]
        BY <4>1, <4>2 DEF InFlight
      <4>4. QED
        BY <3>1, <3>3, <4>1, <4>3 DEF Placed
    <3>4. CASE d = c /\ thread[c].n # 0
      <4>1. thread'[c].pc = "recv" /\ conn' = conn
        BY <1>1, <2>6, <3>1, <3>4 DEF RecvEof, ThreadState
      <4>2. QED
        BY <1>1, <3>1, <3>4, <4>1, PlaceKept
    <3>5. QED
      BY <3>2, <3>3, <3>4
  <2>7. CASE RecvFails(c)
    <3>1. /\ conn[c] = "reset" /\ UNCHANGED <<queue, server, conn, written, heard>>
          /\ d # c => thread'[d] = thread[d]
      BY <1>1, <2>7 DEF RecvFails
    <3>2. QED
      BY <1>1, <3>1 DEF Placed
  <2>8. CASE Breaks(c)
    <3>1. /\ UNCHANGED <<queue, server, thread, written, heard>>
          /\ conn'[d] = conn[d] \/ conn'[d] = "reset"
      BY <1>1, <2>8 DEF Breaks
    <3>2. QED
      BY <1>1, <3>1, PlaceKept
  <2>9. QED
    BY <1>2, <2>1, <2>2, <2>3, <2>4, <2>5, <2>6, <2>7, <2>8 DEF ClientStep, ThreadStep
<1>3. CASE Accept
  <2>1. /\ server = "up" /\ server' = server /\ UNCHANGED <<conn, written, heard>>
        /\ queue # <<>> /\ queue' = Tail(queue)
        /\ thread' = [thread EXCEPT ![queue[1]].pc = "recv"]
    BY <1>1, <1>3 DEF Accept
  <2>2. /\ 1 \in DOMAIN queue /\ queue[1] \in Clients
        /\ \A i \in DOMAIN queue : i = 1 \/ (i - 1 \in DOMAIN queue' /\ queue'[i - 1] = queue[i])
    BY <1>1, <2>1
  <2>3. CASE d = queue[1]
    <3>1. thread'[d].pc = "recv"
      BY <1>1, <2>1, <2>2, <2>3 DEF ThreadState
    <3>2. thread[d].pc = "none"
      BY <2>2, <2>3 DEF StreamInv, QueueInv
    <3>3. QED
      BY <1>1, <2>1, <3>1, <3>2 DEF Placed
  <2>4. CASE d # queue[1]
    <3>1. thread'[d] = thread[d]
      BY <1>1, <2>1, <2>2, <2>4
    <3>2. ASSUME NEW i \in DOMAIN queue, queue[i] = d
          PROVE  \E j \in DOMAIN queue' : queue'[j] = d
      BY <2>2, <2>4, <3>2
    <3>3. QED
      BY <1>1, <2>1, <3>1, <3>2 DEF Placed
  <2>5. QED
    BY <2>3, <2>4
<1>4. CASE AcceptFails \/ AcceptAborted
  <2>1. /\ conn'[d] = IF conn[d] \in {"open", "closed"} /\ thread[d].pc # "ended"
                      THEN "reset" ELSE conn[d]
        /\ UNCHANGED <<written, heard>>
    BY <1>4 DEF AcceptFails, AcceptAborted, ServerEnds
  <2>2. thread[d].pc = "ended" => thread'[d].pc = "ended"
    BY <1>4 DEF AcceptFails, AcceptAborted, ServerEnds
  <2>3. QED
    BY <1>1, <2>1, <2>2 DEF Placed
<1>5. CASE UNCHANGED vars
  BY <1>1, <1>5, PlaceKept DEF vars
<1>6. QED
  BY <1>2, <1>3, <1>4, <1>5 DEF Next

\* Between the kernel's queue, the accept loop and the threads of run_server no
\* connection is lost: for any number of clients, sizes and ends of either side.
THEOREM NobodyTheorem == Spec => []NobodyIsForgotten
<1>1. Init => NobodyIsForgotten
  BY DEF Init, Placed, NobodyIsForgotten
<1>2. StreamInv /\ NobodyIsForgotten /\ [Next]_vars => NobodyIsForgotten'
  BY PlacedStep DEF NobodyIsForgotten
<1>3. QED
  BY <1>1, <1>2, StreamInvariant, PTL DEF Spec

\* A thread of run_server cannot spin on a closed connection: whatever the sizes of
\* the reads and wherever they step over the buffer size, each of its steps lessens
\* what it still has to do, and nothing else adds to it.
THEOREM DrainTheorem == Spec => ClosedStreamsDrain
<1>1. StreamInv /\ [Next]_vars =>
        [\A c \in Clients : conn[c] = "closed" /\ thread[c].pc = "recv" =>
           /\ Remaining(c)' <= Remaining(c)
           /\ ThreadStep(c) => thread'[c].pc = "ended" \/ Remaining(c)' < Remaining(c)]_vars
  <2> SUFFICES ASSUME StreamInv, Next, NEW d \in Clients, conn[d] = "closed",
                      thread[d].pc = "recv"
               PROVE  /\ Remaining(d)' <= Remaining(d)
                      /\ ThreadStep(d) => thread'[d].pc = "ended" \/ Remaining(d)' < Remaining(d)
    OBVIOUS
  <2>1. /\ client \in [Clients -> ClientState] /\ thread \in [Clients -> ThreadState]
        /\ written \in [Clients -> Nat] /\ heard \in [Clients -> Nat] /\ sz \in Nat
        /\ conn \in [Clients -> {"none", "open", "closed", "reset"}]
        /\ heard[d] <= written[d] /\ heard[d] \in Nat /\ written[d] \in Nat
    BY TcpAssumption DEF StreamInv, TypeOK, HeardInv
  <2>2. CASE ThreadStep(d)
    <3>1. CASE Recv(d)
      <4>1. PICK r \in 1 .. InFlight(d), l \in ThreadState :
              heard' = [heard EXCEPT ![d] = @ + r] /\ thread' = [thread EXCEPT ![d] = l]
        BY <3>1, RecvEffect DEF StreamInv
      <4>2. heard'[d] = heard[d] + r /\ written'[d] = written[d]
        BY <2>1, <3>1, <4>1 DEF Recv, Reads
      <4>3. r \in Nat /\ r >= 1
        BY <2>1, <4>1 DEF InFlight
      <4>4. InFlight(d)' = InFlight(d) - r /\ InFlight(d) \in Nat
        BY <2>1, <4>2, <4>3 DEF InFlight
      <4> HIDE DEF InFlight
      <4>5. Remaining(d)' < Remaining(d)
        BY <4>3, <4>4 DEF Remaining
      <4>6. Remaining(d)' \in Int /\ Remaining(d) \in Int
        BY <4>3, <4>4 DEF Remaining
      <4>7. QED
        BY <4>5, <4>6
    <3>2. CASE RecvEof(d)
      <4>1. UNCHANGED <<written, heard>> /\ InFlight(d)' = InFlight(d) /\ InFlight(d) \in Nat
        BY <2>1, <3>2 DEF RecvEof, InFlight
      <4> HIDE DEF InFlight
      <4>2. CASE thread[d].n = 0
        <5>1. thread'[d].pc = "ended" /\ thread'[d].n = thread[d].n
          BY <2>1, <3>2, <4>2 DEF RecvEof, ThreadState
        <5>2. QED
          BY <4>1, <4>2, <5>1 DEF Remaining
      <4>3. CASE thread[d].n # 0
        <5>1. thread'[d].n = 0
          BY <2>1, <3>2, <4>3 DEF RecvEof, ThreadState
        <5>2. QED
          BY <4>1, <4>3, <5>1 DEF Remaining
      <4>4. QED
        BY <4>2, <4>3
    <3>3. CASE RecvFails(d)
      BY <3>3 DEF RecvFails
    <3>4. QED
      BY <2>2, <3>1, <3>2, <3>3 DEF ThreadStep
  <2>3. CASE ~ThreadStep(d)
    <3>1. /\ thread'[d].n = thread[d].n /\ written'[d] = written[d] /\ heard'[d] = heard[d]
      <4>1. ASSUME NEW c \in Clients, ClientStep(c) \/ ThreadStep(c) \/ Breaks(c)
            PROVE  /\ thread'[d].n = thread[d].n
                   /\ written'[d] = written[d] /\ heard'[d] = heard[d]
        <5>1. CASE Send(c)
          <6>1. client[c].pc = "send" /\ UNCHANGED <<thread, heard>>
            BY <5>1 DEF Send, SendCounting
          <6>2. c # d
            BY <6>1 DEF StreamInv, ConnInv
          <6>3. QED
            BY <2>1, <5>1, <6>1, <6>2 DEF Send, SendCounting
        <5>2. CASE ThreadStep(c)
          <6>1. c # d
            BY <2>3, <5>2
          <6>2. QED
            BY <2>1, <5>2, <6>1 DEF ThreadStep, Recv, Reads, RecvEof, RecvFails
        <5>3. CASE Connect(c) \/ ConnectFails(c) \/ SendFails(c) \/ Sample(c) \/ Killed(c) \/ Breaks(c)
          BY <5>3 DEF Connect, ConnectFails, SendFails, Sample, Killed, Breaks
        <5>4. QED
          BY <4>1, <5>1, <5>2, <5>3 DEF ClientStep
      <4>2. CASE Accept
        <5>1. Head(queue) \in Clients /\ UNCHANGED <<written, heard>>
          BY <4>2 DEF Accept, StreamInv, TypeOK
        <5>2. QED
          BY <2>1, <4>2, <5>1 DEF Accept, ThreadState
      <4>3. CASE AcceptFails \/ AcceptAborted
        BY <2>1, <4>3 DEF AcceptFails, AcceptAborted, ServerEnds, ThreadState
      <4>4. QED
        BY <4>1, <4>2, <4>3 DEF Next
    <3>2. Remaining(d)' = Remaining(d) /\ Remaining(d) \in Int
      BY <2>1, <3>1 DEF Remaining, InFlight
    <3>3. QED
      BY <2>3, <3>2
  <2>4. QED
    BY <2>2, <2>3
<1>2. QED
  BY <1>1, StreamInvariant, PTL DEF Spec, ClosedStreamsDrain

------------------------------------------------------------------------------
(***************************************************************************)
(* TcpStream implements Streams.                                           *)
(***************************************************************************)

\* The fate of one connection, and of all of them, as the refinement maps them.
FateOf(c) ==
  IF thread[c].pc = "ended" THEN IF sz = 0 THEN "broken" ELSE "whole"
  ELSE IF conn[c] = "reset" THEN "broken"
  ELSE IF conn[c] = "closed" THEN "closed"
  ELSE "open"

Fate == [c \in Clients |-> FateOf(c)]

\* A step that moves no byte and changes the fate of no connection stutters.
LEMMA StreamStutter ==
  ASSUME UNCHANGED <<written, heard>>, \A d \in Clients : FateOf(d)' = FateOf(d)
  PROVE  UNCHANGED <<written, heard, Fate>>
BY DEF Fate

\* The steps of one connection are steps of its stream, or change nothing there.
LEMMA ConnectionRefines ==
  ASSUME StreamInv, NEW c \in Clients, ClientStep(c) \/ ThreadStep(c) \/ Breaks(c)
  PROVE  Whole!Next \/ UNCHANGED <<written, heard, Fate>>
<1>1. /\ client \in [Clients -> ClientState] /\ thread \in [Clients -> ThreadState]
      /\ conn \in [Clients -> {"none", "open", "closed", "reset"}]
      /\ written \in [Clients -> Nat] /\ heard \in [Clients -> Nat] /\ sz \in Nat
      /\ thread[c] \in ThreadState
  BY TcpAssumption DEF StreamInv, TypeOK
<1>2. /\ client[c].pc \in {"send", "sample"} => conn[c] \in {"open", "reset"}
      /\ thread[c].pc = "ended" /\ sz # 0 => conn[c] = "closed" /\ heard[c] = written[c]
      /\ conn[c] = "none" => thread[c].pc = "none"
      /\ client[c].pc = "idle" => conn[c] = "none"
  BY DEF StreamInv, ConnInv, HeardInv
<1>3. ASSUME UNCHANGED <<sz, thread>>,
             \A d \in Clients : d # c => conn'[d] = conn[d]
      PROVE  \A d \in Clients : d # c => FateOf(d)' = FateOf(d)
  BY <1>3 DEF FateOf
<1>4. CASE Connect(c)
  <2>1. /\ UNCHANGED <<sz, thread, written, heard>> /\ client[c].pc = "idle"
        /\ conn' = [conn EXCEPT ![c] = "open"]
    BY <1>4 DEF Connect
  <2>2. \A d \in Clients : FateOf(d)' = FateOf(d)
    BY <1>1, <1>2, <2>1 DEF FateOf
  <2>3. QED
    BY <2>1, <2>2, StreamStutter
<1>5. CASE ConnectFails(c) \/ SendFails(c)
  <2>1. UNCHANGED <<sz, conn, thread, written, heard>>
    BY <1>5 DEF ConnectFails, SendFails
  <2>2. QED
    BY <2>1, StreamStutter DEF FateOf
<1>6. CASE Send(c)
  <2>1. PICK k \in Nat : written' = [written EXCEPT ![c] = @ + k]
    BY <1>6, SendEffect DEF StreamInv
  <2>2. client[c].pc = "send" /\ UNCHANGED <<sz, conn, thread, heard>>
    BY <1>6 DEF Send, SendCounting
  <2>3. Fate' = Fate /\ Fate[c] \in {"open", "broken"}
    BY <1>2, <2>2 DEF Fate, FateOf
  <2>4. /\ written' = [written EXCEPT ![c] = written'[c]]
        /\ written'[c] \in Nat /\ written'[c] >= written[c]
    BY <1>1, <2>1
  <2>5. Whole!Write(c)
    BY <2>2, <2>3, <2>4 DEF Whole!Write, Fate, FateOf
  <2>6. QED
    BY <2>5 DEF Whole!Next
<1>7. CASE Sample(c) \/ Killed(c)
  <2>1. /\ UNCHANGED <<sz, thread, written, heard>>
        /\ conn' = conn \/ conn' = ClosedByClient(c)
    BY <1>7 DEF Sample, SampleAt, Killed
  <2>2. CASE conn[c] = "open" /\ conn' = ClosedByClient(c) /\ thread[c].pc # "ended"
    <3>1. Fate[c] = "open" /\ Fate' = [Fate EXCEPT ![c] = "closed"]
      BY <1>1, <2>1, <2>2 DEF Fate, FateOf, ClosedByClient
    <3>2. Whole!Close(c)
      BY <2>1, <3>1 DEF Whole!Close, Fate, FateOf
    <3>3. QED
      BY <3>2 DEF Whole!Next
  <2>3. CASE ~(conn[c] = "open" /\ conn' = ClosedByClient(c) /\ thread[c].pc # "ended")
    <3>1. \A d \in Clients : FateOf(d)' = FateOf(d)
      BY <1>1, <1>2, <2>1, <2>3 DEF FateOf, ClosedByClient
    <3>2. QED
      BY <2>1, <3>1, StreamStutter
  <2>4. QED
    BY <2>2, <2>3
<1>8. CASE Recv(c)
  <2>1. PICK r \in 1 .. InFlight(c), l \in ThreadState :
          /\ heard' = [heard EXCEPT ![c] = @ + r]
          /\ thread' = [thread EXCEPT ![c] = l] /\ l.pc = "recv"
    BY <1>8, RecvEffect DEF StreamInv
  <2>2. thread[c].pc = "recv" /\ UNCHANGED <<sz, conn, written>>
    BY <1>8 DEF Recv, Reads
  <2>3. Fate' = Fate /\ Fate[c] # "whole"
    BY <1>1, <2>1, <2>2 DEF Fate, FateOf
  <2>4. Whole!Hear(c)
    BY <2>1, <2>2, <2>3 DEF Whole!Hear, Fate, FateOf, InFlight
  <2>5. QED
    BY <2>4 DEF Whole!Next
<1>9. CASE RecvEof(c)
  <2>1. thread[c].pc = "recv" /\ UNCHANGED <<sz, written, heard>>
    BY <1>9 DEF RecvEof
  <2>2. CASE thread[c].n # 0
    <3>1. thread' = [thread EXCEPT ![c].n = 0] /\ UNCHANGED conn
      BY <1>9, <2>2 DEF RecvEof
    <3>2. [thread[c] EXCEPT !.n = 0].pc = "recv"
      BY <1>1, <2>1 DEF ThreadState
    <3>3. \A d \in Clients : thread'[d].pc = thread[d].pc
      BY <1>1, <2>1, <3>1, <3>2
    <3>4. QED
      BY <2>1, <3>1, <3>3, StreamStutter DEF FateOf
  <2>3. CASE thread[c].n = 0
    <3>1. /\ thread' = [thread EXCEPT ![c].pc = "ended"]
          /\ conn' = [conn EXCEPT ![c] = IF @ = "open" \/ InFlight(c) > 0 THEN "reset" ELSE @]
      BY <1>9, <2>3 DEF RecvEof
    <3>2. [thread[c] EXCEPT !.pc = "ended"].pc = "ended"
      BY <1>1 DEF ThreadState
    <3>3. thread'[c].pc = "ended" /\ \A d \in Clients : d # c => FateOf(d)' = FateOf(d)
      BY <1>1, <2>1, <3>1, <3>2 DEF FateOf
    <3>4. CASE sz = 0
      <4>1. FateOf(c)' = "broken" /\ FateOf(c) # "whole"
        BY <2>1, <3>3, <3>4 DEF FateOf
      <4>2. Fate' = [d \in Clients |-> IF d \in {c} THEN "broken" ELSE Fate[d]]
        BY <3>3, <4>1 DEF Fate
      <4>3. {c} \in SUBSET {d \in Clients : Fate[d] # "whole"}
        BY <4>1 DEF Fate
      <4>4. Whole!Break
        BY <2>1, <4>2, <4>3 DEF Whole!Break, Fate, FateOf
      <4>5. QED
        BY <4>4 DEF Whole!Next
    <3>5. CASE sz # 0
      <4>1. conn[c] = "closed" /\ heard[c] = written[c]
        BY <1>1, <1>9, <3>5 DEF RecvEof, AtEof, InFlight
      <4>2. FateOf(c) = "closed" /\ FateOf(c)' = "whole"
        BY <2>1, <3>3, <3>5, <4>1 DEF FateOf
      <4>3. Fate[c] = "closed" /\ Fate' = [Fate EXCEPT ![c] = "whole"]
        BY <3>3, <4>2 DEF Fate
      <4>4. Whole!End(c)
        BY <2>1, <4>1, <4>3 DEF Whole!End, Fate, FateOf
      <4>5. QED
        BY <4>4 DEF Whole!Next
    <3>6. QED
      BY <3>4, <3>5
  <2>4. QED
    BY <2>2, <2>3
<1>10. CASE RecvFails(c)
  <2>1. /\ thread[c].pc = "recv" /\ conn[c] = "reset"
        /\ thread' = [thread EXCEPT ![c].pc = "panicked"]
        /\ UNCHANGED <<sz, conn, written, heard>>
    BY <1>10 DEF RecvFails
  <2>2. [thread[c] EXCEPT !.pc = "panicked"].pc = "panicked"
    BY <1>1 DEF ThreadState
  <2>3. \A d \in Clients : FateOf(d)' = FateOf(d)
    BY <1>1, <2>1, <2>2 DEF FateOf
  <2>4. QED
    BY <2>1, <2>3, StreamStutter
<1>11. CASE Breaks(c)
  <2>1. /\ thread[c].pc # "ended" /\ conn' = [conn EXCEPT ![c] = "reset"]
        /\ UNCHANGED <<sz, thread, written, heard>>
    BY <1>11 DEF Breaks
  <2>2. FateOf(c)' = "broken" /\ FateOf(c) # "whole"
    BY <1>1, <2>1 DEF FateOf
  <2>3. \A d \in Clients : d # c => FateOf(d)' = FateOf(d)
    BY <1>1, <1>3, <2>1
  <2>4. Fate' = [d \in Clients |-> IF d \in {c} THEN "broken" ELSE Fate[d]]
    BY <2>2, <2>3 DEF Fate
  <2>5. {c} \in SUBSET {d \in Clients : Fate[d] # "whole"}
    BY <2>2 DEF Fate
  <2>6. Whole!Break
    BY <2>1, <2>4, <2>5 DEF Whole!Break, Fate, FateOf
  <2>7. QED
    BY <2>6 DEF Whole!Next
<1>12. QED
  BY <1>4, <1>5, <1>6, <1>7, <1>8, <1>9, <1>10, <1>11 DEF ClientStep, ThreadStep

\* The server's accept loop serves a connection without changing its stream, and
\* takes with it the streams that have not ended.
LEMMA StreamRefinesStep ==
  StreamInv /\ [Next]_vars => [Whole!Next]_<<written, heard, Fate>>
<1> SUFFICES ASSUME StreamInv, [Next]_vars
             PROVE  Whole!Next \/ UNCHANGED <<written, heard, Fate>>
  OBVIOUS
<1>1. CASE \E c \in Clients : ClientStep(c) \/ ThreadStep(c) \/ Breaks(c)
  BY <1>1, ConnectionRefines
<1>2. CASE Accept
  <2>1. /\ queue # <<>> /\ UNCHANGED <<sz, conn, written, heard>>
        /\ thread' = [thread EXCEPT ![Head(queue)].pc = "recv"]
        /\ thread \in [Clients -> ThreadState] /\ queue \in Seq(Clients)
    BY <1>2 DEF Accept, StreamInv, TypeOK
  <2>2. Head(queue) \in Clients /\ Head(queue) = queue[1] /\ 1 \in DOMAIN queue
    BY <2>1
  <2>3. thread[Head(queue)].pc = "none" /\ thread[Head(queue)] \in ThreadState
    BY <2>1, <2>2 DEF StreamInv, QueueInv
  <2>4. [thread[Head(queue)] EXCEPT !.pc = "recv"].pc = "recv"
    BY <2>3 DEF ThreadState
  <2>5. \A d \in Clients : thread'[d].pc = "ended" <=> thread[d].pc = "ended"
    BY <2>1, <2>2, <2>3, <2>4
  <2>6. \A d \in Clients : FateOf(d)' = FateOf(d)
    BY <2>1, <2>5 DEF FateOf
  <2>7. QED
    BY <2>1, <2>6, StreamStutter
<1>3. CASE AcceptFails \/ AcceptAborted
  <2> DEFINE S == {d \in Clients : conn[d] \in {"open", "closed"} /\ thread[d].pc # "ended"}
  <2>1. /\ UNCHANGED <<sz, written, heard>>
        /\ thread \in [Clients -> ThreadState]
        /\ thread' = [c \in Clients |->
             IF thread[c].pc = "recv" THEN [thread[c] EXCEPT !.pc = "killed"] ELSE thread[c]]
        /\ conn' = [c \in Clients |->
             IF conn[c] \in {"open", "closed"} /\ thread[c].pc # "ended" THEN "reset" ELSE conn[c]]
    BY <1>3 DEF AcceptFails, AcceptAborted, ServerEnds, StreamInv, TypeOK
  <2>2. \A d \in Clients : [thread[d] EXCEPT !.pc = "killed"].pc = "killed"
    BY <2>1 DEF ThreadState
  <2>3. \A d \in Clients : thread'[d].pc = "ended" <=> thread[d].pc = "ended"
    BY <2>1, <2>2
  <2>4. \A d \in Clients : FateOf(d)' = IF d \in S THEN "broken" ELSE FateOf(d)
    BY <2>1, <2>3 DEF FateOf
  <2>5. S \in SUBSET {d \in Clients : Fate[d] # "whole"}
    BY DEF Fate, FateOf
  <2>6. Fate' = [d \in Clients |-> IF d \in S THEN "broken" ELSE Fate[d]]
    BY <2>4 DEF Fate
  <2>7. Whole!Break
    BY <2>1, <2>5, <2>6 DEF Whole!Break, Fate, FateOf
  <2>8. QED
    BY <2>7 DEF Whole!Next
<1>4. CASE UNCHANGED vars
  BY <1>4, StreamStutter DEF vars, FateOf
<1>5. QED
  BY <1>1, <1>2, <1>3, <1>4 DEF Next

\* Every connection that the server serves to its end was heard whole: TcpStream
\* implements Streams.
THEOREM StreamsTheorem == Spec => StreamsAreWholeOrBroken
<1>1. Init => Whole!Init
  BY DEF Init, Whole!Init
<1>2. StreamInv /\ [Next]_vars
        => [Whole!Next]_<<written, heard,
             [c \in Clients |->
                IF thread[c].pc = "ended" THEN IF sz = 0 THEN "broken" ELSE "whole"
                ELSE IF conn[c] = "reset" THEN "broken"
                ELSE IF conn[c] = "closed" THEN "closed"
                ELSE "open"]>>
  BY StreamRefinesStep DEF Fate, FateOf
<1>3. QED
  BY StreamInvariant, <1>1, <1>2, PTL DEF Spec, StreamsAreWholeOrBroken, Whole!Spec

==============================================================================
