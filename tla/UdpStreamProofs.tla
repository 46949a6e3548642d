--------------------------- MODULE UdpStreamProofs ---------------------------
(***************************************************************************)
(* Proofs about UdpStream for every set of senders, every buffer size,     *)
(* every duration, every width of the sequence counter and every bound.    *)
(***************************************************************************)
EXTENDS UdpStream, FiniteSetTheorems, TLAPS

\* The successor of a sequence number is one, and is the plain successor
\* everywhere but at the top of the range.
LEMMA SuccType ==
  ASSUME NEW s \in SeqNo
  PROVE  /\ WrappingSucc(s) \in SeqNo
         /\ s # SeqMax => WrappingSucc(s) = s + 1
<1>1. SeqMod \in Nat /\ SeqMod > 1
  BY WireAssumption
<1>2. CASE s + 1 < SeqMod
  <2>1. (s + 1) % SeqMod = s + 1
    BY <1>1, <1>2 DEF SeqNo, SeqMax
  <2>2. QED
    BY <1>1, <1>2, <2>1 DEF SeqNo, SeqMax, WrappingSucc
<1>3. CASE s + 1 = SeqMod
  <2>1. (s + 1) % SeqMod = 0
    BY <1>1, <1>3 DEF SeqNo, SeqMax
  <2>2. QED
    BY <1>1, <1>3, <2>1 DEF SeqNo, SeqMax, WrappingSucc
<1>4. QED
  BY <1>1, <1>2, <1>3 DEF SeqNo, SeqMax

\* Whole seconds of a span of ticks are an integer, a natural number when the
\* span is one.
LEMMA SecsType ==
  ASSUME NEW t \in Int
  PROVE  /\ AsSecs(t) \in Int
         /\ t \in Nat => AsSecs(t) \in Nat
BY DEF AsSecs, TicksPerSecond

------------------------------------------------------------------------------
(***************************************************************************)
(* Type correctness, one lemma for each component.                         *)
(***************************************************************************)

\* Every step of a client keeps the types of its own locals.
LEMMA ClientType ==
  ASSUME TypeOK, NEW c \in Senders, ClientStep(c)
  PROVE  WireTypeOK' /\ ClientTypeOK'
<1> USE DEF TypeOK, WireTypeOK, ClientTypeOK
<1>1. client[c] \in ClientState
  OBVIOUS
<1>2. now \in 0 .. MaxTime /\ MaxTime \in Nat
  BY WireAssumption
<1>3. CASE Start(c)
  BY <1>1, <1>2, <1>3 DEF Start, ClientState
<1>4. CASE PutSeqPanic(c)
  BY <1>1, <1>4 DEF PutSeqPanic, ClientState
<1>5. CASE Send(c)
  <2>1. client[c].seq \in SeqNo /\ WrappingSucc(client[c].seq) \in SeqNo
    BY <1>1, SuccType DEF ClientState
  <2>2. Bits(ClientBuf[c]) \in Nat
    BY WireAssumption DEF Bits
  <2>3. WireTypeOK'
    BY <1>5, <2>1 DEF Send, SendAs, Datagram
  <2>4. ClientTypeOK'
    BY <1>1, <1>5, <2>1, <2>2 DEF Send, SendAs, ClientState
  <2>5. QED
    BY <2>3, <2>4
<1>6. CASE SendError(c)
  BY <1>1, <1>6 DEF SendError, ClientState
<1>7. CASE Sample(c)
  <2> DEFINE secs == ClientSecs(c)
             k == CloseInterval(client[c], secs)
  <2>1. secs \in Int
    BY <1>1, <1>2, SecsType DEF ClientSecs, ClientState
  <2>2. k \in ClientState
    <3>1. CASE secs > client[c].interval
      <4> HIDE DEF secs
      <4>1. secs \in Nat
        BY <1>1, <2>1, <3>1 DEF ClientState
      <4>2. client[c].total + client[c].interval_sent \in Nat
        BY <1>1 DEF ClientState
      <4> DEFINE k1 == [client[c] EXCEPT !.interval = secs]
                 k2 == [k1 EXCEPT !.total = client[c].total + client[c].interval_sent]
                 k3 == [k2 EXCEPT !.count = client[c].count + 1]
                 k4 == [k3 EXCEPT !.interval_sent = 0]
      <4>3. k1 \in ClientState
        BY <1>1, <4>1 DEF ClientState
      <4>4. k2 \in ClientState
        BY <4>2, <4>3 DEF ClientState
      <4>5. k3 \in ClientState
        <5> HIDE DEF k2
        <5>1. client[c].count + 1 \in Nat
          BY <1>1 DEF ClientState
        <5>2. QED
          BY <4>4, <5>1 DEF ClientState
      <4>6. k4 \in ClientState
        <5> HIDE DEF k3
        <5>1. QED
          BY <4>5 DEF ClientState
      <4>7. k = k4
        BY <3>1 DEF CloseInterval
      <4>8. QED
        BY <4>6, <4>7
    <3>2. CASE ~(secs > client[c].interval)
      BY <1>1, <3>2 DEF CloseInterval
    <3>3. QED
      BY <3>1, <3>2
  <2>3. [k EXCEPT !.pc = IF secs >= ClientDuration[c] THEN "done" ELSE "send"] \in ClientState
    BY <2>2 DEF ClientState
  <2>4. WireTypeOK'
    BY <1>7 DEF Sample
  <2>5. ClientTypeOK'
    <3> HIDE DEF k, secs
    <3>1. client' = [client EXCEPT ![c] =
             [k EXCEPT !.pc = IF secs >= ClientDuration[c] THEN "done" ELSE "send"]]
      BY <1>7 DEF Sample, k, secs
    <3>2. QED
      BY <2>3, <3>1
  <2>6. QED
    BY <2>4, <2>5
<1>8. QED
  BY <1>3, <1>4, <1>5, <1>6, <1>7 DEF ClientStep

\* The accounting of a sequence number keeps the counters in their width.
LEMMA TrackType ==
  ASSUME ServerTypeOK, NEW s \in SeqNo, Track(s)
  PROVE  /\ loss_count' \in SeqNo
         /\ out_of_order_count' \in Nat
         /\ next_expected' \in SeqNo
         /\ first' \in SeqNo
         /\ got' \in SUBSET SeqNo
<1> USE DEF ServerTypeOK
<1>1. Expected(s) \in SeqNo
  BY DEF Expected
<1>2. WrappingSucc(s) \in SeqNo
  BY SuccType
<1>3. loss_count' \in SeqNo
  <2>1. ASSUME s > Expected(s)
        PROVE  (loss_count + (s - Expected(s))) % SeqMod \in SeqNo
    BY <1>1, <2>1, WireAssumption DEF SeqNo, SeqMax
  <2>2. QED
    BY <2>1 DEF Track, BookLoss
<1>4. out_of_order_count' \in Nat
  BY DEF Track, BookLate
<1>5. next_expected' \in SeqNo
  BY <1>1, <1>2 DEF Track, RaiseMark, MaxOf
<1>6. QED
  BY <1>3, <1>4, <1>5 DEF Track

\* Closing an interval of the server keeps the types of its locals.
LEMMA MeterType ==
  ASSUME ServerTypeOK, now \in Nat, NEW n \in Nat, Meter(n)
  PROVE  /\ interval' \in Nat
         /\ interval_sent' \in Nat
         /\ count' \in Nat
         /\ total_bits' \in Nat
         /\ rx_count' = rx_count + 1
         /\ rx_count' \in Nat
<1>1. AsSecs(now) \in Nat /\ Bits(n) \in Nat
  BY SecsType DEF Bits
<1>2. /\ interval \in Nat /\ interval_sent \in Nat /\ count \in Nat
      /\ total_bits \in Nat /\ rx_count \in Nat
  BY DEF ServerTypeOK
<1>3. total_bits' \in Nat /\ rx_count' = rx_count + 1 /\ rx_count' \in Nat
  BY <1>1, <1>2 DEF Meter
<1>4. CASE AsSecs(now) > interval
  BY <1>1, <1>2, <1>3, <1>4 DEF Meter
<1>5. CASE ~(AsSecs(now) > interval)
  BY <1>1, <1>2, <1>3, <1>5 DEF Meter
<1>6. QED
  BY <1>4, <1>5

\* The number of bytes a read returns.
LEMMA ReadLength ==
  ASSUME TypeOK, NEW m \in wire
  PROVE  /\ m \in Datagram
         /\ MinOf(ClientBuf[m.src], ServerBuf) \in Nat
BY WireAssumption, ServerAssumption DEF TypeOK, WireTypeOK, Datagram, MinOf

\* Every step of the server keeps the types of its locals and of its history.
LEMMA ServerType ==
  ASSUME TypeOK, ServerStep
  PROVE  WireTypeOK' /\ ServerTypeOK'
<1> USE DEF TypeOK, WireTypeOK
<1>1. CASE Expire
  BY <1>1 DEF Expire, ServerTypeOK, meterVars, trackVars
<1>2. CASE BeginRead
  BY <1>2 DEF BeginRead, ServerTypeOK, meterVars, trackVars
<1>3. CASE ReadTimeout
  BY <1>3 DEF ReadTimeout, ServerTypeOK, meterVars, trackVars
<1>4. CASE ReadError
  BY <1>4 DEF ReadError, ServerTypeOK, meterVars, trackVars
<1>5. ASSUME NEW m \in wire, Receive(m)
      PROVE  WireTypeOK' /\ ServerTypeOK'
  <2> DEFINE n == MinOf(ClientBuf[m.src], ServerBuf)
  <2>1. m.seq \in SeqNo /\ n \in Nat /\ now \in Nat
    BY ReadLength, WireAssumption DEF Datagram
  <2>2. Meter(n) /\ spc' = "check" /\ UNCHANGED <<readAt, now, wire>>
    BY <1>5 DEF Receive
  <2>3. /\ interval' \in Nat /\ interval_sent' \in Nat /\ count' \in Nat
        /\ total_bits' \in Nat /\ rx_count' \in Nat
    <3> HIDE DEF n
    <3>1. QED
      BY <2>1, <2>2, MeterType
  <2>4. /\ loss_count' \in SeqNo /\ out_of_order_count' \in Nat
        /\ next_expected' \in SeqNo \cup {None} /\ first' \in SeqNo \cup {None}
        /\ got' \in SUBSET SeqNo
    <3>1. CASE Track(m.seq)
      BY <2>1, <3>1, TrackType
    <3>2. CASE UNCHANGED trackVars
      BY <3>2 DEF trackVars, ServerTypeOK
    <3>3. QED
      BY <1>5, <3>1, <3>2 DEF Receive
  <2>5. QED
    BY <2>2, <2>3, <2>4 DEF ServerTypeOK
<1>6. QED
  BY <1>1, <1>2, <1>3, <1>4, <1>5 DEF ServerStep

\* Clients and server start within their types.
LEMMA InitType == Init => TypeOK
<1>1. 0 \in SeqNo /\ MaxTime \in Nat
  BY WireAssumption DEF SeqNo, SeqMax
<1>2. Init => WireTypeOK /\ ClientTypeOK
  BY <1>1 DEF Init, WireInit, ClientInit, WireTypeOK, ClientTypeOK, ClientState
<1>3. Init => ServerTypeOK
  BY <1>1 DEF Init, ServerInit, ServerTypeOK
<1>4. QED
  BY <1>2, <1>3 DEF TypeOK

\* Every step of clients, server and clock keeps the types.
LEMMA NextType == TypeOK /\ [Next]_vars => TypeOK'
<1> SUFFICES ASSUME TypeOK, [Next]_vars
             PROVE  TypeOK'
  OBVIOUS
<1>1. CASE Tick /\ UNCHANGED <<client, serverVars>>
  BY <1>1, WireAssumption DEF Tick, TypeOK, WireTypeOK, ClientTypeOK, ServerTypeOK,
     serverVars, meterVars, trackVars
<1>2. ASSUME NEW c \in Senders, ClientStep(c), UNCHANGED serverVars
      PROVE  TypeOK'
  <2>1. WireTypeOK' /\ ClientTypeOK'
    BY <1>2, ClientType
  <2>2. ServerTypeOK'
    BY <1>2 DEF TypeOK, ServerTypeOK, serverVars, meterVars, trackVars
  <2>3. QED
    BY <2>1, <2>2 DEF TypeOK
<1>3. CASE ServerStep /\ UNCHANGED client
  BY <1>3, ServerType DEF TypeOK, ClientTypeOK
<1>4. CASE UNCHANGED vars
  BY <1>4 DEF vars, serverVars, meterVars, trackVars, TypeOK, WireTypeOK, ClientTypeOK,
     ServerTypeOK
<1>5. QED
  BY <1>1, <1>2, <1>3, <1>4 DEF Next

\* Every variable of the clients, the server and the wire keeps its type; in
\* particular loss_count and next_expected stay within the width of the
\* sequence counter through any wrap.
THEOREM TypeCorrect == Spec => []TypeOK
BY InitType, NextType, PTL DEF Spec

------------------------------------------------------------------------------
(***************************************************************************)
(* How the set of missing sequence numbers changes when one more is read.  *)
(***************************************************************************)

\* Only finitely many sequence numbers can be missing below a mark.
LEMMA GapFinite ==
  ASSUME NEW from, NEW to, NEW seen
  PROVE  /\ IsFiniteSet(Gap(from, to, seen))
         /\ Cardinality(Gap(from, to, seen)) \in Nat
<1>1. IsFiniteSet(SeqNo)
  BY FS_Interval, WireAssumption DEF SeqNo, SeqMax
<1>2. Gap(from, to, seen) \in SUBSET SeqNo
  BY DEF Gap
<1>3. QED
  BY <1>1, <1>2, FS_Subset, FS_CardinalityType

\* The first number read leaves nothing missing.
LEMMA GapFirst ==
  ASSUME NEW s \in SeqNo
  PROVE  Cardinality(Gap(s, s + 1, {s})) = 0
<1>1. Gap(s, s + 1, {s}) = {}
  BY DEF Gap, SeqNo
<1>2. QED
  BY <1>1, FS_EmptySet

\* A number at or above the mark leaves everything in between missing, a gap
\* as long as its distance.
LEMMA GapOpens ==
  ASSUME NEW from \in SeqNo, NEW to \in SeqNo, NEW s \in SeqNo, NEW seen,
         from < to, to <= s, \A k \in seen : k < to
  PROVE  /\ Gap(from, s + 1, seen \cup {s}) = Gap(from, to, seen) \cup (to .. s - 1)
         /\ Cardinality(Gap(from, s + 1, seen \cup {s}))
              = Cardinality(Gap(from, to, seen)) + (s - to)
<1> DEFINE A == Gap(from, to, seen)
           B == to .. (s - 1)
<1>0. from \in Nat /\ to \in Nat /\ s \in Nat /\ SeqMod \in Nat
  BY WireAssumption DEF SeqNo
<1>1. Gap(from, s + 1, seen \cup {s}) = A \cup B
  BY <1>0 DEF Gap, SeqNo, SeqMax
<1>2. A \cap B = {}
  BY <1>0 DEF Gap, SeqNo
<1>3. IsFiniteSet(B) /\ Cardinality(B) = s - to
  <2>1. to \in Int /\ s - 1 \in Int
    BY <1>0
  <2>2. /\ IsFiniteSet(to .. (s - 1))
        /\ Cardinality(to .. (s - 1)) = IF to > s - 1 THEN 0 ELSE (s - 1) - to + 1
    BY <2>1, FS_Interval
  <2> HIDE DEF B
  <2>3. (IF to > s - 1 THEN 0 ELSE (s - 1) - to + 1) = s - to
    BY <1>0
  <2>4. QED
    BY <2>2, <2>3 DEF B
<1>4. IsFiniteSet(A) /\ Cardinality(A) \in Nat
  BY GapFinite
<1> HIDE DEF A, B
<1>5. Cardinality(A \cup B) = Cardinality(A) + Cardinality(B) - Cardinality(A \cap B)
  BY <1>3, <1>4, FS_Union
<1>6. Cardinality(A \cap B) = 0
  BY <1>2, FS_EmptySet
<1>7. Cardinality(A \cup B) = Cardinality(A) + (s - to)
  BY <1>0, <1>3, <1>4, <1>5, <1>6
<1>8. QED
  BY <1>1, <1>7 DEF A, B

\* A number below the mark fills at most itself.
LEMMA GapFills ==
  ASSUME NEW from, NEW to, NEW s, NEW seen
  PROVE  Cardinality(Gap(from, to, seen \cup {s})) =
           IF s \in Gap(from, to, seen) THEN Cardinality(Gap(from, to, seen)) - 1
                                        ELSE Cardinality(Gap(from, to, seen))
<1>1. Gap(from, to, seen \cup {s}) = Gap(from, to, seen) \ {s}
  BY DEF Gap
<1>2. QED
  BY <1>1, GapFinite, FS_RemoveElement

------------------------------------------------------------------------------
(***************************************************************************)
(* The accounting of one datagram preserves the accounting invariants.     *)
(***************************************************************************)

AccountInv == MarkInv /\ SpanIsAccountedFor /\ LossBracketsMissing

\* The first datagram that carries a prefix sets the mark.
LEMMA TrackFirst ==
  ASSUME ServerTypeOK, AccountInv, next_expected = None, rx_count = 0,
         NEW s \in SeqNo, Track(s), rx_count' = rx_count + 1
  PROVE  AccountInv'
<1>1. None \notin SeqNo /\ s \in Nat /\ SeqMax \in Int
  BY WireAssumption DEF SeqNo, SeqMax
<1>2. /\ first' = s /\ got' = {s}
      /\ loss_count' = 0 /\ out_of_order_count' = 0 /\ rx_count' = 1
  <2>1. /\ first = None /\ got = {} /\ loss_count = 0 /\ out_of_order_count = 0
        /\ Expected(s) = s
    BY DEF AccountInv, MarkInv, Expected
  <2>2. ~(s > s) /\ ~(s < s)
    BY <1>1
  <2>3. first' = s /\ got' = {s}
    BY <2>1 DEF Track
  <2>4. loss_count' = 0 /\ out_of_order_count' = 0
    BY <2>1, <2>2 DEF Track, BookLoss, BookLate
  <2>5. QED
    BY <2>3, <2>4
<1>3. /\ next_expected' \in SeqNo
      /\ s # SeqMax => next_expected' = s + 1
  <2>1. next_expected' = MaxOf(s, WrappingSucc(s))
    BY DEF Track, RaiseMark, Expected
  <2>2. QED
    BY <1>1, <2>1, SuccType DEF MaxOf, SeqNo
<1>a. Tracking' => s # SeqMax
  BY <1>2 DEF Tracking, Unwrapped
<1>b. s # None /\ next_expected' # None /\ {s} # {}
  BY <1>1, <1>3
<1>4. MarkInv'
  <2>1. ASSUME s # SeqMax
        PROVE  /\ first' < next_expected'
               /\ next_expected' - 1 \in got'
               /\ \A k \in got' : k < next_expected'
               /\ out_of_order_count' < rx_count'
    BY <1>1, <1>2, <1>3, <2>1
  <2>2. QED
    BY <1>2, <1>a, <1>b, <2>1 DEF MarkInv
<1>5. SpanIsAccountedFor'
  <2>1. ASSUME s # SeqMax
        PROVE  next_expected' - first' = loss_count' + (rx_count' - out_of_order_count')
    BY <1>1, <1>2, <1>3, <2>1
  <2>2. QED
    BY <1>a, <2>1 DEF SpanIsAccountedFor
<1>6. LossBracketsMissing'
  <2>1. SUFFICES ASSUME s # SeqMax
                 PROVE  Cardinality(Missing)' = 0
    BY <1>2 DEF LossBracketsMissing, Tracking, Unwrapped
  <2>2. Missing' = Gap(s, s + 1, {s})
    BY <1>2, <1>3, <2>1 DEF Missing
  <2>3. QED
    BY <2>2, GapFirst
<1>7. QED
  BY <1>4, <1>5, <1>6 DEF AccountInv

\* What the counters and the mark are while the mark is set.
LEMMA TrackTypes ==
  ASSUME ServerTypeOK, AccountInv, next_expected # None
  PROVE  /\ next_expected \in SeqNo /\ next_expected \in Nat
         /\ first \in SeqNo /\ first \in Nat
         /\ loss_count \in Nat /\ out_of_order_count \in Nat /\ rx_count \in Nat
         /\ None \notin SeqNo /\ SeqMax \in Nat /\ SeqNo \subseteq Nat
BY WireAssumption DEF SeqNo, SeqMax, ServerTypeOK, AccountInv, MarkInv

\* A number at or above the mark moves the mark past it; what lies between is
\* booked as lost, and it is what becomes missing.
LEMMA TrackAhead ==
  ASSUME ServerTypeOK, AccountInv, Tracking, NEW s \in SeqNo, Track(s), s # SeqMax,
         s >= next_expected
  PROVE  /\ next_expected' = s + 1
         /\ first' = first
         /\ got' = got \cup {s}
         /\ out_of_order_count' = out_of_order_count
         /\ loss_count' = loss_count + (s - next_expected)
         /\ Missing' = Missing \cup (next_expected .. s - 1)
         /\ Cardinality(Missing)' = Cardinality(Missing) + (s - next_expected)
<1> DEFINE h == next_expected
<1>1. /\ h # None /\ h \in SeqNo /\ h \in Nat /\ first \in SeqNo /\ first \in Nat
      /\ loss_count \in Nat /\ out_of_order_count \in Nat /\ rx_count \in Nat
      /\ None \notin SeqNo /\ SeqMax \in Nat /\ s \in Nat
  BY TrackTypes DEF Tracking
<1>2. /\ Expected(s) = h /\ got' = got \cup {s} /\ first' = first
      /\ next_expected' = MaxOf(h, WrappingSucc(s))
  BY <1>1 DEF Track, RaiseMark, Expected
<1>3. WrappingSucc(s) = s + 1
  BY SuccType
<1>4. /\ first < h /\ \A k \in got : k < h
      /\ out_of_order_count < rx_count
      /\ h - first = loss_count + (rx_count - out_of_order_count)
  BY DEF AccountInv, MarkInv, SpanIsAccountedFor
<1>5. /\ next_expected' = s + 1
      /\ out_of_order_count' = out_of_order_count
  BY <1>1, <1>2, <1>3 DEF MaxOf, Track, BookLate
<1>6. loss_count' = loss_count + (s - h)
  <2>1. CASE s > h
    <3>1. loss_count + (s - h) \in 0 .. SeqMax
      BY <1>1, <1>4, <2>1 DEF SeqNo
    <3>2. (loss_count + (s - h)) % SeqMod = loss_count + (s - h)
      BY <3>1, WireAssumption DEF SeqMax
    <3>3. QED
      BY <1>2, <2>1, <3>2 DEF Track, BookLoss
  <2>2. CASE s = h
    BY <1>1, <1>2, <2>2 DEF Track, BookLoss
  <2>3. QED
    BY <1>1, <2>1, <2>2
<1>7. Missing' = Gap(first, s + 1, got \cup {s})
  BY <1>2, <1>5 DEF Missing
<1>8. /\ Missing' = Missing \cup (h .. s - 1)
      /\ Cardinality(Missing)' = Cardinality(Missing) + (s - h)
  BY <1>1, <1>4, <1>7, GapOpens DEF Missing
<1>9. QED
  BY <1>2, <1>5, <1>6, <1>8

\* A number below the mark is booked as out of order and nothing else, whether
\* it was missing or not; it is not missing any more.
LEMMA TrackBehind ==
  ASSUME ServerTypeOK, AccountInv, Tracking, NEW s \in SeqNo, Track(s), s # SeqMax,
         s < next_expected
  PROVE  /\ next_expected' = next_expected
         /\ first' = first
         /\ got' = got \cup {s}
         /\ out_of_order_count' = out_of_order_count + 1
         /\ loss_count' = loss_count
         /\ Missing' = Missing \ {s}
         /\ Cardinality(Missing)' = IF s \in Missing THEN Cardinality(Missing) - 1
                                                     ELSE Cardinality(Missing)
<1> DEFINE h == next_expected
<1>1. /\ h # None /\ h \in SeqNo /\ h \in Nat /\ s \in Nat /\ None \notin SeqNo
      /\ first \in SeqNo
  BY TrackTypes DEF Tracking
<1>2. /\ Expected(s) = h /\ got' = got \cup {s} /\ first' = first
      /\ next_expected' = MaxOf(h, WrappingSucc(s))
  BY <1>1 DEF Track, RaiseMark, Expected
<1>3. WrappingSucc(s) = s + 1
  BY SuccType
<1>4. /\ next_expected' = h
      /\ out_of_order_count' = out_of_order_count + 1
      /\ loss_count' = loss_count
  BY <1>1, <1>2, <1>3 DEF MaxOf, Track, BookLate, BookLoss
<1>5. Missing' = Gap(first, h, got \cup {s}) /\ Missing = Gap(first, h, got)
  BY <1>2, <1>4 DEF Missing
<1>6. Gap(first, h, got \cup {s}) = Gap(first, h, got) \ {s}
  BY DEF Gap
<1>7. Cardinality(Gap(first, h, got \cup {s})) =
        IF s \in Gap(first, h, got) THEN Cardinality(Gap(first, h, got)) - 1
                                    ELSE Cardinality(Gap(first, h, got))
  BY GapFills
<1>8. QED
  BY <1>2, <1>4, <1>5, <1>6, <1>7

\* Once the mark is set, the last sequence number stops the accounting and
\* any other keeps it.
LEMMA TrackAgain ==
  ASSUME ServerTypeOK, AccountInv, next_expected # None,
         NEW s \in SeqNo, Track(s), rx_count' = rx_count + 1
  PROVE  AccountInv'
<1> DEFINE h == next_expected
<1>1. /\ h \in SeqNo /\ h \in Nat /\ first \in SeqNo /\ first \in Nat
      /\ loss_count \in Nat /\ out_of_order_count \in Nat /\ rx_count \in Nat
      /\ None \notin SeqNo /\ SeqMax \in Nat /\ s \in Nat
  BY TrackTypes
<1>2. /\ got' = got \cup {s} /\ first' = first
      /\ next_expected' = MaxOf(h, WrappingSucc(s))
  BY <1>1 DEF Track, RaiseMark, Expected
<1>3. next_expected' \in SeqNo
  BY <1>1, <1>2, SuccType DEF MaxOf
<1>4. CASE Unwrapped'
  <2>1. s # SeqMax /\ Tracking
    BY <1>2, <1>4 DEF Unwrapped, Tracking
  <2>2. /\ first < h /\ h - 1 \in got /\ \A k \in got : k < h
        /\ out_of_order_count < rx_count
        /\ h - first = loss_count + (rx_count - out_of_order_count)
        /\ Cardinality(Missing) <= loss_count
        /\ loss_count <= Cardinality(Missing) + out_of_order_count
    BY <2>1 DEF AccountInv, MarkInv, SpanIsAccountedFor, LossBracketsMissing
  <2>3. Cardinality(Missing) \in Nat
    BY GapFinite DEF Missing
  <2>4. /\ next_expected' >= h /\ next_expected' > s
        /\ next_expected' - 1 = IF s >= h THEN s ELSE h - 1
        /\ out_of_order_count' <= out_of_order_count + 1
    BY <1>1, <2>1, TrackAhead, TrackBehind
  <2>5. MarkInv'
    <3>1. next_expected' # None /\ first' # None /\ got' # {}
      BY <1>1, <1>2, <1>3
    <3>2. first' < next_expected' /\ out_of_order_count' < rx_count'
      BY <1>1, <1>2, <1>3, <2>1, <2>2, <2>4, TrackAhead, TrackBehind DEF SeqNo
    <3>3. next_expected' - 1 \in got'
      BY <1>1, <1>2, <2>2, <2>4
    <3>4. ASSUME NEW k \in got'
          PROVE  k < next_expected'
      <4>1. k \in Nat /\ next_expected' \in Nat
        BY <1>1, <1>2, <1>3 DEF ServerTypeOK, SeqNo
      <4>2. QED
        BY <1>1, <1>2, <2>2, <2>4, <4>1
    <3>5. QED
      BY <3>1, <3>2, <3>3, <3>4 DEF MarkInv
  <2>6. SpanIsAccountedFor' /\ LossBracketsMissing'
    <3>1. CASE s >= h
      BY <1>1, <2>1, <2>2, <2>3, <3>1, TrackAhead DEF SpanIsAccountedFor, LossBracketsMissing
    <3>2. CASE s < h
      BY <1>1, <2>1, <2>2, <2>3, <3>2, TrackBehind DEF SpanIsAccountedFor, LossBracketsMissing
    <3>3. QED
      BY <1>1, <3>1, <3>2
  <2>7. QED
    BY <2>5, <2>6 DEF AccountInv
<1>5. CASE ~Unwrapped'
  BY <1>1, <1>2, <1>3, <1>5 DEF AccountInv, MarkInv, SpanIsAccountedFor,
     LossBracketsMissing, Tracking
<1>6. QED
  BY <1>4, <1>5

------------------------------------------------------------------------------
(***************************************************************************)
(* TrackInv is inductive.                                                  *)
(***************************************************************************)

\* Only Send writes to the wire, and only it moves a sequence counter.
LEMMA ClientWire ==
  ASSUME TypeOK, WireInv, NEW c \in Senders, ClientStep(c)
  PROVE  WireInv' /\ wire \subseteq wire'
<1>0. \A d \in Senders : client[d] \in ClientState
  BY DEF TypeOK, ClientTypeOK
<1>1. ASSUME wire' = wire,
             \A d \in Senders : client'[d].seq = client[d].seq /\ client'[d].sends = client[d].sends
      PROVE  WireInv'
  <2>1. \A m \in wire : m.src \in Senders
    BY DEF TypeOK, WireTypeOK, Datagram
  <2>2. QED
    BY <1>1, <2>1 DEF WireInv
<1>2. CASE Start(c) \/ PutSeqPanic(c) \/ SendError(c)
  <2>1. wire' = wire
    BY <1>2 DEF Start, PutSeqPanic, SendError
  <2>2. ASSUME NEW d \in Senders
        PROVE  client'[d].seq = client[d].seq /\ client'[d].sends = client[d].sends
    BY <1>0, <1>2 DEF Start, PutSeqPanic, SendError, TypeOK, ClientTypeOK, ClientState
  <2>3. QED
    BY <1>1, <2>1, <2>2
<1>3. CASE Sample(c)
  <2>1. wire' = wire
    BY <1>3 DEF Sample
  <2> DEFINE k == CloseInterval(client[c], ClientSecs(c))
  <2>2. k.seq = client[c].seq /\ k.sends = client[c].sends
    BY <1>0 DEF CloseInterval, ClientState
  <2>3. client'[c].seq = client[c].seq /\ client'[c].sends = client[c].sends
    BY <1>0, <1>3, <2>2 DEF Sample, TypeOK, ClientTypeOK, ClientState, CloseInterval
  <2>4. \A d \in Senders \ {c} : client'[d] = client[d]
    BY <1>3 DEF Sample, TypeOK, ClientTypeOK
  <2>5. QED
    BY <1>1, <2>1, <2>3, <2>4
<1>4. CASE Send(c)
  <2> DEFINE s == client[c].seq
  <2>1. /\ ClientBuf[c] >= SEQ_LEN
        /\ wire' = wire \cup {[src |-> c, seq |-> s]}
    BY <1>4 DEF Send, SendAs
  <2>2. /\ client'[c].seq = WrappingSucc(s) /\ client'[c].sends = client[c].sends + 1
        /\ \A d \in Senders \ {c} : client'[d] = client[d]
    BY <1>0, <1>4 DEF Send, SendAs, TypeOK, ClientTypeOK, ClientState
  <2>3. s \in SeqNo /\ s \in Nat /\ SeqMax \in Int /\ client[c].sends \in Nat
    BY <1>0, WireAssumption DEF ClientState, SeqNo, SeqMax
  <2>4. \A m \in wire : m \in Datagram /\ m.src \in Senders /\ m.seq \in SeqNo
    BY DEF TypeOK, WireTypeOK, Datagram
  <2>5. ASSUME NEW m \in wire'
        PROVE  ClientBuf[m.src] >= SEQ_LEN /\ client'[m.src].sends > 0
    BY <1>0, <2>1, <2>2, <2>3, <2>4, <2>5 DEF WireInv
  <2>6. ASSUME NEW m \in wire', NEW k \in 0 .. m.seq
        PROVE  [src |-> m.src, seq |-> k] \in wire'
    <3>1. CASE m \in wire
      BY <2>1, <3>1 DEF WireInv
    <3>2. CASE m = [src |-> c, seq |-> s]
      <4>1. k \in 0 .. s
        BY <3>2
      <4>2. k = s \/ (k \in SeqNo /\ k < s)
        BY <2>3, <4>1 DEF SeqNo
      <4>3. QED
        BY <2>1, <3>2, <4>2 DEF WireInv
    <3>3. QED
      BY <2>1, <3>1, <3>2
  <2>7. ASSUME NEW d \in Senders, NEW k \in SeqNo, k < client'[d].seq
        PROVE  [src |-> d, seq |-> k] \in wire'
    <3>1. CASE d # c
      BY <2>1, <2>2, <2>7, <3>1 DEF WireInv
    <3>2. CASE d = c
      <4>1. k < WrappingSucc(s)
        BY <2>2, <2>7, <3>2
      <4>2. k < s \/ k = s
        <5>1. CASE s # SeqMax
          BY <2>3, <4>1, <5>1, SuccType DEF SeqNo
        <5>2. CASE s = SeqMax
          BY <2>3, <5>2 DEF SeqNo
        <5>3. QED
          BY <5>1, <5>2
      <4>3. QED
        BY <2>1, <3>2, <4>2 DEF WireInv
    <3>3. QED
      BY <3>1, <3>2
  <2>8. QED
    BY <2>1, <2>5, <2>6, <2>7 DEF WireInv
<1>5. wire \subseteq wire'
  BY DEF ClientStep, Start, PutSeqPanic, Send, SendAs, SendError, Sample
<1>6. QED
  BY <1>2, <1>3, <1>4, <1>5 DEF ClientStep

\* What the server does when it does not receive leaves the accounts alone.
LEMMA AccountIdle ==
  ASSUME AccountInv, UNCHANGED <<rx_count, trackVars>>
  PROVE  AccountInv'
BY DEF AccountInv, MarkInv, SpanIsAccountedFor, LossBracketsMissing, Tracking, Unwrapped,
   Missing, trackVars

\* Receiving a datagram, whether it carries a prefix or is cut short of it.
LEMMA ReceiveKeepsAccounts ==
  ASSUME TypeOK, WireInv, HeardInv, AccountInv, NEW m \in wire, Receive(m)
  PROVE  HeardInv' /\ AccountInv'
<1> DEFINE n == MinOf(ClientBuf[m.src], ServerBuf)
<1>1. /\ m \in Datagram /\ m.seq \in SeqNo /\ n \in Nat /\ now \in Nat /\ rx_count \in Nat
      /\ ClientBuf[m.src] \in Nat /\ ServerBuf \in Nat /\ ClientBuf[m.src] >= SEQ_LEN
  BY ReadLength, WireAssumption, ServerAssumption
     DEF TypeOK, WireTypeOK, ServerTypeOK, WireInv, Datagram
<1>2. HasPrefix(n) <=> ServerBuf >= SEQ_LEN
  BY <1>1 DEF HasPrefix, MinOf, SEQ_LEN
<1>3. /\ Meter(n) /\ spc' = "check" /\ wire' = wire
      /\ IF HasPrefix(n) THEN Track(m.seq) ELSE UNCHANGED trackVars
  BY DEF Receive
<1> HIDE DEF n
<1>4. rx_count' = rx_count + 1 /\ rx_count' > 0
  BY <1>1, <1>3, MeterType DEF TypeOK
<1>5. wire' # {} /\ spc' # "done"
  BY <1>3
<1>6. CASE HasPrefix(n)
  <2>1. Track(m.seq) /\ ServerBuf >= SEQ_LEN /\ ~(ServerBuf < SEQ_LEN)
    BY <1>1, <1>2, <1>3, <1>6 DEF SEQ_LEN
  <2>2. next_expected = None => rx_count = 0
    BY <2>1 DEF HeardInv
  <2>3. AccountInv'
    BY <1>1, <1>4, <2>1, <2>2, TrackFirst, TrackAgain DEF TypeOK
  <2>4. next_expected' # None
    BY <1>1, <2>1, TrackType, WireAssumption DEF TypeOK, SeqNo
  <2>5. \A k \in got' : \E d \in wire' : d.seq = k
    BY <1>3, <2>1 DEF Track, HeardInv
  <2>6. QED
    BY <1>5, <2>1, <2>3, <2>4, <2>5 DEF HeardInv
<1>7. CASE ~HasPrefix(n)
  <2>1. UNCHANGED trackVars /\ ServerBuf < SEQ_LEN
    BY <1>1, <1>2, <1>3, <1>7 DEF SEQ_LEN
  <2>2. next_expected = None /\ next_expected' = None
    BY <2>1 DEF HeardInv, trackVars
  <2>3. HeardInv'
    BY <1>3, <1>5, <2>1, <2>2 DEF HeardInv, trackVars
  <2>4. AccountInv'
    BY <2>1, <2>2 DEF AccountInv, MarkInv, SpanIsAccountedFor, LossBracketsMissing,
       Tracking, trackVars
  <2>5. QED
    BY <2>3, <2>4
<1>8. QED
  BY <1>6, <1>7

\* Nothing is heard, missing or counted at the start.
LEMMA InitTrack == Init => TrackInv
<1> SUFFICES ASSUME Init
             PROVE  TrackInv
  OBVIOUS
<1>1. TypeOK
  BY InitType
<1>2. WireInv
  BY WireAssumption DEF Init, WireInit, ClientInit, WireInv, SeqNo
<1>3. HeardInv
  BY DEF Init, ServerInit, HeardInv
<1>4. MarkInv /\ SpanIsAccountedFor /\ LossBracketsMissing
  BY DEF Init, ServerInit, MarkInv, SpanIsAccountedFor, LossBracketsMissing, Tracking
<1>5. QED
  BY <1>1, <1>2, <1>3, <1>4 DEF TrackInv

\* Every step keeps the mark, the books of the server and the wire consistent.
LEMMA NextTrack == TrackInv /\ [Next]_vars => TrackInv'
<1> SUFFICES ASSUME TrackInv, [Next]_vars
             PROVE  TrackInv'
  OBVIOUS
<1>1. TypeOK /\ WireInv /\ HeardInv /\ AccountInv
  BY DEF TrackInv, AccountInv
<1>2. TypeOK'
  BY <1>1, NextType
<1>3. WireInv' /\ HeardInv' /\ AccountInv'
  <2>1. ASSUME UNCHANGED <<wire, client, serverVars>>
        PROVE  WireInv' /\ HeardInv' /\ AccountInv'
    <3>1. WireInv' /\ HeardInv'
      BY <1>1, <2>1 DEF WireInv, HeardInv, serverVars, meterVars, trackVars
    <3>2. AccountInv'
      BY <1>1, <2>1, AccountIdle DEF serverVars, meterVars, trackVars
    <3>3. QED
      BY <3>1, <3>2
  <2>2. CASE Tick /\ UNCHANGED <<client, serverVars>>
    BY <2>1, <2>2 DEF Tick
  <2>3. ASSUME NEW c \in Senders, ClientStep(c), UNCHANGED serverVars
        PROVE  WireInv' /\ HeardInv' /\ AccountInv'
    <3>1. WireInv' /\ wire \subseteq wire'
      BY <1>1, <2>3, ClientWire
    <3>2. HeardInv'
      BY <1>1, <2>3, <3>1 DEF HeardInv, serverVars, meterVars, trackVars
    <3>3. AccountInv'
      BY <1>1, <2>3, AccountIdle DEF serverVars, meterVars, trackVars
    <3>4. QED
      BY <3>1, <3>2, <3>3
  <2>4. CASE ServerStep /\ UNCHANGED client
    <3>1. wire' = wire
      BY <2>4 DEF ServerStep, Expire, BeginRead, Receive, ReadTimeout, ReadError
    <3>2. WireInv'
      BY <1>1, <2>4, <3>1 DEF WireInv
    <3>3. ASSUME NEW m \in wire, Receive(m)
          PROVE  HeardInv' /\ AccountInv'
      BY <1>1, <3>3, ReceiveKeepsAccounts
    <3>4. CASE Expire \/ BeginRead \/ ReadTimeout \/ ReadError
      <4>1. UNCHANGED <<rx_count, trackVars>>
        BY <3>4 DEF Expire, BeginRead, ReadTimeout, ReadError, meterVars
      <4>2. spc' = "done" => rx_count > 0
        BY <1>1, <3>4 DEF Expire, BeginRead, ReadTimeout, ReadError, TypeOK, ServerTypeOK
      <4>3. HeardInv'
        BY <1>1, <3>1, <4>1, <4>2 DEF HeardInv, trackVars
      <4>4. QED
        BY <1>1, <3>2, <4>1, <4>3, AccountIdle
    <3>5. QED
      BY <2>4, <3>2, <3>3, <3>4 DEF ServerStep
  <2>5. CASE UNCHANGED vars
    BY <2>1, <2>5 DEF vars
  <2>6. QED
    BY <2>2, <2>3, <2>4, <2>5 DEF Next
<1>4. QED
  BY <1>2, <1>3 DEF TrackInv, AccountInv

\* The inductive invariant behind the accounting theorems.
LEMMA TrackInvHolds == Spec => []TrackInv
BY InitTrack, NextTrack, PTL DEF Spec

\* However datagrams are lost, reordered or repeated, the loss, arrival and
\* out-of-order counts of run_server add up to the span of sequence numbers
\* between the first read and the high-water mark.
THEOREM SpanTheorem == Spec => []SpanIsAccountedFor
<1>1. TrackInv => SpanIsAccountedFor
  BY DEF TrackInv
<1>2. QED
  BY <1>1, TrackInvHolds, PTL

\* The loss run_server reports is at least the number of sequence numbers that
\* never arrived, and exceeds it by at most the out-of-order count.
THEOREM LossBracketTheorem == Spec => []LossBracketsMissing
<1>1. TrackInv => LossBracketsMissing
  BY DEF TrackInv
<1>2. QED
  BY <1>1, TrackInvHolds, PTL

\* What run_server reports as lost, less what it reports as out of order, was
\* really sent and has really not arrived.
THEOREM LossIsRealTheorem == Spec => []LossIsReal
<1>1. TrackInv => LossIsReal
  <2> SUFFICES ASSUME TrackInv, Tracking
               PROVE  loss_count <= Cardinality(Withheld) + out_of_order_count
    BY DEF LossIsReal
  <2>1. /\ next_expected \in SeqNo /\ next_expected \in Nat /\ first \in SeqNo \cup {None}
        /\ loss_count \in Nat /\ out_of_order_count \in Nat
    BY WireAssumption DEF TrackInv, TypeOK, ServerTypeOK, Tracking, SeqNo
  <2>2. PICK m \in wire : m.seq = next_expected - 1
    BY DEF TrackInv, MarkInv, HeardInv
  <2>3. \A k \in SeqNo : k < next_expected => [src |-> m.src, seq |-> k] \in wire
    <3>1. \A k \in 0 .. m.seq : [src |-> m.src, seq |-> k] \in wire
      BY DEF TrackInv, WireInv
    <3>2. QED
      BY <2>1, <2>2, <3>1 DEF SeqNo
  <2>4. Missing \subseteq Withheld
    <3>1. ASSUME NEW k \in Missing
          PROVE  k \in Withheld
      <4>1. k \in SeqNo /\ k < next_expected /\ k \notin got
        BY <3>1 DEF Missing, Gap
      <4>2. [src |-> m.src, seq |-> k] \in wire
        BY <2>3, <4>1
      <4>3. [src |-> m.src, seq |-> k].seq = k
        OBVIOUS
      <4>4. QED
        BY <4>1, <4>2, <4>3 DEF Withheld
    <3>2. QED
      BY <3>1
  <2>5. IsFiniteSet(Withheld)
    <3>1. Withheld \in SUBSET SeqNo
      BY DEF Withheld, TrackInv, TypeOK, WireTypeOK, Datagram
    <3>2. IsFiniteSet(SeqNo)
      BY FS_Interval, WireAssumption DEF SeqNo, SeqMax
    <3>3. QED
      BY <3>1, <3>2, FS_Subset
  <2>6. /\ Cardinality(Missing) <= Cardinality(Withheld)
        /\ Cardinality(Missing) \in Nat /\ Cardinality(Withheld) \in Nat
    BY <2>4, <2>5, FS_Subset, FS_CardinalityType
  <2>7. loss_count <= Cardinality(Missing) + out_of_order_count
    BY DEF TrackInv, LossBracketsMissing
  <2> HIDE DEF Missing, Withheld
  <2>8. QED
    BY <2>1, <2>6, <2>7
<1>2. QED
  BY <1>1, TrackInvHolds, PTL

\* run_server only takes the maximum of the mark and the successor of what it
\* read, so no datagram, and no wrap of that successor, pulls the mark back.
THEOREM HighWaterTheorem == Spec => HighWaterNeverRecedes
<1>1. TypeOK /\ [Next]_vars =>
        [next_expected # None => next_expected' # None /\ next_expected' >= next_expected]_serverVars
  <2> SUFFICES ASSUME TypeOK, [Next]_vars, next_expected # None, serverVars' # serverVars
               PROVE  next_expected' # None /\ next_expected' >= next_expected
    OBVIOUS
  <2>1. /\ next_expected \in SeqNo /\ next_expected \in Nat
    BY DEF TypeOK, ServerTypeOK, SeqNo
  <2>2. ServerStep
    BY DEF Next, vars
  <2>3. CASE Expire \/ BeginRead \/ ReadTimeout \/ ReadError
    BY <2>1, <2>3 DEF Expire, BeginRead, ReadTimeout, ReadError, trackVars
  <2>4. ASSUME NEW m \in wire, Receive(m)
        PROVE  next_expected' # None /\ next_expected' >= next_expected
    <3>1. m.seq \in SeqNo /\ WrappingSucc(m.seq) \in SeqNo
      BY ReadLength, SuccType DEF Datagram
    <3>2. WrappingSucc(m.seq) \in Nat
      BY <3>1 DEF SeqNo
    <3>3. CASE Track(m.seq)
      <4>1. next_expected' = MaxOf(next_expected, WrappingSucc(m.seq))
        BY <3>3 DEF Track, RaiseMark, Expected
      <4>2. QED
        BY <2>1, <3>2, <4>1, WireAssumption DEF MaxOf
    <3>4. CASE UNCHANGED trackVars
      BY <2>1, <3>4 DEF trackVars
    <3>5. QED
      BY <2>4, <3>3, <3>4 DEF Receive
  <2>5. QED
    BY <2>2, <2>3, <2>4 DEF ServerStep
<1>2. QED
  BY <1>1, TypeCorrect, PTL DEF Spec, HighWaterNeverRecedes

\* The deadline is looked at before every read, so no read begins after it,
\* however much the group is sending.
THEOREM NoReadTheorem == Spec => []NoReadPastDeadline
<1>1. Init => NoReadPastDeadline
  BY DEF Init, ServerInit, NoReadPastDeadline
<1>2. TypeOK /\ NoReadPastDeadline /\ [Next]_vars => NoReadPastDeadline'
  <2> SUFFICES ASSUME TypeOK, NoReadPastDeadline, [Next]_vars
               PROVE  NoReadPastDeadline'
    OBVIOUS
  <2>1. ASSUME spc' = spc, readAt' = readAt
        PROVE  NoReadPastDeadline'
    BY <2>1 DEF NoReadPastDeadline, AsSecs
  <2>2. CASE Tick /\ UNCHANGED <<client, serverVars>>
    BY <2>1, <2>2 DEF serverVars
  <2>3. ASSUME NEW c \in Senders, ClientStep(c), UNCHANGED serverVars
        PROVE  NoReadPastDeadline'
    BY <2>1, <2>3 DEF serverVars
  <2>4. CASE ServerStep /\ UNCHANGED client
    <3>1. CASE BeginRead
      <4>1. readAt' = now /\ ~PastDeadline
        BY <3>1 DEF BeginRead
      <4>2. AsSecs(now) \in Int
        BY SecsType DEF TypeOK, WireTypeOK
      <4>3. ServerDuration # None => AsSecs(now) < ServerDuration
        BY <4>1, <4>2, ServerAssumption DEF PastDeadline
      <4>4. QED
        BY <4>1, <4>3 DEF NoReadPastDeadline, AsSecs
    <3>2. CASE Expire \/ ReadTimeout \/ ReadError \/ (\E m \in wire : Receive(m))
      <4>1. spc' # "read"
        BY <3>2 DEF Expire, ReadTimeout, ReadError, Receive
      <4>2. QED
        BY <4>1 DEF NoReadPastDeadline
    <3>3. QED
      BY <2>4, <3>1, <3>2 DEF ServerStep
  <2>5. CASE UNCHANGED vars
    BY <2>1, <2>5 DEF vars, serverVars
  <2>6. QED
    BY <2>2, <2>3, <2>4, <2>5 DEF Next
<1>3. QED
  BY <1>1, <1>2, TypeCorrect, PTL DEF Spec

\* Exit status 0 of the server means that a client with room for the prefix
\* did send: anything the server counted was once on the wire.
THEOREM SuccessTheorem == Spec => []SuccessMeansTraffic
<1>1. TrackInv => SuccessMeansTraffic
  <2> SUFFICES ASSUME TrackInv, spc = "done"
               PROVE  \E c \in Senders : client[c].sends > 0 /\ ClientBuf[c] >= SEQ_LEN
    BY DEF SuccessMeansTraffic
  <2>1. wire # {}
    BY DEF TrackInv, HeardInv
  <2>2. PICK m \in wire : TRUE
    BY <2>1
  <2>3. m.src \in Senders
    BY DEF TrackInv, TypeOK, WireTypeOK, Datagram
  <2>4. ClientBuf[m.src] >= SEQ_LEN /\ client[m.src].sends > 0
    BY DEF TrackInv, WireInv
  <2>5. QED
    BY <2>3, <2>4
<1>2. QED
  BY <1>1, TrackInvHolds, PTL

------------------------------------------------------------------------------
(***************************************************************************)
(* The report of the server implements the loss meter.                     *)
(***************************************************************************)

\* The first prefix the server reads begins the account, with nothing missing.
LEMMA AccountBegins ==
  ASSUME TrackInv, next_expected = None, rx_count = 0,
         NEW s \in SeqNo, s # SeqMax, Track(s), rx_count' = rx_count + 1
  PROVE  Account!Begin(s)
<1>1. None \notin SeqNo /\ s \in Nat /\ s + 1 # None
  BY WireAssumption DEF SeqNo, SeqMax
<1>2. /\ first = None /\ got = {} /\ loss_count = 0 /\ out_of_order_count = 0
      /\ ~Tracking
  BY DEF TrackInv, MarkInv, Tracking
<1>3. Expected(s) = s /\ ~(s > s) /\ ~(s < s)
  BY <1>1 DEF Expected
<1>4. /\ loss_count' = 0 /\ out_of_order_count' = 0 /\ first' = s /\ got' = {s}
  BY <1>2, <1>3 DEF Track, BookLoss, BookLate
<1>5. next_expected' = s + 1
  <2>1. next_expected' = MaxOf(s, WrappingSucc(s)) /\ WrappingSucc(s) = s + 1
    BY <1>3, SuccType DEF Track, RaiseMark
  <2>2. QED
    BY <1>1, <2>1 DEF MaxOf
<1>6. Unwrapped' /\ Tracking' /\ next_expected' # None
  BY <1>1, <1>4, <1>5 DEF Unwrapped, Tracking
<1>7. Missing' = {}
  <2>1. Missing' = Gap(s, s + 1, {s})
    BY <1>4, <1>5 DEF Missing
  <2>2. QED
    BY <1>1, <2>1 DEF Gap, SeqNo
<1>8. Late' = 0
  BY <1>4, <1>7, FS_EmptySet DEF Late
<1>9. rx_count' - out_of_order_count' = 1 /\ out_of_order_count' - Late' = 0
  BY <1>4, <1>8
<1>10. QED
  BY <1>2, <1>5, <1>6, <1>7, <1>8, <1>9 DEF Account!Begin, Account!meter

\* Any other number but the last one advances the mark of the meter, or is late, or
\* stray, whichever it is for one that knows what it is missing.
LEMMA AccountCounts ==
  ASSUME TrackInv, Tracking, NEW s \in SeqNo, s # SeqMax, Track(s),
         rx_count' = rx_count + 1
  PROVE  Account!Advance(s) \/ Account!Late(s) \/ Account!Stray(s)
<1>1. ServerTypeOK /\ AccountInv /\ next_expected # None /\ Unwrapped
  BY DEF TrackInv, TypeOK, AccountInv, Tracking
<1>2. /\ next_expected \in Nat /\ s \in Nat /\ None \notin SeqNo
      /\ loss_count \in Nat /\ out_of_order_count \in Nat /\ rx_count \in Nat
  BY <1>1, TrackTypes
<1>3. Cardinality(Missing) \in Nat
  BY GapFinite DEF Missing
<1>4. Unwrapped' /\ Tracking' /\ next_expected' # None
  <2>1. next_expected' \in SeqNo /\ got' = got \cup {s}
    BY <1>1, TrackType DEF Track
  <2>2. QED
    BY <1>1, <1>2, <2>1 DEF Unwrapped, Tracking
<1>5. CASE s >= next_expected
  <2>1. /\ next_expected' = s + 1 /\ out_of_order_count' = out_of_order_count
        /\ Missing' = Missing \cup (next_expected .. s - 1)
        /\ Late' = Late
    BY <1>1, <1>2, <1>3, <1>5, TrackAhead DEF Late
  <2>2. /\ rx_count' - out_of_order_count' = (rx_count - out_of_order_count) + 1
        /\ out_of_order_count' - Late' = out_of_order_count - Late
    BY <1>2, <2>1
  <2>3. Account!Advance(s)
    BY <1>1, <1>2, <1>4, <1>5, <2>1, <2>2 DEF Account!Advance, Account!meter
  <2>4. QED
    BY <2>3
<1>6. CASE s < next_expected
  <2>1. /\ next_expected' = next_expected /\ out_of_order_count' = out_of_order_count + 1
        /\ loss_count' = loss_count
        /\ Missing' = Missing \ {s}
        /\ Cardinality(Missing)' = IF s \in Missing THEN Cardinality(Missing) - 1
                                                    ELSE Cardinality(Missing)
    BY <1>1, <1>6, TrackBehind
  <2>2. rx_count' - out_of_order_count' = rx_count - out_of_order_count
    BY <1>2, <2>1
  <2>3. CASE s \in Missing
    <3>1. Late' = Late + 1 /\ out_of_order_count' - Late' = out_of_order_count - Late
      BY <1>2, <1>3, <2>1, <2>3 DEF Late
    <3>2. Account!Late(s)
      BY <1>1, <1>2, <1>4, <2>1, <2>2, <2>3, <3>1 DEF Account!Late, Account!meter
    <3>3. QED
      BY <3>2
  <2>4. CASE s \notin Missing
    <3>1. /\ Late' = Late
          /\ out_of_order_count' - Late' = (out_of_order_count - Late) + 1
      BY <1>2, <1>3, <2>1, <2>4 DEF Late
    <3>2. Missing' = Missing
      BY <2>1, <2>4
    <3>3. Account!Stray(s)
      BY <1>1, <1>2, <1>4, <1>6, <2>1, <2>2, <2>4, <3>1, <3>2 DEF Account!Stray, Account!meter
    <3>4. QED
      BY <3>3
  <2>5. QED
    BY <2>3, <2>4
<1>7. QED
  BY <1>2, <1>5, <1>6

\* One datagram is one step of the meter, or none when it carries no prefix or the
\* account is over.
LEMMA AccountReceives ==
  ASSUME TrackInv, TrackInv', NEW m \in wire, Receive(m)
  PROVE  [Account!Next]_(Account!vars)
<1> DEFINE n == MinOf(ClientBuf[m.src], ServerBuf)
           s == m.seq
<1>1. s \in SeqNo /\ n \in Nat /\ now \in Nat /\ ServerBuf \in Nat /\ ClientBuf[m.src] \in Nat
  BY ReadLength, WireAssumption, ServerAssumption DEF TrackInv, TypeOK, WireTypeOK, Datagram
<1>2. Meter(n) /\ IF HasPrefix(n) THEN Track(s) ELSE UNCHANGED trackVars
  BY DEF Receive
<1> HIDE DEF n
<1>3. rx_count' = rx_count + 1
  BY <1>1, <1>2, MeterType DEF TrackInv, TypeOK
<1>4. s # SeqMax => s \in 0 .. SeqMax - 1
  BY <1>1, WireAssumption DEF SeqNo, SeqMax
<1>5. CASE ~HasPrefix(n)
  <2>1. ServerBuf < SEQ_LEN
    BY <1>1, <1>5 DEF HasPrefix, n, MinOf, SEQ_LEN, TrackInv, WireInv
  <2>2. next_expected = None /\ next_expected' = None /\ got' = got
    BY <1>2, <1>5, <2>1 DEF TrackInv, HeardInv, trackVars
  <2>3. ~Tracking /\ ~Tracking'
    BY <2>2 DEF Tracking
  <2>4. QED
    BY <2>2, <2>3 DEF Account!vars, Account!meter
<1>6. CASE HasPrefix(n) /\ s = SeqMax
  <2>1. got' = got \cup {SeqMax} /\ ~Unwrapped' /\ ~Tracking'
    BY <1>2, <1>6 DEF Track, Unwrapped, Tracking
  <2>2. next_expected' # None
    BY <2>1 DEF TrackInv, MarkInv
  <2>3. CASE Unwrapped \/ next_expected = None
    <3>1. Account!End
      BY <2>1, <2>2, <2>3 DEF Account!End, Account!meter, Account!Blank
    <3>2. QED
      BY <3>1 DEF Account!Next
  <2>4. CASE ~Unwrapped /\ next_expected # None
    BY <2>1, <2>2, <2>4 DEF Account!vars, Account!meter, Tracking
  <2>5. QED
    BY <2>3, <2>4
<1>7. CASE HasPrefix(n) /\ s # SeqMax
  <2>1. Track(s) /\ got' = got \cup {s}
    BY <1>2, <1>7 DEF Track
  <2>2. CASE next_expected = None
    <3>1. rx_count = 0
      BY <1>1, <1>7, <2>2 DEF TrackInv, HeardInv, HasPrefix, n, MinOf, SEQ_LEN
    <3>2. QED
      BY <1>1, <1>3, <1>4, <1>7, <2>1, <2>2, <3>1, AccountBegins DEF Account!Next
  <2>3. CASE Tracking
    BY <1>1, <1>3, <1>4, <1>7, <2>1, <2>3, AccountCounts DEF Account!Next
  <2>4. CASE next_expected # None /\ ~Unwrapped
    <3>1. ~Unwrapped' /\ ~Tracking /\ ~Tracking'
      BY <2>1, <2>4 DEF Unwrapped, Tracking
    <3>2. next_expected' # None
      BY <2>1 DEF TrackInv, MarkInv
    <3>3. QED
      BY <2>4, <3>1, <3>2 DEF Account!vars, Account!meter
  <2>5. QED
    BY <2>2, <2>3, <2>4 DEF Tracking
<1>8. QED
  BY <1>5, <1>6, <1>7

\* The report of run_server means what the two counts of a loss meter mean that
\* knows what it is missing: its loss is what is missing and what was missing until
\* it came late, its out-of-order count is what came late and what was stray.
THEOREM LossMeterTheorem == Spec => CountsLikeALossMeter
<1>1. Init => Account!Init
  <2> SUFFICES ASSUME Init PROVE Account!Init
    OBVIOUS
  <2>1. next_expected = None /\ ~Tracking
    BY DEF Init, ServerInit, Tracking
  <2>2. QED
    BY <2>1 DEF Account!Init, Account!meter, Account!Blank
<1>2. TrackInv /\ TrackInv' /\ [Next]_vars => [Account!Next]_(Account!vars)
  <2> SUFFICES ASSUME TrackInv, TrackInv', [Next]_vars
               PROVE  [Account!Next]_(Account!vars)
    OBVIOUS
  <2>1. ASSUME UNCHANGED <<rx_count, trackVars>>
        PROVE  [Account!Next]_(Account!vars)
    <3>1. /\ Tracking' = Tracking /\ Unwrapped' = Unwrapped /\ Missing' = Missing
          /\ Late' = Late
      BY <2>1 DEF trackVars, Tracking, Unwrapped, Missing, Gap, Late
    <3>2. /\ next_expected' = next_expected /\ rx_count' = rx_count
          /\ out_of_order_count' = out_of_order_count
      BY <2>1 DEF trackVars
    <3>3. UNCHANGED Account!vars
      BY <3>1, <3>2 DEF Account!vars, Account!meter
    <3>4. QED
      BY <3>3
  <2>2. CASE \/ UNCHANGED serverVars
             \/ Expire \/ BeginRead \/ ReadTimeout \/ ReadError
    <3>1. UNCHANGED <<rx_count, trackVars>>
      BY <2>2 DEF Expire, BeginRead, ReadTimeout, ReadError, serverVars, meterVars
    <3>2. QED
      BY <2>1, <3>1
  <2>3. CASE \E m \in wire : Receive(m)
    BY <2>3, AccountReceives
  <2>4. QED
    BY <2>2, <2>3 DEF Next, ServerStep, vars
<1>3. QED
  BY <1>1, <1>2, TrackInvHolds, PTL DEF Spec, CountsLikeALossMeter, Account!Spec

\* When nothing arrived out of order, the loss run_server reports is exact.
THEOREM ExactLossTheorem ==
  Spec => [](Tracking /\ out_of_order_count = 0 => loss_count = Cardinality(Missing))
<1>1. TrackInv => (Tracking /\ out_of_order_count = 0 => loss_count = Cardinality(Missing))
  <2> SUFFICES ASSUME TrackInv, Tracking, out_of_order_count = 0
               PROVE  loss_count = Cardinality(Missing)
    OBVIOUS
  <2>1. Cardinality(Missing) \in Nat /\ loss_count \in Int
    BY GapFinite, WireAssumption DEF Missing, TrackInv, TypeOK, ServerTypeOK, SeqNo, SeqMax
  <2>2. QED
    BY <2>1 DEF TrackInv, LossBracketsMissing
<1>2. QED
  BY <1>1, TrackInvHolds, PTL

------------------------------------------------------------------------------
(***************************************************************************)
(* The books of the clients.                                               *)
(***************************************************************************)

\* The product of sends and buffer size grows by one buffer with a send.
LEMMA OneMoreSend ==
  ASSUME NEW a \in Nat, NEW b \in Nat
  PROVE  (a + 1) * b = a * b + b /\ a * b \in Nat
OBVIOUS

\* A step of a client keeps its own books.
LEMMA StepBooks ==
  ASSUME TypeOK, NEW c \in Senders, ClientStep(c),
         BooksInv(client[c], ClientBuf[c], ClientDuration[c])
  PROVE  BooksInv(client'[c], ClientBuf[c], ClientDuration[c])
<1> DEFINE k == client[c]
           j == client'[c]
           b == Bits(ClientBuf[c])
           d == ClientDuration[c]
<1>1. /\ k \in ClientState /\ client \in [Senders -> ClientState]
      /\ k.total \in Nat /\ k.interval_sent \in Nat /\ k.sends \in Nat /\ k.interval \in Nat
      /\ d \in Nat /\ b \in Nat
  BY WireAssumption, ClientAssumption DEF TypeOK, ClientTypeOK, ClientState, Bits
<1>2. /\ k.total + k.interval_sent = k.sends * b
      /\ k.pc \in {"idle", "send", "sample"} /\ d >= 1 => k.interval < d
      /\ k.pc = "done" /\ d >= 1 => k.interval_sent = 0
  BY DEF BooksInv
<1>3. SUFFICES /\ j.total + j.interval_sent = j.sends * b
               /\ j.pc \in {"idle", "send", "sample"} /\ d >= 1 => j.interval < d
               /\ j.pc = "done" /\ d >= 1 => j.interval_sent = 0
  BY DEF BooksInv
<1>4. CASE Start(c) \/ PutSeqPanic(c) \/ SendError(c)
  <2>1. /\ j.total = k.total /\ j.interval_sent = k.interval_sent /\ j.sends = k.sends
        /\ j.interval = k.interval /\ j.pc # "done" /\ k.pc \in {"idle", "send"}
    BY <1>1, <1>4 DEF Start, PutSeqPanic, SendError, ClientState
  <2> HIDE DEF k, j, b, d
  <2>2. QED
    BY <1>2, <2>1
<1>5. CASE Send(c)
  <2>1. /\ j.total = k.total /\ j.interval_sent = k.interval_sent + b
        /\ j.sends = k.sends + 1 /\ j.interval = k.interval
        /\ j.pc = "sample" /\ k.pc = "send"
    BY <1>1, <1>5 DEF Send, SendAs, ClientState
  <2> HIDE DEF k, j, b, d
  <2>2. (k.sends + 1) * b = k.sends * b + b /\ k.sends * b \in Nat
    BY <1>1, OneMoreSend
  <2>3. QED
    BY <1>1, <1>2, <2>1, <2>2
<1>6. CASE Sample(c)
  <2> DEFINE secs == ClientSecs(c)
             e == CloseInterval(k, secs)
  <2>1. secs \in Int
    BY <1>1, SecsType DEF ClientSecs, ClientState, TypeOK, WireTypeOK
  <2>2. j = [e EXCEPT !.pc = IF secs >= d THEN "done" ELSE "send"] /\ k.pc = "sample"
    BY <1>1, <1>6 DEF Sample
  <2> HIDE DEF secs
  <2>3. CASE secs > k.interval
    <3>1. /\ j.total = k.total + k.interval_sent /\ j.interval_sent = 0 /\ j.sends = k.sends
          /\ j.interval = secs /\ j.pc = IF secs >= d THEN "done" ELSE "send"
      BY <1>1, <2>2, <2>3 DEF CloseInterval, ClientState
    <3> HIDE DEF k, j, b, d
    <3>2. QED
      BY <1>1, <1>2, <2>1, <3>1
  <2>4. CASE ~(secs > k.interval)
    <3>1. /\ j.total = k.total /\ j.interval_sent = k.interval_sent /\ j.sends = k.sends
          /\ j.interval = k.interval /\ j.pc = IF secs >= d THEN "done" ELSE "send"
      BY <1>1, <2>2, <2>4 DEF CloseInterval, ClientState
    <3> HIDE DEF k, j, b, d
    <3>2. QED
      BY <1>1, <1>2, <2>1, <2>2, <2>4, <3>1
  <2>5. QED
    BY <2>3, <2>4
<1>7. QED
  BY <1>4, <1>5, <1>6 DEF ClientStep

\* The final report of run_client covers every datagram it sent: the second
\* that is over when the deadline is seen has just been closed.
THEOREM FinalReportTheorem == Spec => []FinalReportCountsEverySend
<1>1. Init => ClientBooksInv
  <2> SUFFICES ASSUME Init, NEW c \in Senders
               PROVE  BooksInv(client[c], ClientBuf[c], ClientDuration[c])
    BY DEF ClientBooksInv
  <2>1. Bits(ClientBuf[c]) \in Nat /\ ClientDuration[c] \in Nat
    BY WireAssumption, ClientAssumption DEF Bits
  <2>2. client[c] = [pc |-> "idle", start |-> 0, interval |-> 0, interval_sent |-> 0,
                     total |-> 0, count |-> 0, seq |-> 0, sends |-> 0]
    BY DEF Init, ClientInit
  <2>3. 0 * Bits(ClientBuf[c]) = 0
    BY <2>1
  <2>4. QED
    BY <2>1, <2>2, <2>3 DEF BooksInv
<1>2. TypeOK /\ ClientBooksInv /\ [Next]_vars => ClientBooksInv'
  <2> SUFFICES ASSUME TypeOK, ClientBooksInv, [Next]_vars, NEW d \in Senders
               PROVE  BooksInv(client'[d], ClientBuf[d], ClientDuration[d])
    BY DEF ClientBooksInv
  <2>1. BooksInv(client[d], ClientBuf[d], ClientDuration[d])
    BY DEF ClientBooksInv
  <2>2. CASE client' = client
    BY <2>1, <2>2
  <2>3. ASSUME NEW c \in Senders, ClientStep(c)
        PROVE  BooksInv(client'[d], ClientBuf[d], ClientDuration[d])
    <3>1. CASE d = c
      BY <2>1, <2>3, <3>1, StepBooks
    <3>2. CASE d # c
      <4>1. client'[d] = client[d]
        BY <2>3, <3>2 DEF ClientStep, Start, PutSeqPanic, Send, SendAs, SendError, Sample,
           TypeOK, ClientTypeOK
      <4>2. QED
        BY <2>1, <4>1
    <3>3. QED
      BY <3>1, <3>2
  <2>4. QED
    BY <2>2, <2>3 DEF Next, vars
<1>3. ClientBooksInv /\ TypeOK => FinalReportCountsEverySend
  <2> SUFFICES ASSUME ClientBooksInv, TypeOK, NEW c \in Senders,
                      client[c].pc = "done", ClientDuration[c] >= 1
               PROVE  client[c].total = client[c].sends * Bits(ClientBuf[c])
    BY DEF FinalReportCountsEverySend
  <2>1. client[c].total \in Nat
    BY DEF TypeOK, ClientTypeOK, ClientState
  <2>2. /\ client[c].interval_sent = 0
        /\ client[c].total + client[c].interval_sent = client[c].sends * Bits(ClientBuf[c])
    BY DEF ClientBooksInv, BooksInv
  <2>3. QED
    BY <2>1, <2>2
<1>4. QED
  BY <1>1, <1>2, <1>3, TypeCorrect, PTL DEF Spec

------------------------------------------------------------------------------
(***************************************************************************)
(* The report lines.                                                       *)
(***************************************************************************)

\* Whole seconds do not decrease.
LEMMA SecsMonotone ==
  ASSUME NEW t \in Nat, NEW u \in Nat, t <= u
  PROVE  AsSecs(t) <= AsSecs(u) /\ AsSecs(0) = 0
BY DEF AsSecs, TicksPerSecond

\* Time passes without touching the lines of a client.
LEMMA LinesLater ==
  ASSUME NEW k \in ClientState, NEW t \in Nat, LinesInv(k, t), k.start \in Nat
  PROVE  LinesInv(k, t + 1)
<1>1. /\ k.interval \in Nat /\ k.start <= t
      /\ t - k.start \in Nat /\ (t + 1) - k.start \in Nat /\ t - k.start <= (t + 1) - k.start
  BY DEF ClientState, LinesInv
<1>2. /\ AsSecs(t - k.start) <= AsSecs((t + 1) - k.start)
      /\ AsSecs(t - k.start) \in Nat /\ AsSecs((t + 1) - k.start) \in Nat
  BY <1>1, SecsMonotone, SecsType
<1> DEFINE before == AsSecs(t - k.start)
           after == AsSecs((t + 1) - k.start)
<1>3. k.interval <= before
  BY DEF LinesInv
<1> HIDE DEF before, after
<1>4. k.interval <= after
  BY <1>1, <1>2, <1>3 DEF before, after
<1>5. QED
  BY <1>1, <1>4 DEF LinesInv, after

\* A step of a client prints a line only when its second is over.
LEMMA StepLines ==
  ASSUME TypeOK, NEW c \in Senders, ClientStep(c), LinesInv(client[c], now)
  PROVE  LinesInv(client'[c], now)
<1> DEFINE k == client[c]
           j == client'[c]
<1>1. /\ k \in ClientState /\ client \in [Senders -> ClientState]
      /\ k.interval \in Nat /\ k.count \in Nat /\ k.start \in Nat /\ now \in Nat
  BY WireAssumption DEF TypeOK, WireTypeOK, ClientTypeOK, ClientState
<1>2. CASE Start(c)
  <2>1. /\ j.start = now /\ j.interval = k.interval /\ j.count = k.count /\ k.pc = "idle"
        /\ j.pc = "send"
    BY <1>1, <1>2 DEF Start, ClientState
  <2>2. AsSecs(now - now) = 0
    BY <1>1, SecsMonotone
  <2>3. QED
    BY <1>1, <2>1, <2>2 DEF LinesInv
<1>3. CASE PutSeqPanic(c) \/ Send(c) \/ SendError(c)
  <2>1. /\ j.start = k.start /\ j.interval = k.interval /\ j.count = k.count /\ j.pc # "idle"
    BY <1>1, <1>3 DEF PutSeqPanic, Send, SendAs, SendError, ClientState
  <2> HIDE DEF j
  <2>2. QED
    BY <2>1 DEF LinesInv, j
<1>4. CASE Sample(c)
  <2> DEFINE secs == ClientSecs(c)
             e == CloseInterval(k, secs)
  <2>1. secs \in Int /\ secs = AsSecs(now - k.start)
    BY <1>1, SecsType DEF ClientSecs
  <2>2. j = [e EXCEPT !.pc = IF secs >= ClientDuration[c] THEN "done" ELSE "send"]
    BY <1>1, <1>4 DEF Sample
  <2>3. k.count <= k.interval /\ k.interval <= secs /\ k.start <= now
    BY <2>1 DEF LinesInv
  <2> HIDE DEF secs
  <2>4. CASE secs > k.interval
    <3>1. /\ j.interval = secs /\ j.count = k.count + 1 /\ j.start = k.start /\ j.pc # "idle"
      BY <1>1, <2>2, <2>4 DEF CloseInterval, ClientState
    <3>2. j.count <= j.interval /\ j.interval <= secs
      <4> HIDE DEF j, k
      <4>1. QED
        BY <1>1, <2>1, <2>3, <2>4, <3>1
    <3> HIDE DEF j
    <3>3. QED
      BY <2>1, <2>3, <3>1, <3>2 DEF LinesInv, j
  <2>5. CASE ~(secs > k.interval)
    <3>1. /\ j.interval = k.interval /\ j.count = k.count /\ j.start = k.start /\ j.pc # "idle"
      BY <1>1, <2>2, <2>5 DEF CloseInterval, ClientState
    <3> HIDE DEF j
    <3>2. QED
      BY <2>1, <2>3, <3>1 DEF LinesInv, j
  <2>6. QED
    BY <2>4, <2>5
<1>5. QED
  BY <1>2, <1>3, <1>4 DEF ClientStep

\* A client never prints more lines than whole seconds have passed since its start.
THEOREM ClientLinesTheorem == Spec => []ClientLinesWithinTime
<1>1. Init => ClientLinesInv
  <2> SUFFICES ASSUME Init, NEW c \in Senders PROVE LinesInv(client[c], now)
    BY DEF ClientLinesInv
  <2>1. /\ client[c].interval = 0 /\ client[c].count = 0 /\ client[c].start = 0 /\ now = 0
    BY DEF Init, ClientInit, WireInit
  <2>2. QED
    BY <2>1, SecsMonotone DEF LinesInv
<1>2. TypeOK /\ ClientLinesInv /\ [Next]_vars => ClientLinesInv'
  <2> SUFFICES ASSUME TypeOK, ClientLinesInv, [Next]_vars, NEW d \in Senders
               PROVE  LinesInv(client'[d], now')
    BY DEF ClientLinesInv
  <2>1. /\ LinesInv(client[d], now) /\ client[d] \in ClientState
        /\ now \in Nat /\ client[d].start \in Nat
    BY WireAssumption DEF ClientLinesInv, TypeOK, WireTypeOK, ClientTypeOK, ClientState
  <2>2. CASE Tick /\ UNCHANGED <<client, serverVars>>
    <3>1. now' = now + 1 /\ client' = client
      BY <2>2 DEF Tick
    <3>2. QED
      BY <2>1, <3>1, LinesLater
  <2>3. ASSUME NEW c \in Senders, ClientStep(c)
        PROVE  LinesInv(client'[d], now')
    <3>1. now' = now
      BY <2>3 DEF ClientStep, Start, PutSeqPanic, Send, SendAs, SendError, Sample
    <3>2. CASE d = c
      BY <2>1, <2>3, <3>1, <3>2, StepLines
    <3>3. CASE d # c
      <4>1. client'[d] = client[d]
        BY <2>3, <3>3 DEF ClientStep, Start, PutSeqPanic, Send, SendAs, SendError, Sample,
           TypeOK, ClientTypeOK
      <4>2. QED
        BY <2>1, <3>1, <4>1
    <3>4. QED
      BY <3>2, <3>3
  <2>4. CASE (ServerStep /\ UNCHANGED client) \/ UNCHANGED vars
    <3>1. now' = now /\ client' = client
      BY <2>4 DEF ServerStep, Expire, BeginRead, Receive, ReadTimeout, ReadError, vars
    <3>2. QED
      BY <2>1, <3>1
  <2>5. QED
    BY <2>2, <2>3, <2>4 DEF Next
<1>3. ClientLinesInv => ClientLinesWithinTime
  BY DEF ClientLinesInv, LinesInv, ClientLinesWithinTime, ClientSecs
<1>4. QED
  BY <1>1, <1>2, <1>3, TypeCorrect, PTL DEF Spec

\* The server never prints more lines than whole seconds have passed.
THEOREM ServerLinesTheorem == Spec => []ServerLinesWithinTime
<1>1. Init => ServerLinesWithinTime
  BY SecsMonotone DEF Init, WireInit, ServerInit, ServerLinesWithinTime
<1>2. TypeOK /\ ServerLinesWithinTime /\ [Next]_vars => ServerLinesWithinTime'
  <2> SUFFICES ASSUME TypeOK, ServerLinesWithinTime, [Next]_vars
               PROVE  count' <= interval' /\ interval' <= AsSecs(now)'
    BY DEF ServerLinesWithinTime
  <2>1. /\ count \in Nat /\ interval \in Nat /\ now \in Nat /\ AsSecs(now) \in Nat
        /\ count <= interval /\ interval <= AsSecs(now)
    BY WireAssumption, SecsType DEF TypeOK, WireTypeOK, ServerTypeOK, ServerLinesWithinTime
  <2>2. CASE Tick /\ UNCHANGED <<client, serverVars>>
    <3>1. now' = now + 1 /\ UNCHANGED <<count, interval>>
      BY <2>2 DEF Tick, serverVars, meterVars
    <3>2. AsSecs(now) <= AsSecs(now + 1) /\ AsSecs(now + 1) \in Nat
      BY <2>1, SecsMonotone, SecsType
    <3>3. AsSecs(now)' = AsSecs(now + 1)
      BY <3>1
    <3>4. interval <= AsSecs(now + 1)
      BY <2>1, <3>2
    <3>5. QED
      BY <2>1, <3>1, <3>3, <3>4
  <2>3. ASSUME NEW m \in wire, Receive(m)
        PROVE  count' <= interval' /\ interval' <= AsSecs(now)'
    <3>1. /\ now' = now
          /\ IF AsSecs(now) > interval
             THEN interval' = AsSecs(now) /\ count' = count + 1
             ELSE UNCHANGED <<interval, count>>
      BY <2>3 DEF Receive, Meter
    <3>2. AsSecs(now)' = AsSecs(now)
      BY <3>1
    <3>3. QED
      BY <2>1, <3>1, <3>2
  <2>4. CASE \/ \E c \in Senders : ClientStep(c) /\ UNCHANGED serverVars
             \/ (Expire \/ BeginRead \/ ReadTimeout \/ ReadError) \/ UNCHANGED vars
    <3>1. now' = now /\ UNCHANGED <<count, interval>>
      BY <2>4 DEF ClientStep, Start, PutSeqPanic, Send, SendAs, SendError, Sample,
         Expire, BeginRead, ReadTimeout, ReadError, vars, serverVars, meterVars
    <3>2. AsSecs(now)' = AsSecs(now)
      BY <3>1
    <3>3. QED
      BY <2>1, <3>1, <3>2
  <2>5. QED
    BY <2>2, <2>3, <2>4 DEF Next, ServerStep
<1>3. QED
  BY <1>1, <1>2, TypeCorrect, PTL DEF Spec

==============================================================================
