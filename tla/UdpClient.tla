------------------------------ MODULE UdpClient ------------------------------
(***************************************************************************)
(* The sending loop of app/src/udp.rs run_client, once its socket is set   *)
(* up.  Each iteration writes the next sequence number into the buffer,    *)
(* hands the buffer to the kernel, then reads the clock, closes the        *)
(* one-second reporting interval if the second changed, and stops once     *)
(* --duration seconds have passed.                                         *)
(***************************************************************************)
EXTENDS UdpWire

CONSTANTS
  ClientDuration,  \* ClientDuration[c]: --duration of sender c
  ClientMode,      \* ClientMode[c]: --mode of sender c, "Time" or "Data"
  MaxStart,        \* BOUND: no client is started after this tick
  MaxSends         \* BOUND: sends of one client before its deadline

ASSUME ClientAssumption ==
  /\ ClientDuration \in [Senders -> Nat]
  /\ ClientMode \in [Senders -> {"Time", "Data"}]
  /\ MaxStart \in Nat
  /\ MaxSends \in Nat

VARIABLE
  client  \* client[c]: the locals of run_client in sender c

ClientState ==
  [pc            : {"idle", "send", "sample", "done", "failed"},
   start         : 0 .. MaxTime,
   interval      : Nat,
   interval_sent : Nat,
   total         : Nat,
   count         : Nat,
   seq           : SeqNo,
   sends         : Nat]   \* history: number of successful send_to calls

ClientTypeOK == client \in [Senders -> ClientState]

ClientInit ==
  client = [c \in Senders |->
             [pc |-> "idle", start |-> 0, interval |-> 0, interval_sent |-> 0,
              total |-> 0, count |-> 0, seq |-> 0, sends |-> 0]]

\* Whole seconds since the loop of sender c began.
ClientSecs(c) == AsSecs(now - client[c].start)

------------------------------------------------------------------------------

\* The program is started: "start" is read and the loop entered.
Start(c) ==
  /\ client[c].pc = "idle"
  /\ now <= MaxStart
  /\ client' = [client EXCEPT ![c].pc = "send", ![c].start = now]
  /\ UNCHANGED <<now, wire>>

\* put_seq slices the first SEQ_LEN bytes of the buffer; a shorter buffer
\* makes the slice panic before anything is sent.
PutSeqPanic(c) ==
  /\ client[c].pc = "send"
  /\ ClientBuf[c] < SEQ_LEN
  /\ client' = [client EXCEPT ![c].pc = "failed"]
  /\ UNCHANGED <<now, wire>>

\* BOUND: after MaxSends datagrams the kernel blocks the sender, until its
\* deadline and not beyond: there is always room for the send that sees it.
SendBound(c) ==
  IF ClientSecs(c) >= ClientDuration[c] THEN MaxSends + 1 ELSE MaxSends

\* A send of sequence number s that leaves "next" as the next one.
SendAs(c, s, next) ==
  /\ client[c].pc = "send"
  /\ client[c].sends < SendBound(c)
  /\ wire' = wire \cup {[src |-> c, seq |-> s]}
  /\ client' = [client EXCEPT
       ![c].pc            = "sample",
       ![c].seq           = next,
       ![c].interval_sent = @ + Bits(ClientBuf[c]),
       ![c].sends         = @ + 1]
  /\ UNCHANGED now

\* Seeded fault: the counter is bumped twice per send.
SendSkipping(c) ==
  /\ ClientBuf[c] >= SEQ_LEN
  /\ SendAs(c, client[c].seq, WrappingSucc(WrappingSucc(client[c].seq)))

\* Seeded fault: a buffer without room for the prefix is sent anyway.
SendUnprefixed(c) == SendAs(c, client[c].seq, WrappingSucc(client[c].seq))

\* put_seq, the wrapping increment and a send_to that succeeds.  send_to on a
\* datagram socket takes the whole buffer or fails.
Send(c) ==
  /\ ClientBuf[c] >= SEQ_LEN
  /\ SendAs(c, client[c].seq, WrappingSucc(client[c].seq))

\* send_to fails: "?" leaves run_client without the final report.
SendError(c) ==
  /\ client[c].pc = "send"
  /\ ClientBuf[c] >= SEQ_LEN
  /\ client' = [client EXCEPT ![c].pc = "failed"]
  /\ UNCHANGED <<now, wire>>

\* Seeded fault: the interval is closed on every send of a second.
CloseIntervalEagerly(k, secs) ==
  IF secs >= k.interval
  THEN [k EXCEPT !.interval = secs, !.total = @ + k.interval_sent,
                 !.count = @ + 1, !.interval_sent = 0]
  ELSE k

\* The second changed: the interval is printed and folded into the total.
CloseInterval(k, secs) ==
  IF secs > k.interval
  THEN [k EXCEPT !.interval = secs, !.total = @ + k.interval_sent,
                 !.count = @ + 1, !.interval_sent = 0]
  ELSE k

\* Seeded fault: the deadline is tested before the interval is closed.
SampleDeadlineFirst(c) ==
  LET secs == ClientSecs(c) IN
  /\ client[c].pc = "sample"
  /\ client' = [client EXCEPT ![c] =
       IF secs >= ClientDuration[c]
       THEN [@ EXCEPT !.pc = "done"]
       ELSE [CloseInterval(@, secs) EXCEPT !.pc = "send"]]
  /\ UNCHANGED <<now, wire>>

\* Seeded fault: the deadline only counts if it is met to the second.
SampleExactDeadline(c) ==
  LET secs == ClientSecs(c) IN
  /\ client[c].pc = "sample"
  /\ client' = [client EXCEPT ![c] =
       [CloseInterval(@, secs) EXCEPT
          !.pc = IF secs = ClientDuration[c] THEN "done" ELSE "send"]]
  /\ UNCHANGED <<now, wire>>

\* The clock is read after the send, and the deadline checked last.
Sample(c) ==
  LET secs == ClientSecs(c) IN
  /\ client[c].pc = "sample"
  /\ client' = [client EXCEPT ![c] =
       [CloseInterval(@, secs) EXCEPT
          !.pc = IF secs >= ClientDuration[c] THEN "done" ELSE "send"]]
  /\ UNCHANGED <<now, wire>>

ClientStep(c) ==
  Start(c) \/ PutSeqPanic(c) \/ Send(c) \/ SendError(c) \/ Sample(c)

ClientStopped(c) == client[c].pc \in {"done", "failed"}

------------------------------------------------------------------------------

\* When a client finishes, the total it divides by its duration accounts for
\* every datagram it sent: the last interval is always closed before the loop
\* breaks.  Only --duration 0 escapes (one datagram is sent, none reported).
FinalReportCountsEverySend ==
  \A c \in Senders :
    client[c].pc = "done" /\ ClientDuration[c] >= 1
      => client[c].total = client[c].sends * Bits(ClientBuf[c])

\* However long a send stalls, the "[count]" lines a client has printed never
\* outnumber the whole seconds it has been running, and the second of the last one
\* is over.  (After a late line the next one may cover less than a second.)
ClientLinesWithinTime ==
  \A c \in Senders :
    client[c].count <= client[c].interval /\ client[c].interval <= ClientSecs(c)

\* A client told to measure in data rather than time stops after "duration"
\* buffer writes, as the help text of --mode and --duration says.
DataModeCountsWrites ==
  \A c \in Senders :
    client[c].pc = "done" /\ ClientMode[c] = "Data"
      => client[c].sends = ClientDuration[c]

\* put_seq is only reached with a buffer that has room for the prefix, as its
\* contract asks of the caller.
PutSeqHasRoom ==
  \A c \in Senders : client[c].pc = "send" => ClientBuf[c] >= SEQ_LEN

==============================================================================
