------------------------------ MODULE UdpServer ------------------------------
(***************************************************************************)
(* The receiving loop of app/src/udp.rs run_server, once the socket is     *)
(* bound and joined: the deadline check, the read with its optional        *)
(* timeout, the loss and out-of-order accounting, the interval report and  *)
(* the summary that decides the exit status.                               *)
(*                                                                         *)
(* The clock is 0 when the loop begins; what a client sent before that is  *)
(* the same as what the network lost.                                      *)
(***************************************************************************)
EXTENDS UdpWire

CONSTANTS
  ServerBuf,       \* --buffer-size of the server
  ServerDuration,  \* --duration of the server, None when it is not given
  MaxRx            \* BOUND: datagrams the network delivers to the server

ASSUME ServerAssumption ==
  /\ ServerBuf \in Nat
  /\ ServerDuration \in Nat \cup {None}
  /\ MaxRx \in Nat

VARIABLES
  spc,                 \* where the loop is, or how it ended
  readAt,              \* the clock when the current read began
  interval,            \* last second a report was printed for
  interval_sent,       \* bits since the last report
  count,               \* number of reports printed
  total_bits,
  rx_count,
  loss_count,
  out_of_order_count,
  next_expected,       \* the high-water mark, None before the first prefix
  first,               \* history: the first sequence number read, or None
  got                  \* history: the set of sequence numbers read

meterVars == <<interval, interval_sent, count, total_bits, rx_count>>
trackVars == <<loss_count, out_of_order_count, next_expected, first, got>>
serverVars == <<spc, readAt, meterVars, trackVars>>

\* "done" is exit status 0, "empty" the bail on zero datagrams after the
\* summary, "failed" an I/O error that skips the summary.
ServerTypeOK ==
  /\ spc \in {"check", "read", "done", "empty", "failed"}
  /\ readAt \in 0 .. MaxTime
  /\ interval \in Nat
  /\ interval_sent \in Nat
  /\ count \in Nat
  /\ total_bits \in Nat
  /\ rx_count \in Nat
  /\ loss_count \in SeqNo
  /\ out_of_order_count \in Nat
  /\ next_expected \in SeqNo \cup {None}
  /\ first \in SeqNo \cup {None}
  /\ got \in SUBSET SeqNo

ServerInit ==
  /\ spc = "check"
  /\ readAt = 0
  /\ interval = 0
  /\ interval_sent = 0
  /\ count = 0
  /\ total_bits = 0
  /\ rx_count = 0
  /\ loss_count = 0
  /\ out_of_order_count = 0
  /\ next_expected = None
  /\ first = None
  /\ got = {}

\* The --duration of the server is over.
PastDeadline ==
  /\ ServerDuration # None
  /\ AsSecs(now) >= ServerDuration

------------------------------------------------------------------------------

\* The deadline is seen: summary, then the bail if nothing was received.
Expire ==
  /\ spc = "check"
  /\ PastDeadline
  /\ spc' = IF rx_count = 0 THEN "empty" ELSE "done"
  /\ UNCHANGED <<readAt, meterVars, trackVars, now, wire>>

\* The deadline is not reached: the loop blocks in the read.
BeginRead ==
  /\ spc = "check"
  /\ ~PastDeadline
  /\ spc' = "read"
  /\ readAt' = now
  /\ UNCHANGED <<meterVars, trackVars, now, wire>>

\* Seeded fault: the count of the sender is taken to start at 0.
ExpectedFromZero(s) == IF next_expected = None THEN 0 ELSE next_expected

\* What the receiver expects when s arrives; the first prefix sets the mark.
Expected(s) == IF next_expected = None THEN s ELSE next_expected

\* Seeded fault: a late datagram is taken for a lost one that turned up, which
\* a duplicate is not.
BookLossUnbooking(s) ==
  loss_count' = IF s > Expected(s) THEN loss_count + (s - Expected(s))
                ELSE IF s < Expected(s) /\ loss_count > 0 THEN loss_count - 1
                ELSE loss_count

\* A gap is booked as loss at once and never un-booked.
BookLoss(s) ==
  loss_count' = IF s > Expected(s)
                THEN (loss_count + (s - Expected(s))) % SeqMod
                ELSE loss_count

\* Anything below the mark, reordered or duplicate, is out of order.
BookLate(s) ==
  out_of_order_count' = IF s < Expected(s) THEN out_of_order_count + 1
                                           ELSE out_of_order_count

\* Seeded fault: the mark follows the last datagram.
FollowMark(s) == next_expected' = WrappingSucc(s)

\* The mark never goes back, not even when the successor wraps.
RaiseMark(s) == next_expected' = MaxOf(Expected(s), WrappingSucc(s))

\* The accounting of one sequence number.
Track(s) ==
  /\ BookLoss(s)
  /\ BookLate(s)
  /\ RaiseMark(s)
  /\ first' = IF first = None THEN s ELSE first
  /\ got' = got \cup {s}

\* A read of n bytes carries a whole sequence prefix.
HasPrefix(n) == n >= SEQ_LEN

\* Seeded fault: a report for every datagram of a second.
MeterEagerly(n) ==
  /\ rx_count' = rx_count + 1
  /\ total_bits' = total_bits + Bits(n)
  /\ interval' = AsSecs(now)
  /\ count' = count + 1
  /\ interval_sent' = 0

\* The interval report; n is the number of bytes the read returned.
Meter(n) ==
  /\ rx_count' = rx_count + 1
  /\ total_bits' = total_bits + Bits(n)
  /\ IF AsSecs(now) > interval
     THEN /\ interval' = AsSecs(now)
          /\ count' = count + 1
          /\ interval_sent' = 0
     ELSE /\ interval_sent' = interval_sent + Bits(n)
          /\ UNCHANGED <<interval, count>>

\* Seeded fault: the loop drains the socket before it looks at the clock.
ReceiveDraining(m) ==
  LET n == MinOf(ClientBuf[m.src], ServerBuf) IN
  /\ spc = "read"
  /\ rx_count < MaxRx
  /\ Meter(n)
  /\ IF HasPrefix(n) THEN Track(m.seq) ELSE UNCHANGED trackVars
  /\ readAt' = now
  /\ UNCHANGED <<spc, now, wire>>

\* The read returns datagram m, cut to the receive buffer.  A read too short
\* to hold the prefix is counted but not tracked.
Receive(m) ==
  LET n == MinOf(ClientBuf[m.src], ServerBuf) IN
  /\ spc = "read"
  /\ rx_count < MaxRx
  /\ Meter(n)
  /\ IF HasPrefix(n) THEN Track(m.seq) ELSE UNCHANGED trackVars
  /\ spc' = "check"
  /\ UNCHANGED <<readAt, now, wire>>

\* Seeded fault: the timeout is installed when there is no deadline.
ReadTimeoutInverted ==
  /\ spc = "read"
  /\ ServerDuration = None
  /\ now >= readAt + ReadTimeoutTicks
  /\ spc' = "check"
  /\ UNCHANGED <<readAt, meterVars, trackVars, now, wire>>

\* SO_RCVTIMEO, only installed when a duration is given: the read gives up
\* after 500 ms and the loop goes round.
ReadTimeout ==
  /\ spc = "read"
  /\ ServerDuration # None
  /\ now >= readAt + ReadTimeoutTicks
  /\ spc' = "check"
  /\ UNCHANGED <<readAt, meterVars, trackVars, now, wire>>

\* Any other error of the read ends the run without a summary.
ReadError ==
  /\ spc = "read"
  /\ spc' = "failed"
  /\ UNCHANGED <<readAt, meterVars, trackVars, now, wire>>

ServerStep ==
  Expire \/ BeginRead \/ (\E m \in wire : Receive(m)) \/ ReadTimeout \/ ReadError

ServerStopped == spc \in {"done", "empty", "failed"}

------------------------------------------------------------------------------

\* What the wraparound comment of run_server leaves out of account: the last
\* sequence number of all.  Until it is read the mark is exact.
Unwrapped == SeqMax \notin got

\* The sequence numbers between the first one read and the mark that never
\* arrived: the losses a receiver with perfect hindsight would report.
Gap(from, to, seen) == {k \in SeqNo : from <= k /\ k < to /\ k \notin seen}
Missing == Gap(first, next_expected, got)

Tracking == next_expected # None /\ Unwrapped

\* Every position the mark has passed is booked exactly once, as a loss or as
\* an in-order arrival: mark - first = loss + (rx - out_of_order).  It is the
\* law that lets a reader of the summary recover the span that was observed.
SpanIsAccountedFor ==
  Tracking =>
    next_expected - first = loss_count + (rx_count - out_of_order_count)

\* The reported loss brackets the true one.  A late datagram was booked as lost
\* when the gap was seen and is never un-booked, so the report may exceed the
\* truth, but by no more than the reported out-of-order count.
LossBracketsMissing ==
  Tracking =>
    /\ Cardinality(Missing) <= loss_count
    /\ loss_count <= Cardinality(Missing) + out_of_order_count

\* The two counts of the report mean what those of a meter mean that knows what it
\* is missing: each arrival changes them by exactly its own share, be it in order,
\* ahead, late or stray, until the last sequence number of all is read.
Late == loss_count - Cardinality(Missing)

Account == INSTANCE LossMeter WITH
  Last    <- SeqMax,
  state   <- IF next_expected = None THEN "silent"
             ELSE IF Unwrapped THEN "counting" ELSE "over",
  mark    <- IF Tracking THEN next_expected ELSE 0,
  missing <- IF Tracking THEN Missing ELSE {},
  inorder <- IF Tracking THEN rx_count - out_of_order_count ELSE 0,
  late    <- IF Tracking THEN Late ELSE 0,
  stray   <- IF Tracking THEN out_of_order_count - Late ELSE 0

CountsLikeALossMeter == Account!Spec

\* A late or duplicated datagram never pulls the high-water mark back, not even
\* across the wrap of the counter; otherwise gaps would be booked twice.
HighWaterNeverRecedes ==
  [][next_expected # None => next_expected' # None /\ next_expected' >= next_expected]_serverVars

\* The number of reports never outruns the seconds that passed.
ServerLinesWithinTime == count <= interval /\ interval <= AsSecs(now)

\* No read is begun once the deadline has passed, however busy the group is:
\* continuous traffic cannot keep a timed receiver alive.
NoReadPastDeadline ==
  spc = "read" /\ ServerDuration # None => AsSecs(readAt) < ServerDuration

==============================================================================
