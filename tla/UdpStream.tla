------------------------------ MODULE UdpStream ------------------------------
(***************************************************************************)
(* Several clients sending to one server, the composition of UdpClient and *)
(* UdpServer over the wire and the clock of UdpWire.  With multicast the   *)
(* server may hear more than one sender (an INCLUDE filter lists several   *)
(* sources), and a client that is run again is one more sender; receivers  *)
(* do not affect each other, so one is enough.                             *)
(***************************************************************************)
EXTENDS UdpClient, UdpServer

vars == <<now, wire, client, serverVars>>

TypeOK == WireTypeOK /\ ClientTypeOK /\ ServerTypeOK

Init == WireInit /\ ClientInit /\ ServerInit

Next ==
  \/ Tick /\ UNCHANGED <<client, serverVars>>
  \/ \E c \in Senders : ClientStep(c) /\ UNCHANGED serverVars
  \/ ServerStep /\ UNCHANGED client

Spec == Init /\ [][Next]_vars

\* The loops keep running: neither blocks except in send_to and in the read,
\* and the kernel ends a read that has a timeout.  Nothing is promised about
\* the arrival of datagrams, so Receive is not fair, nor is starting a client.
Fairness ==
  /\ WF_vars(Tick /\ UNCHANGED <<client, serverVars>>)
  /\ \A c \in Senders : WF_vars((Send(c) \/ PutSeqPanic(c)) /\ UNCHANGED serverVars)
  /\ \A c \in Senders : WF_vars(Sample(c) /\ UNCHANGED serverVars)
  /\ WF_vars((Expire \/ BeginRead \/ ReadTimeout) /\ UNCHANGED client)

FairSpec == Spec /\ Fairness

------------------------------------------------------------------------------

\* Sequence numbers that were sent by somebody and have not arrived.
Withheld == {m.seq : m \in wire} \ got

\* The receiver never blames the network for more than it did: its loss, less
\* what it counts out of order, is at most what was sent and has not arrived.
\* It needs the senders to count upwards from 0 without gaps.
LossIsReal ==
  Tracking => loss_count <= Cardinality(Withheld) + out_of_order_count

\* A server that exits with status 0 has heard from a client that was started
\* with a buffer large enough to carry the prefix.
SuccessMeansTraffic ==
  spc = "done" => \E c \in Senders : client[c].sends > 0 /\ ClientBuf[c] >= SEQ_LEN

\* A server given a duration stops, also when no datagram ever arrives.
TimedServerStops == ServerDuration # None => <>ServerStopped

\* A client that was started comes to an end.
ClientStops == \A c \in Senders : client[c].pc = "send" ~> ClientStopped(c)

------------------------------------------------------------------------------
(***************************************************************************)
(* The inductive strengthening the proofs rest on, in named parts.         *)
(***************************************************************************)

\* What is on the wire was sent with room for the prefix, and each sender has
\* sent everything below what it has sent and below what it will send next.
WireInv ==
  /\ \A m \in wire : ClientBuf[m.src] >= SEQ_LEN /\ client[m.src].sends > 0
  /\ \A m \in wire : \A k \in 0 .. m.seq : [src |-> m.src, seq |-> k] \in wire
  /\ \A c \in Senders : \A k \in SeqNo :
       k < client[c].seq => [src |-> c, seq |-> k] \in wire

\* What the server has counted comes off the wire; a server that can track has
\* tracked from its first datagram on, one that cannot never does.
HeardInv ==
  /\ \A k \in got : \E m \in wire : m.seq = k
  /\ rx_count > 0 => wire # {}
  /\ spc = "done" => rx_count > 0
  /\ IF ServerBuf < SEQ_LEN THEN next_expected = None
     ELSE next_expected = None => rx_count = 0

\* The mark is one past the largest number read.
MarkInv ==
  /\ next_expected = None <=> got = {}
  /\ next_expected = None <=> first = None
  /\ next_expected = None => loss_count = 0 /\ out_of_order_count = 0
  /\ Tracking => /\ first < next_expected
                 /\ next_expected - 1 \in got
                 /\ \A k \in got : k < next_expected
                 /\ out_of_order_count < rx_count

TrackInv ==
  TypeOK /\ WireInv /\ HeardInv /\ MarkInv /\ SpanIsAccountedFor /\ LossBracketsMissing

\* The books of one client: nothing sent is forgotten, a running client has not
\* seen its deadline, a finished one has no open interval.
BooksInv(k, buf, duration) ==
  /\ k.total + k.interval_sent = k.sends * Bits(buf)
  /\ k.pc \in {"idle", "send", "sample"} /\ duration >= 1 => k.interval < duration
  /\ k.pc = "done" /\ duration >= 1 => k.interval_sent = 0

ClientBooksInv ==
  \A c \in Senders : BooksInv(client[c], ClientBuf[c], ClientDuration[c])

\* The lines of one client at time t; one that is not started has printed none.
LinesInv(k, t) ==
  /\ k.count <= k.interval
  /\ k.interval <= AsSecs(t - k.start)
  /\ k.start <= t
  /\ k.pc = "idle" => k.interval = 0 /\ k.count = 0

ClientLinesInv == \A c \in Senders : LinesInv(client[c], now)

==============================================================================
