------------------------------ MODULE TcpStream ------------------------------
(***************************************************************************)
(* The TCP transport of app/src/tcp.rs: clients that send as fast as they  *)
(* can until their duration is over, and a server that accepts connections *)
(* and reads each of them in a thread of its own until the client closes.  *)
(*                                                                         *)
(* The two kernels are external.  A connection carries its bytes in order  *)
(* and holds at most Window of them, so a send may take part of its buffer *)
(* and a read returns any part of what is there.  A process that ends, in  *)
(* whatever way, closes its connections; a connection may break.           *)
(*                                                                         *)
(* There is no clock: a loop compares whole seconds since its own start,   *)
(* and these never go back, so a reading is any number from the last on.   *)
(* The layout and the running number of the report lines are left out.     *)
(***************************************************************************)
EXTENDS Units, FiniteSets, Sequences

CONSTANTS
  Clients,         \* one element per run of "thundermuffin client"
  Server,          \* the server, as the subject of a fault
  ClientBuf,       \* ClientBuf[c]: the --buffer-size of client c
  ClientDuration,  \* ClientDuration[c]: its --duration in seconds
  ServerBufs,      \* the --buffer-size values the server may be given
  Backlog,         \* connections the kernel keeps for accept
  Window,          \* bytes a connection holds
  MaxBytes,        \* BOUND: client c sees its deadline after MaxBytes[c] bytes
  MaxSecs,         \* BOUND: the last second a loop reads off its clock
  MaxFaults        \* BOUND: clients that are hit by a fault

ASSUME TcpAssumption ==
  /\ Server \notin Clients
  /\ ClientBuf \in [Clients -> Nat]
  /\ ClientDuration \in [Clients -> Nat]
  /\ ServerBufs \subseteq Nat
  /\ Backlog \in Nat /\ Window \in Nat \ {0}
  /\ MaxBytes \in [Clients -> Nat \ {0}]
  /\ MaxSecs \in Nat /\ MaxFaults \in Nat

VARIABLES
  sz,      \* the buffer size of the server
  server,  \* "up", or "gone" with all its threads
  queue,   \* connections that wait for accept
  conn,    \* conn[c]: "none", "open", "closed" by the client, or "reset"
  client,  \* client[c]: the locals of run_client
  thread,  \* thread[c]: the locals of the thread that serves client c
  written, \* written[c]: bytes the kernel took from client c
  heard,   \* history: heard[c]: bytes the thread of client c has read
  faults   \* history: what was hit by a fault that is not of the program

vars == <<sz, server, queue, conn, client, thread, written, heard, faults>>

ClientState ==
  [pc : {"idle", "send", "sample", "done", "failed"},
   interval : Nat, interval_sent : Nat, total : Nat]

ThreadState ==
  [pc : {"none", "recv", "ended", "panicked", "killed"},
   n : Nat, interval : Nat, interval_sent : Nat,
   reported : Nat]  \* history: bits in the lines printed

TypeOK ==
  /\ sz \in ServerBufs
  /\ server \in {"up", "gone"}
  /\ queue \in Seq(Clients)
  /\ conn \in [Clients -> {"none", "open", "closed", "reset"}]
  /\ client \in [Clients -> ClientState]
  /\ thread \in [Clients -> ThreadState]
  /\ written \in [Clients -> Nat]
  /\ heard \in [Clients -> Nat]
  /\ faults \in SUBSET (Clients \cup {Server})

Init ==
  /\ sz \in ServerBufs
  /\ server = "up"
  /\ queue = <<>>
  /\ conn = [c \in Clients |-> "none"]
  /\ client = [c \in Clients |->
                [pc |-> "idle", interval |-> 0, interval_sent |-> 0, total |-> 0]]
  /\ thread = [c \in Clients |->
                [pc |-> "none", n |-> 0, interval |-> 0, interval_sent |-> 0,
                 reported |-> 0]]
  /\ written = [c \in Clients |-> 0]
  /\ heard = [c \in Clients |-> 0]
  /\ faults = {}

InFlight(c) == written[c] - heard[c]

\* BOUND: faults that hit clients.
FaultAllowed == Cardinality(faults \ {Server}) < MaxFaults

\* The readings of the clock that may come after the last one.
Readings(last) == last .. MaxOf(last, MaxSecs)

------------------------------------------------------------------------------
(***************************************************************************)
(* A client.                                                               *)
(***************************************************************************)

\* What becomes of the connection when the client's end of it is closed.
ClosedByClient(c) == [conn EXCEPT ![c] = IF @ = "open" THEN "closed" ELSE @]

Connect(c) ==
  /\ client[c].pc = "idle"
  /\ server = "up" /\ Len(queue) < Backlog
  /\ client' = [client EXCEPT ![c].pc = "send"]
  /\ conn' = [conn EXCEPT ![c] = "open"]
  /\ queue' = Append(queue, c)
  /\ UNCHANGED <<sz, server, thread, written, heard, faults>>

\* Refused by a server that is gone, or by the network.
ConnectFails(c) ==
  /\ client[c].pc = "idle"
  /\ \/ server = "gone" /\ UNCHANGED faults
     \/ FaultAllowed /\ faults' = faults \cup {c}
  /\ client' = [client EXCEPT ![c].pc = "failed"]
  /\ UNCHANGED <<sz, server, queue, conn, thread, written, heard>>

\* A send that the kernel takes k bytes of and the client counts as "counted".
\* After a reset it may succeed once more before the client is told.
SendCounting(c, k, counted) ==
  /\ client[c].pc = "send"
  /\ k = 0 <=> ClientBuf[c] = 0
  /\ k <= ClientBuf[c]
  /\ conn[c] = "open" => InFlight(c) + k <= Window
  /\ written[c] + k <= MaxBytes[c]
  /\ written' = [written EXCEPT ![c] = @ + k]
  /\ client' = [client EXCEPT ![c] =
       [@ EXCEPT !.pc = "sample",
                 !.interval_sent = client[c].interval_sent + Bits(counted)]]
  /\ UNCHANGED <<sz, server, queue, conn, thread, heard, faults>>

\* Seeded fault: a send is taken for complete.
SendAssumedWhole(c) == \E k \in 0 .. ClientBuf[c] : SendCounting(c, k, ClientBuf[c])

Send(c) == \E k \in 0 .. ClientBuf[c] : SendCounting(c, k, k)

\* "?" leaves run_client without the final report.
SendFails(c) ==
  /\ client[c].pc = "send"
  /\ conn[c] = "reset"
  /\ client' = [client EXCEPT ![c].pc = "failed"]
  /\ UNCHANGED <<sz, server, queue, conn, thread, written, heard, faults>>

\* The second changed: the interval is printed and folded into the total.
CloseInterval(k, secs) ==
  IF secs > k.interval
  THEN [k EXCEPT !.interval = secs, !.total = @ + k.interval_sent, !.interval_sent = 0]
  ELSE k

\* The clock is read, and the deadline checked last; after it the final report
\* is printed and the program ends.
SampleAt(c, secs) ==
  /\ client' = [client EXCEPT ![c] =
       [CloseInterval(@, secs) EXCEPT
          !.pc = IF secs >= ClientDuration[c] THEN "done" ELSE "send"]]
  /\ conn' = IF secs >= ClientDuration[c] THEN ClosedByClient(c) ELSE conn

Sample(c) ==
  /\ client[c].pc = "sample"
  /\ \E secs \in Readings(client[c].interval) :
       /\ written[c] >= MaxBytes[c] => secs >= ClientDuration[c]
       /\ SampleAt(c, secs)
  /\ UNCHANGED <<sz, server, queue, thread, written, heard, faults>>

\* The client is killed; the kernel closes the connection as at any other end.
Killed(c) ==
  /\ client[c].pc \in {"send", "sample"}
  /\ FaultAllowed
  /\ client' = [client EXCEPT ![c].pc = "failed"]
  /\ conn' = ClosedByClient(c)
  /\ faults' = faults \cup {c}
  /\ UNCHANGED <<sz, server, queue, thread, written, heard>>

------------------------------------------------------------------------------
(***************************************************************************)
(* The network, and the server.                                            *)
(***************************************************************************)

\* The connection breaks, on its way to accept or while it is served.
Breaks(c) ==
  /\ conn[c] \in {"open", "closed"}
  /\ thread[c].pc # "ended"
  /\ FaultAllowed
  /\ conn' = [conn EXCEPT ![c] = "reset"]
  /\ faults' = faults \cup {c}
  /\ UNCHANGED <<sz, server, queue, client, thread, written, heard>>

\* Seeded fault: the connection is served before the next one is accepted.
AcceptInline ==
  /\ server = "up" /\ queue # <<>>
  /\ \A c \in Clients : thread[c].pc # "recv"
  /\ thread' = [thread EXCEPT ![Head(queue)].pc = "recv"]
  /\ queue' = Tail(queue)
  /\ UNCHANGED <<sz, server, conn, client, written, heard, faults>>

\* Seeded fault: a connection that gets no thread is forgotten.
AcceptForgetting ==
  /\ server = "up" /\ queue # <<>>
  /\ thread' = thread \/ thread' = [thread EXCEPT ![Head(queue)].pc = "recv"]
  /\ queue' = Tail(queue)
  /\ UNCHANGED <<sz, server, conn, client, written, heard, faults>>

\* accept and thread::spawn.
Accept ==
  /\ server = "up" /\ queue # <<>>
  /\ thread' = [thread EXCEPT ![Head(queue)].pc = "recv"]
  /\ queue' = Tail(queue)
  /\ UNCHANGED <<sz, server, conn, client, written, heard, faults>>

\* The server process ends: its threads with it, and what they had not ended.
ServerEnds ==
  /\ server' = "gone"
  /\ queue' = <<>>
  /\ thread' = [c \in Clients |->
       IF thread[c].pc = "recv" THEN [thread[c] EXCEPT !.pc = "killed"] ELSE thread[c]]
  /\ conn' = [c \in Clients |->
       IF conn[c] \in {"open", "closed"} /\ thread[c].pc # "ended" THEN "reset" ELSE conn[c]]

\* accept fails by a fault of the server, or there is no thread to be had.
AcceptFails ==
  /\ server = "up"
  /\ ServerEnds
  /\ faults' = faults \cup {Server}
  /\ UNCHANGED <<sz, client, written, heard>>

\* accept fails because the connection it was to return broke in the queue.  Some
\* kernels return the connection all the same, and then it is Accept.
AcceptAborted ==
  /\ server = "up" /\ queue # <<>>
  /\ conn[Head(queue)] = "reset"
  /\ ServerEnds
  /\ UNCHANGED <<sz, client, written, heard, faults>>

\* The interval of a thread; its total is nowhere printed.
Meter(k, secs) ==
  IF secs > k.interval
  THEN [k EXCEPT !.interval = secs, !.reported = @ + k.interval_sent, !.interval_sent = 0]
  ELSE k

\* A read of r bytes, of which the thread makes the locals k.
Reads(c, r, k) ==
  /\ thread[c].pc = "recv"
  /\ heard' = [heard EXCEPT ![c] = @ + r]
  /\ thread' = [thread EXCEPT ![c] = k]
  /\ UNCHANGED <<sz, server, queue, conn, client, written, faults>>

\* The inner loop ends at exactly sz bytes; reads that step over sz leave it
\* running until the client closes.
Counted(k, r, secs) ==
  Meter([k EXCEPT !.interval_sent = k.interval_sent + Bits(r),
                  !.n = IF k.n + r = sz THEN 0 ELSE k.n + r], secs)

\* Seeded fault: a read that does not fill the buffer is taken for the end.
RecvUntilShort(c) ==
  \E r \in 1 .. MinOf(sz, InFlight(c)), secs \in Readings(thread[c].interval) :
    Reads(c, r, [Counted(thread[c], r, secs) EXCEPT !.pc = IF r < sz THEN "ended" ELSE "recv"])

Recv(c) ==
  \E r \in 1 .. MinOf(sz, InFlight(c)), secs \in Readings(thread[c].interval) :
    Reads(c, r, Counted(thread[c], r, secs))

AtEof(c) == sz = 0 \/ (conn[c] = "closed" /\ InFlight(c) = 0)

\* Seeded fault: a read of nothing does not leave the inner loop.
RecvEofOnlyIfEmpty(c) ==
  /\ thread[c].pc = "recv" /\ AtEof(c)
  /\ thread[c].n = 0
  /\ thread' = [thread EXCEPT ![c].pc = "ended"]
  /\ conn' = [conn EXCEPT ![c] = IF @ = "open" \/ InFlight(c) > 0 THEN "reset" ELSE @]
  /\ UNCHANGED <<sz, server, queue, client, written, heard, faults>>

\* Seeded fault: a read of nothing is counted like any other.
RecvEofCounted(c) ==
  /\ AtEof(c)
  /\ \E secs \in Readings(thread[c].interval) : Reads(c, 0, Counted(thread[c], 0, secs))

\* A read that returns 0: the client has closed, or the buffer has no room.  It
\* leaves the inner loop, and the outer one as well if it was the first.  The
\* connection is dropped, which breaks it if the client is still there.
RecvEof(c) ==
  /\ thread[c].pc = "recv" /\ AtEof(c)
  /\ IF thread[c].n = 0
     THEN /\ thread' = [thread EXCEPT ![c].pc = "ended"]
          /\ conn' = [conn EXCEPT ![c] =
                        IF @ = "open" \/ InFlight(c) > 0 THEN "reset" ELSE @]
     ELSE thread' = [thread EXCEPT ![c].n = 0] /\ UNCHANGED conn
  /\ UNCHANGED <<sz, server, queue, client, written, heard, faults>>

\* Seeded fault: the panic takes the process with it.
RecvFailsAborting(c) ==
  /\ thread[c].pc = "recv" /\ conn[c] = "reset"
  /\ ServerEnds
  /\ UNCHANGED <<sz, client, written, heard, faults>>

\* A read that fails: unwrap panics, and ends this thread alone.
RecvFails(c) ==
  /\ thread[c].pc = "recv" /\ conn[c] = "reset"
  /\ thread' = [thread EXCEPT ![c].pc = "panicked"]
  /\ UNCHANGED <<sz, server, queue, conn, client, written, heard, faults>>

------------------------------------------------------------------------------

ClientStep(c) ==
  Connect(c) \/ ConnectFails(c) \/ Send(c) \/ SendFails(c) \/ Sample(c) \/ Killed(c)

ThreadStep(c) == Recv(c) \/ RecvEof(c) \/ RecvFails(c)

Next ==
  \/ \E c \in Clients : ClientStep(c) \/ ThreadStep(c) \/ Breaks(c)
  \/ Accept \/ AcceptFails \/ AcceptAborted

Spec == Init /\ [][Next]_vars

\* The server and its threads are scheduled, and a send that can return does.
\* Nothing else of a client is fair: it may be suspended between two calls.
Fairness ==
  /\ WF_vars(Accept)
  /\ \A c \in Clients : WF_vars(ThreadStep(c)) /\ WF_vars(Send(c))

FairSpec == Spec /\ Fairness

------------------------------------------------------------------------------

Gone == {"ended", "panicked", "killed"}

\* A thread that returns has heard everything its client wrote and the client
\* had closed, wherever partial reads stepped over the buffer size.  A server
\* with --buffer-size 0 reads nothing and breaks every connection.
Whole ==
  INSTANCE Streams WITH
    fate <- [c \in Clients |->
       IF thread[c].pc = "ended" THEN IF sz = 0 THEN "broken" ELSE "whole"
       ELSE IF conn[c] = "reset" THEN "broken"
       ELSE IF conn[c] = "closed" THEN "closed"
       ELSE "open"]

StreamsAreWholeOrBroken == Whole!Spec

\* When a client has finished and its thread has returned, the total the client
\* reports is what the thread has heard, and the thread has printed all of it but
\* for its last interval, which it never prints.
ReportsAgree ==
  \A c \in Clients :
    client[c].pc = "done" /\ ClientDuration[c] >= 1 /\ thread[c].pc = "ended" /\ sz # 0 =>
      /\ client[c].total = Bits(heard[c])
      /\ thread[c].reported + thread[c].interval_sent = Bits(heard[c])

\* The connection broke before the accept loop took it.
BrokeInQueue(c) == c \in faults /\ conn[c] = "reset" /\ thread[c].pc = "none"

\* What happens to a connection that has its thread harms nobody else: the thread
\* panics alone, and only by a fault of its own connection; a client fails by its
\* own or with the server; and the server goes by its own fault or by a connection
\* that broke while it waited, which accept may pass on and "?" makes the end of all.
FaultsStayWhereTheyHit ==
  /\ server = "gone" => Server \in faults \/ \E c \in Clients : BrokeInQueue(c)
  /\ \A c \in Clients :
       /\ thread[c].pc = "panicked" => c \in faults
       /\ client[c].pc = "failed" => c \in faults \/ server = "gone" \/ sz = 0

\* A connection that is not broken waits for accept, is being read, or was closed
\* and read to its end.
Placed(c) ==
  conn[c] \in {"open", "closed"} =>
    \/ server = "up" /\ thread[c].pc = "none" /\ \E i \in DOMAIN queue : queue[i] = c
    \/ server = "up" /\ thread[c].pc = "recv"
    \/ thread[c].pc = "ended" /\ conn[c] = "closed" /\ heard[c] = written[c]

\* No connection is lost between the kernel, the accept loop and the threads.
NobodyIsForgotten == \A c \in Clients : Placed(c)

\* What a thread still has to do for a connection that its client has closed: each
\* byte in flight is at worst one read, which at worst leaves a part of a buffer,
\* which costs one read of nothing more.
Remaining(c) == 2 * InFlight(c) + IF thread[c].n = 0 THEN 0 ELSE 1

\* A closed connection is drained: each step of its thread ends it or brings it
\* nearer to its end, and no other step sets it back, so the nested loops cannot
\* spin wherever the reads fall.
ClosedStreamsDrain ==
  [][\A c \in Clients : conn[c] = "closed" /\ thread[c].pc = "recv" =>
       /\ Remaining(c)' <= Remaining(c)
       /\ ThreadStep(c) => thread'[c].pc = "ended" \/ Remaining(c)' < Remaining(c)]_vars

\* A connection that its client has closed is read to its end, or breaks.
ServedToTheEnd ==
  \A c \in Clients : conn[c] = "closed" ~> thread[c].pc \in Gone \/ server = "gone"

\* A client whose send blocks gets on, whatever the other clients do.
NoClientIsStarved ==
  \A c \in Clients : client[c].pc = "send" ~> client[c].pc # "send"

------------------------------------------------------------------------------
(***************************************************************************)
(* The inductive strengthening the proofs rest on, in named parts.         *)
(***************************************************************************)

\* The connection follows its client.
ConnInv ==
  \A c \in Clients :
    /\ client[c].pc = "idle" => conn[c] = "none"
    /\ client[c].pc \in {"send", "sample"} => conn[c] \in {"open", "reset"}
    /\ client[c].pc = "done" => conn[c] \in {"closed", "reset"}
    /\ conn[c] = "none" => thread[c].pc = "none"

\* A connection waits for accept at most once, and is not served yet.
QueueInv ==
  /\ \A i \in DOMAIN queue : conn[queue[i]] # "none" /\ thread[queue[i]].pc = "none"
  /\ \A i, j \in DOMAIN queue : queue[i] = queue[j] => i = j

\* Nothing is heard that was not written, and at a proper end nothing is left.
HeardInv ==
  \A c \in Clients :
    /\ heard[c] <= written[c]
    /\ thread[c].pc = "ended" /\ sz # 0 => conn[c] = "closed" /\ heard[c] = written[c]

\* The books of a client and of a thread; a running client has not seen its
\* deadline, a finished one has no open interval.
BooksInv ==
  \A c \in Clients :
    /\ client[c].total + client[c].interval_sent = Bits(written[c])
    /\ thread[c].reported + thread[c].interval_sent = Bits(heard[c])
    /\ ClientDuration[c] >= 1 =>
         /\ client[c].pc \in {"idle", "send", "sample"} => client[c].interval < ClientDuration[c]
         /\ client[c].pc = "done" => client[c].interval_sent = 0

\* What broke a connection; without it no call on the connection fails.
Excused(c) == c \in faults \/ server = "gone" \/ sz = 0

\* While the server is there, a connection that is not at its end has broken by
\* its own fault alone.
FaultInv ==
  /\ server = "gone" => Server \in faults \/ \E c \in Clients : BrokeInQueue(c)
  /\ \A c \in Clients :
       /\ thread[c].pc = "recv" => server = "up"
       /\ conn[c] = "reset" /\ thread[c].pc \in {"none", "recv"} /\ server = "up" => c \in faults
       /\ conn[c] = "reset" \/ client[c].pc = "failed" => Excused(c)
       /\ thread[c].pc = "panicked" => c \in faults

StreamInv == TypeOK /\ ConnInv /\ QueueInv /\ HeardInv /\ BooksInv /\ FaultInv

==============================================================================
