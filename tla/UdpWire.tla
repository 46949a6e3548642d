------------------------------- MODULE UdpWire -------------------------------
(***************************************************************************)
(* What the UDP client and the UDP server of thundermuffin share: the wall *)
(* clock both read through std::time::Instant, the datagrams the kernel    *)
(* was handed, and the sequence prefix of app/src/util.rs that every       *)
(* datagram carries.                                                       *)
(*                                                                         *)
(* The network is external.  It promises nothing: a datagram that was sent *)
(* may arrive never, late, early or several times.  So "wire" is the set   *)
(* of all datagrams ever sent and a receiver may take any member of it, at *)
(* any time, again and again.                                              *)
(***************************************************************************)
EXTENDS Units, FiniteSets

CONSTANTS
  Senders,    \* one element per run of "thundermuffin client"
  ClientBuf,  \* ClientBuf[c]: the --buffer-size of sender c, in bytes
  SeqMod,     \* number of sequence values; 2^64 in the code
  MaxTime,    \* BOUND: the clock stops here
  None        \* Rust's Option::None

ASSUME WireAssumption ==
  /\ ClientBuf \in [Senders -> Nat]
  /\ SeqMod \in Nat \ {0, 1}
  /\ MaxTime \in Nat
  /\ None \notin Int

SEQ_LEN == 8
SeqMax == SeqMod - 1
SeqNo == 0 .. SeqMax

\* Seeded fault: a plain increment.
UnwrappedSucc(s) == s + 1

WrappingSucc(s) == (s + 1) % SeqMod

\* A datagram: who sent it and the sequence number get_seq reads back.
Datagram == [src : Senders, seq : SeqNo]

\* One tick of the clock is 500 ms, the read timeout of the server.
TicksPerSecond == 2
ReadTimeoutTicks == 1

\* Duration::as_secs rounds down.
AsSecs(ticks) == ticks \div TicksPerSecond

VARIABLES
  now,   \* the clock, in ticks
  wire   \* every datagram sent so far

WireTypeOK ==
  /\ now \in 0 .. MaxTime
  /\ wire \in SUBSET Datagram

WireInit ==
  /\ now = 0
  /\ wire = {}

\* Time passes.  It may pass at any point, so also while a process is blocked
\* in send_to or is not scheduled.
Tick ==
  /\ now < MaxTime
  /\ now' = now + 1
  /\ UNCHANGED wire

==============================================================================
