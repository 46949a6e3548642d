----------------------------- MODULE MCUdpStream -----------------------------
(***************************************************************************)
(* Small instances of UdpStream for TLC.                                   *)
(***************************************************************************)
EXTENDS UdpStream

CONSTANTS s1, s2

OneSender == {s1}
TwoSenders == {s1, s2}

\* Buffers of the default kind (large enough), and one too short for a prefix.
RoomyBuf == [c \in Senders |-> 16]
MixedBuf == [c \in Senders |-> IF c = s1 THEN 4 ELSE 16]

ZeroSecs == [c \in Senders |-> 0]
OneSec == [c \in Senders |-> 1]
TwoSecs == [c \in Senders |-> 2]

TimeMode == [c \in Senders |-> "Time"]
DataMode == [c \in Senders |-> "Data"]

==============================================================================
