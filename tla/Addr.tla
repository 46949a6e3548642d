--------------------------------- MODULE Addr ---------------------------------
(***************************************************************************)
(* IP addresses, and what the command line and the sockets of thundermuffin *)
(* decide from their bits alone: which groups are source-specific (SSM),   *)
(* which of them can be received from, which addresses may be a source,    *)
(* and which groups carry a zone in their socket address.                  *)
(*                                                                         *)
(* An address is a record of its family and its parts: four octets or      *)
(* eight 16-bit segments, numbered from 1.  The masks of the code are       *)
(* written as division and remainder.                                      *)
(***************************************************************************)
EXTENDS Integers

V4 == [family : {"v4"}, part : [1 .. 4 -> 0 .. 255]]
V6 == [family : {"v6"}, part : [1 .. 8 -> 0 .. 65535]]
Address == V4 \cup V6

IsV4(a) == a.family = "v4"

UNSPECIFIED == [family |-> "v4", part |-> [i \in 1 .. 4 |-> 0]]

------------------------------------------------------------------------------
(***************************************************************************)
(* std::net, as far as it is used.                                         *)
(***************************************************************************)

\* The first octet of a segment, and its low half-octet.
HighOctet(w) == w \div 256
LowNibble(w) == w % 16

IsMulticast(a) ==
  IF IsV4(a) THEN a.part[1] \in 224 .. 239 ELSE HighOctet(a.part[1]) = 255

IsUnspecified(a) == \A i \in DOMAIN a.part : a.part[i] = 0

IsLoopback(a) ==
  IF IsV4(a) THEN a.part[1] = 127
  ELSE a.part[8] = 1 /\ \A i \in 1 .. 7 : a.part[i] = 0

------------------------------------------------------------------------------
(***************************************************************************)
(* app/src/ssm.rs.                                                         *)
(***************************************************************************)

\* s[1] & 0xff70 = 0xff30: the flags R, P and T are 0, 1 and 1; the prefix
\* length, the low octet of the second segment, is zero.
Ipv6SegmentsAreSsm(s) ==
  HighOctet(s[1]) = 255 /\ (s[1] \div 16) % 8 = 3 /\ s[2] % 256 = 0

IsSsmMulticast(a) ==
  IF IsV4(a) THEN a.part[1] = 232 ELSE Ipv6SegmentsAreSsm(a.part)

\* 232.0.0.0 and ff3x::4000:0, both reserved.
IsSsmNull(a) ==
  IF IsV4(a) THEN a.part[1] = 232 /\ \A i \in 2 .. 4 : a.part[i] = 0
  ELSE /\ \A i \in 3 .. 6 : a.part[i] = 0
       /\ a.part[7] = 16384 /\ a.part[8] = 0

\* Seeded fault: only the reserved scope 0 is turned away.
ValidateSsmDestinationScopeZero(a) ==
  ~IsSsmNull(a) /\ (~IsV4(a) => LowNibble(a.part[1]) # 0)

\* An SSM group that can be received from: no null address, and for IPv6 a
\* scope wider than the link.
ValidateSsmDestination(a) ==
  ~IsSsmNull(a) /\ (~IsV4(a) => LowNibble(a.part[1]) \notin {0, 1, 2})

------------------------------------------------------------------------------
(***************************************************************************)
(* app/src/main.rs and app/src/udp.rs.                                     *)
(***************************************************************************)

V4Unroutable(p) == p[1] = 0 \/ p[1] >= 240 \/ (p[1] = 169 /\ p[2] = 254)

V6Unroutable(p) ==
  \/ p[1] \in 65152 .. 65215  \* fe80::/10
  \/ (\A i \in 1 .. 5 : p[i] = 0) /\ p[6] \in {0, 65535}

\* An address that parses and may be the source of a channel.
ParseUnicastIpaddr(a) ==
  /\ ~IsMulticast(a) /\ ~IsUnspecified(a) /\ ~IsLoopback(a)
  /\ IF IsV4(a) THEN ~V4Unroutable(a.part) ELSE ~V6Unroutable(a.part)

\* The zone of a group in a socket address: interface- and link-local only.
V6MulticastScopeId(group, ifindex) ==
  IF LowNibble(group.part[1]) \in {1, 2} THEN ifindex ELSE 0

==============================================================================
