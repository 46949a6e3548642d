------------------------------ MODULE MCJoiners ------------------------------
(***************************************************************************)
(* Small instances of Joiners for TLC.                                     *)
(***************************************************************************)
EXTENDS Joiners

CONSTANTS g1, g2, bad, p1, p2, i1, i2

TwoGroups == {g1, g2}
ThreeEntries == {g1, g2, bad}
JustBad == {bad}
JustG2 == {g2}
NoEntry == {}
G1OnI2 == {<<g1, i2>>}
NoPair == {}
OnePort == {p1}
TwoPorts == {p1, p2}
OneIface == {i1}
TwoIfaces == {i1, i2}

==============================================================================
