-------------------------------- MODULE Units --------------------------------
(***************************************************************************)
(* What the loops of both transports count in.                             *)
(***************************************************************************)
EXTENDS Integers

\* Every counter of a loop is in bits, every return value in bytes.
Bits(bytes) == bytes * 8

MinOf(a, b) == IF a <= b THEN a ELSE b
MaxOf(a, b) == IF a >= b THEN a ELSE b

==============================================================================
