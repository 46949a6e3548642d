------------------------------ MODULE LossMeter ------------------------------
(***************************************************************************)
(* What the loss report of the UDP receiver of thundermuffin means.  The   *)
(* meter knows which sequence numbers it is missing.  It starts with the   *)
(* first number it hears; a number at or above the mark moves the mark     *)
(* past it and leaves those in between missing; a missing one that turns   *)
(* up is late; every other one below the mark is stray, a duplicate or     *)
(* something older than the first.  Of all this it reports two numbers:    *)
(*                                                                         *)
(*     loss         = those missing + those that were late                 *)
(*     out of order = those that were late + the strays                    *)
(*                                                                         *)
(* The last sequence number of all ends the account.                       *)
(***************************************************************************)
EXTENDS Integers, FiniteSets

CONSTANT Last  \* the last sequence number of all

VARIABLES
  state,    \* "silent", "counting", or "over"
  mark,     \* one past the largest number heard
  missing,  \* passed over and not heard
  inorder,  \* how many moved the mark
  late,     \* how many were missing when they came
  stray     \* how many were neither

meter == <<mark, missing, inorder, late, stray>>
vars == <<state, meter>>

Blank == <<0, {}, 0, 0, 0>>

Init == state = "silent" /\ meter = Blank

Begin(s) ==
  /\ state = "silent"
  /\ state' = "counting"
  /\ meter' = <<s + 1, {}, 1, 0, 0>>

Advance(s) ==
  /\ state = "counting" /\ mark <= s
  /\ meter' = <<s + 1, missing \cup (mark .. s - 1), inorder + 1, late, stray>>
  /\ UNCHANGED state

Late(s) ==
  /\ state = "counting" /\ s \in missing
  /\ meter' = <<mark, missing \ {s}, inorder, late + 1, stray>>
  /\ UNCHANGED state

Stray(s) ==
  /\ state = "counting" /\ s < mark /\ s \notin missing
  /\ meter' = <<mark, missing, inorder, late, stray + 1>>
  /\ UNCHANGED state

\* The last number of all is heard.
End ==
  /\ state # "over"
  /\ state' = "over"
  /\ meter' = Blank

Next ==
  \/ \E s \in 0 .. Last - 1 : Begin(s) \/ Advance(s) \/ Late(s) \/ Stray(s)
  \/ End

Spec == Init /\ [][Next]_vars

==============================================================================
