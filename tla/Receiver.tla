------------------------------- MODULE Receiver -------------------------------
(***************************************************************************)
(* What a run of thundermuffin promises about the multicast filter of its  *)
(* socket: it reads with one of the filters that were asked for, whole, or *)
(* it does not read.  Nothing is asked for on behalf of arguments that do  *)
(* not make sense, so such a run never reads.  The host may take parts of  *)
(* a filter away.                                                          *)
(***************************************************************************)
VARIABLES
  asked,   \* the filters to choose from; never changes
  phase,   \* "setup", "reading" or "gone"
  filter,  \* the filter in force while reading, {} otherwise
  lost     \* the host has taken something away

Init ==
  /\ phase = "setup"
  /\ filter = {}
  /\ lost = FALSE

Begin ==
  /\ phase = "setup"
  /\ phase' = "reading"
  /\ \E f \in asked : filter' \in IF lost THEN SUBSET f ELSE {f}
  /\ UNCHANGED <<asked, lost>>

Lose ==
  /\ phase # "gone"
  /\ filter' \in SUBSET filter
  /\ lost' = TRUE
  /\ UNCHANGED <<asked, phase>>

End ==
  /\ phase # "gone"
  /\ phase' = "gone"
  /\ filter' = {}
  /\ UNCHANGED <<asked, lost>>

Next == Begin \/ Lose \/ End

Spec == Init /\ [][Next]_<<asked, phase, filter, lost>>

==============================================================================
