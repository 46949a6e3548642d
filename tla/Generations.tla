----------------------------- MODULE Generations -----------------------------
(***************************************************************************)
(* What the thundermuffin membership service promises about the multicast  *)
(* memberships of its zone: they come in generations.  A generation asks   *)
(* once for a set of memberships, each of them is joined at most once and  *)
(* may be lost at any time, and the next generation asks for nothing while *)
(* one membership of the last one is held or could still be joined.        *)
(***************************************************************************)
CONSTANT Entries  \* the memberships there are to ask for

VARIABLES
  pending,  \* asked for in this generation, and neither joined nor lost
  held,     \* joined
  open      \* the generation has asked and was not given up

Init ==
  /\ pending = {}
  /\ held = {}
  /\ open = FALSE

Ask ==
  /\ ~open
  /\ pending = {}
  /\ held = {}
  /\ open' = TRUE
  /\ pending' \in SUBSET Entries
  /\ UNCHANGED held

Join(e) ==
  /\ e \in pending
  /\ pending' = pending \ {e}
  /\ held' = held \cup {e}
  /\ UNCHANGED open

Lose(e) ==
  /\ e \in pending \cup held
  /\ pending' = pending \ {e}
  /\ held' = held \ {e}
  /\ UNCHANGED open

\* The generation is given up: what was not started yet is never joined.
GiveUp ==
  /\ open
  /\ open' = FALSE
  /\ pending' \in SUBSET pending
  /\ UNCHANGED held

Next == Ask \/ GiveUp \/ \E e \in Entries : Join(e) \/ Lose(e)

Spec == Init /\ [][Next]_<<pending, held, open>>

==============================================================================
