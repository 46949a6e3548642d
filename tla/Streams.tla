------------------------------- MODULE Streams -------------------------------
(***************************************************************************)
(* What the TCP server of thundermuffin promises for each connection: it   *)
(* hears the bytes that were written, and when it calls the connection     *)
(* whole, the client had closed it and every byte of it was heard.  A      *)
(* connection that breaks is never called whole.                           *)
(***************************************************************************)
EXTENDS Integers

CONSTANT Clients

VARIABLES
  written,  \* bytes the client has handed over
  heard,    \* bytes the server has taken
  fate      \* "open", "closed" by the client, then "whole"; or "broken"

Init ==
  /\ written = [c \in Clients |-> 0]
  /\ heard = [c \in Clients |-> 0]
  /\ fate = [c \in Clients |-> "open"]

\* A client need not know yet that its connection is broken.
Write(c) ==
  /\ fate[c] \in {"open", "broken"}
  /\ written' = [written EXCEPT ![c] = written'[c]]
  /\ written'[c] \in Nat /\ written'[c] >= written[c]
  /\ UNCHANGED <<heard, fate>>

Hear(c) ==
  /\ fate[c] # "whole"
  /\ \E k \in 1 .. written[c] - heard[c] : heard' = [heard EXCEPT ![c] = @ + k]
  /\ UNCHANGED <<written, fate>>

Close(c) ==
  /\ fate[c] = "open"
  /\ fate' = [fate EXCEPT ![c] = "closed"]
  /\ UNCHANGED <<written, heard>>

End(c) ==
  /\ fate[c] = "closed"
  /\ heard[c] = written[c]
  /\ fate' = [fate EXCEPT ![c] = "whole"]
  /\ UNCHANGED <<written, heard>>

\* Several connections may break at once; one that is whole stays so.
Break ==
  /\ \E S \in SUBSET {c \in Clients : fate[c] # "whole"} :
       fate' = [c \in Clients |-> IF c \in S THEN "broken" ELSE fate[c]]
  /\ UNCHANGED <<written, heard>>

Next ==
  \/ \E c \in Clients : Write(c) \/ Hear(c) \/ Close(c) \/ End(c)
  \/ Break

Spec == Init /\ [][Next]_<<written, heard, fate>>

==============================================================================
