----------------------------- MODULE MCTcpStream -----------------------------
(***************************************************************************)
(* Small instances of TcpStream for TLC.                                   *)
(***************************************************************************)
EXTENDS TcpStream

CONSTANTS a, b

TwoClients == {a, b}

\* One client fills the buffer of the server with every second send or so, the
\* other one sends a byte.
McClientBuf == [c \in TwoClients |-> IF c = a THEN 2 ELSE 1]
McClientDuration == [c \in TwoClients |-> IF c = a THEN 2 ELSE 1]

McMaxBytes == [c \in TwoClients |-> IF c = a THEN 3 ELSE 1]

\* No room at all, and room for two bytes.
McServerBufs == {0, 2}

==============================================================================
