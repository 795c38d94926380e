--------------------------- MODULE MCClientSession ---------------------------
(* Instances of ClientSession for TLC.                                      *)
EXTENDS ClientSession

CONSTANTS c1, c2, c3, a1, a2

\* The second peer comes back from the same port, the third is another one.
SamePeer == [c \in Clients |-> IF c = c3 THEN a2 ELSE a1]
=============================================================================
