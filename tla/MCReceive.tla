------------------------------ MODULE MCReceive ------------------------------
(* Instances of Receive for TLC.                                            *)
EXTENDS Receive

CONSTANTS f1, f2, f3, d1, d2, c1, s1, s2

Shift == {-2, 2}
=============================================================================
