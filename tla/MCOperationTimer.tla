-------------------------- MODULE MCOperationTimer ---------------------------
(* Instances of OperationTimer for TLC.                                     *)
EXTENDS OperationTimer

CONSTANTS n1, n2, c1, b1, b2

\* All timers in one bucket.
SharedBucket == [o \in Operations |-> b1]

\* Each timer in a bucket of its own.
OwnBucket == [o \in Operations |-> IF o = n1 THEN b1 ELSE b2]
=============================================================================
