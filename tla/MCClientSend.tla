---------------------------- MODULE MCClientSend -----------------------------
(* Instances of ClientSend for TLC: who sends what, and how long it is.     *)
EXTENDS ClientSend, TLC

CONSTANTS t1, t2, a, b, c, d, z

\* Two threads; t1's first message is as long as two of the others, z is empty.
TwoOwner == (a :> t1) @@ (b :> t2) @@ (c :> t2) @@ (d :> t1)
TwoSize  == (a :> 2) @@ (b :> 1) @@ (c :> 1) @@ (d :> 1)

ZeroOwner == (a :> t1) @@ (b :> t2) @@ (c :> t2) @@ (d :> t1) @@ (z :> t1)
ZeroSize  == (a :> 2) @@ (b :> 2) @@ (c :> 1) @@ (d :> 1) @@ (z :> 0)

\* One thread, five messages.
OneOwner == [m \in {a, b, c, d, z} |-> t1]
OneSize  == (a :> 1) @@ (b :> 2) @@ (c :> 1) @@ (d :> 1) @@ (z :> 2)
=============================================================================
