----------------------------- MODULE SendChannel -----------------------------
(***************************************************************************)
(* What a client connection promises to the code that sends on it: per     *)
(* sending thread, a FIFO channel.  A message that SendClientData accepts  *)
(* is handed to the transport after every message the same thread had      *)
(* accepted earlier, exactly once, or never (the connection went down).    *)
(***************************************************************************)
EXTENDS Naturals, Sequences

CONSTANTS Threads,    \* threads that call SendClientData on the client
          Messages    \* messages they send

VARIABLES accepted,   \* per thread, the messages accepted, in call order
          sent        \* per thread, the messages handed to the transport

vars == <<accepted, sent>>

Init ==
    /\ accepted = [t \in Threads |-> <<>>]
    /\ sent = [t \in Threads |-> <<>>]

\* A message is taken for later transmission.
Accept(t, m) ==
    /\ accepted' = [accepted EXCEPT ![t] = Append(@, m)]
    /\ UNCHANGED sent

\* The oldest message of the thread not yet sent goes out.
Transmit(t) ==
    /\ Len(sent[t]) < Len(accepted[t])
    /\ sent' = [sent EXCEPT ![t] = Append(@, accepted[t][Len(@) + 1])]
    /\ UNCHANGED accepted

\* A message goes out as soon as it is accepted, behind no other one.
AcceptAndTransmit(t, m) ==
    /\ sent[t] = accepted[t]
    /\ accepted' = [accepted EXCEPT ![t] = Append(@, m)]
    /\ sent' = [sent EXCEPT ![t] = Append(@, m)]

Next ==
    \E t \in Threads :
        \/ Transmit(t)
        \/ \E m \in Messages : Accept(t, m) \/ AcceptAndTransmit(t, m)

Spec == Init /\ [][Next]_vars
=============================================================================
