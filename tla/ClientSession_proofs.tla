------------------------ MODULE ClientSession_proofs -------------------------
(***************************************************************************)
(* Client connections, for every set of clients, every assignment of       *)
(* addresses, every limit and every number of AcceptEx operations: the     *)
(* count is the number of contexts, and what a context key protects is     *)
(* given up only after the disconnect event.                               *)
(***************************************************************************)
EXTENDS ClientSession, FiniteSetTheorems, TLAPS

Typed ==
    /\ conn \in [Clients -> {"none", "up", "down"}]
    /\ sock \subseteq Clients
    /\ disconnected \subseteq Clients
    /\ accept \in [Clients -> {"none", "completed", "admitted", "created", "bound", "done",
                               "rejected", "unbound", "starved", "refused"}]
    /\ read \in [Clients -> {"none", "pending", "data", "lost", "leaving"}]
    /\ discs \in [Clients -> Nat]
    /\ pc \in [Callers -> {"idle", "issuing", "marking"}]
    /\ target \in [Callers -> Clients \union {NoClient}]
    /\ live \subseteq Clients
    /\ keys \subseteq Clients
    /\ byAddress \in [Addresses -> Clients \union {NoClient}]
    /\ byUid \subseteq Clients
    /\ events \in [Clients -> Nat]
    /\ reused \in BOOLEAN
    /\ broken \in BOOLEAN
    /\ \A t \in Callers : pc[t] # "idle" => target[t] \in Clients

\* _currentClientCount is the number of contexts.
Books == IsFiniteSet(live) /\ count = Cardinality(live)

\* The mark of a context that exists, and of one that was never made.
Held(c) ==
    /\ c \in keys => c \in live
    /\ accept[c] \in {"none", "completed", "admitted", "rejected"} => c \notin live
    /\ \/ accept[c] \in {"created", "bound", "starved", "unbound"}
       \/ accept[c] = "done" /\ read[c] # "none"
       => c \in keys

\* The disconnect event runs when the READ that found the client lost is handled.
Reported(c) ==
    /\ accept[c] # "done" => read[c] = "none"
    /\ events[c] = IF accept[c] = "done" /\ read[c] \in {"leaving", "none"} THEN 1 ELSE 0
    /\ events[c] = 1 => c \notin byUid /\ ~InCall("uid", c)

\* Unless an address was reused, it leads to the client that is to be released.
Registered(c) ==
    ~reused /\ (accept[c] = "bound" \/ read[c] # "none") => byAddress[Address[c]] = c

Admitted == {c \in Clients : accept[c] = "admitted"}

\* Clients that were let in and not counted yet are among those being accepted.
Bounded ==
    /\ IsFiniteSet(Accepting) /\ Cardinality(Accepting) <= Accepts
    /\ Limit > 0 => count + Cardinality(Admitted) <= Limit + Accepts - 1

Life == \A c \in Clients : Held(c) /\ Reported(c) /\ Registered(c)

\* The inductive invariant.
IInv == Typed /\ Books /\ Life /\ Bounded /\ BreaksOnlyAfterReuse
-----------------------------------------------------------------------------
LEMMA InitIInv == Init => IInv
<1> SUFFICES ASSUME Init PROVE IInv
  OBVIOUS
<1>1. Typed
  BY DEF Init, Typed
<1>2. Books
  BY FS_EmptySet DEF Init, Books
<1>3. Life
  BY DEF Init, Life, Held, Reported, Registered, InCall
<1>4. Accepting = {} /\ Admitted = {}
  BY DEF Init, Accepting, Admitted
<1>5. Bounded
  BY <1>4, FS_EmptySet, LimitAssumption, AcceptsAssumption DEF Init, Bounded
<1> QED BY <1>1, <1>2, <1>3, <1>5 DEF IInv, Init, BreaksOnlyAfterReuse

\* Reap keeps the count, and the contexts that a key refers to.
LEMMA Reaped ==
    ASSUME Books, Reap
    PROVE  /\ live' \subseteq live /\ Books'
           /\ \A c \in live : c \in keys' => c \in live'
<1> DEFINE gone == {c \in live : ~Referenced(c)'}
<1>1. live' = live \ gone /\ gone \subseteq live
  BY DEF Reap
<1>2. IsFiniteSet(live') /\ Cardinality(live') = Cardinality(live) - Cardinality(live \cap gone)
  BY <1>1, FS_Difference DEF Books
<1>3. live \cap gone = gone
  BY <1>1
<1>4. count' = count - Cardinality(gone)
  BY DEF Reap
<1>5. \A c \in live : c \in keys' => c \in live'
  BY DEF Reap, Referenced
<1> QED BY <1>1, <1>2, <1>3, <1>4, <1>5 DEF Books
-----------------------------------------------------------------------------
LEMMA TypedNext ==
    ASSUME Typed, Next
    PROVE  Typed'
<1> USE AddressAssumption DEF Typed, calls, contexts, maps
<1>1. ASSUME NEW c \in Clients, Connect(c) PROVE Typed'
  BY <1>1 DEF Connect
<1>2. ASSUME NEW c \in Clients, PeerCloses(c) PROVE Typed'
  BY <1>2 DEF PeerCloses
<1>3. ASSUME NEW c \in Clients, ReadData(c) PROVE Typed'
  BY <1>3 DEF ReadData
<1>4. ASSUME NEW c \in Clients, Admit(c) PROVE Typed'
  BY <1>4 DEF Admit
<1>5. ASSUME NEW c \in Clients, Reject(c) PROVE Typed'
  BY <1>5 DEF Reject
<1>6. ASSUME NEW c \in Clients, Create(c) PROVE Typed'
  BY <1>6 DEF Create
<1>7. ASSUME NEW c \in Clients, Register(c) PROVE Typed'
  <2>1. accept' \in [Clients -> {"none", "completed", "admitted", "created", "bound", "done",
                                 "rejected", "unbound", "starved", "refused"}]
    BY <1>7 DEF Register
  <2>2. byAddress' \in [Addresses -> Clients \union {NoClient}] /\ reused' \in BOOLEAN
    BY <1>7 DEF Register
  <2> QED BY <1>7, <2>1, <2>2 DEF Register
<1>8. ASSUME NEW c \in Clients, BindFails(c) PROVE Typed'
  BY <1>8 DEF BindFails, Reap
<1>9. ASSUME NEW c \in Clients, FirstRead(c) PROVE Typed'
  BY <1>9 DEF FirstRead
<1>10. ASSUME NEW c \in Clients, FirstReadStarved(c) PROVE Typed'
  BY <1>10 DEF FirstReadStarved
<1>11. ASSUME NEW c \in Clients, FirstReadFails(c) PROVE Typed'
  BY <1>11 DEF FirstReadFails, Unregister, Reap
<1>12. ASSUME NEW c \in Clients, ReadZero(c) PROVE Typed'
  BY <1>12 DEF ReadZero
<1>13. ASSUME NEW c \in Clients, NextRead(c) PROVE Typed'
  BY <1>13 DEF NextRead
<1>14. ASSUME NEW c \in Clients, NextReadFails(c) PROVE Typed'
  BY <1>14 DEF NextReadFails
<1>15. ASSUME NEW c \in Clients, DisconnectEvent(c) PROVE Typed'
  BY <1>15 DEF DisconnectEvent
<1>16. ASSUME NEW c \in Clients, ReleaseClient(c) PROVE Typed'
  BY <1>16 DEF ReleaseClient, Unregister, Reap
<1>17. ASSUME NEW c \in Clients, DisconnectDone(c) PROVE Typed'
  BY <1>17 DEF DisconnectDone, Reap
<1>18. ASSUME NEW t \in Callers, DisconnectEx(t) PROVE Typed'
  BY <1>18 DEF DisconnectEx
<1>19. ASSUME NEW t \in Callers, DisconnectExFails(t) PROVE Typed'
  BY <1>19 DEF DisconnectExFails, Return, Reap
<1>20. ASSUME NEW t \in Callers, MarkDisconnected(t) PROVE Typed'
  BY <1>20 DEF MarkDisconnected, Return, Reap
<1>21. ASSUME NEW t \in Callers, NEW c \in Clients, Disconnect(t, c)
       PROVE Typed'
  BY <1>21 DEF Disconnect
<1> QED BY <1>1, <1>2, <1>3, <1>4, <1>5, <1>6, <1>7, <1>8, <1>9, <1>10, <1>11,
           <1>12, <1>13, <1>14, <1>15, <1>16, <1>17, <1>18, <1>19, <1>20, <1>21
       DEF Next, AcceptStep, ReadStep, CallStep

\* A context is counted when it is made and uncounted by its destructor.
LEMMA BooksNext ==
    ASSUME Typed, Books, Life, Next
    PROVE  Books'
<1>1. CASE UNCHANGED contexts
  BY <1>1 DEF contexts, Books
<1>2. CASE Reap
  BY <1>2, Reaped
<1>3. ASSUME NEW c \in Clients, Create(c) PROVE Books'
  <2>1. c \notin live /\ count' = count + 1 /\ live' = live \union {c}
    BY <1>3 DEF Create, Life, Held
  <2> QED BY <2>1, FS_AddElement DEF Books
<1> QED BY <1>1, <1>2, <1>3
       DEF Next, AcceptStep, ReadStep, CallStep, Connect, PeerCloses, ReadData, Admit, Reject,
           Register, BindFails, FirstRead, FirstReadStarved, FirstReadFails, ReadZero, NextRead,
           NextReadFails, DisconnectEvent, ReleaseClient, DisconnectDone, DisconnectEx,
           DisconnectExFails, MarkDisconnected, Disconnect

\* A key is made with its context and is given up when the READ has been handled.
LEMMA HeldNext ==
    ASSUME Typed, Books, Life, Next
    PROVE  \A d \in Clients : Held(d)'
<1>0. Reap => live' \subseteq live /\ \A c \in live : c \in keys' => c \in live'
  BY Reaped
<1> USE DEF Typed, Held, Life, calls, contexts, maps
<1>1. ASSUME NEW c \in Clients, Connect(c) PROVE \A d \in Clients : Held(d)'
  BY <1>1, <1>0 DEF Connect
<1>2. ASSUME NEW c \in Clients, PeerCloses(c) PROVE \A d \in Clients : Held(d)'
  BY <1>2, <1>0 DEF PeerCloses
<1>3. ASSUME NEW c \in Clients, ReadData(c) PROVE \A d \in Clients : Held(d)'
  BY <1>3, <1>0 DEF ReadData
<1>4. ASSUME NEW c \in Clients, Admit(c) PROVE \A d \in Clients : Held(d)'
  BY <1>4, <1>0 DEF Admit
<1>5. ASSUME NEW c \in Clients, Reject(c) PROVE \A d \in Clients : Held(d)'
  BY <1>5, <1>0 DEF Reject
<1>6. ASSUME NEW c \in Clients, Create(c) PROVE \A d \in Clients : Held(d)'
  BY <1>6, <1>0 DEF Create
<1>7. ASSUME NEW c \in Clients, Register(c) PROVE \A d \in Clients : Held(d)'
  BY <1>7, <1>0 DEF Register
<1>8. ASSUME NEW c \in Clients, BindFails(c) PROVE \A d \in Clients : Held(d)'
  BY <1>8, <1>0 DEF BindFails
<1>9. ASSUME NEW c \in Clients, FirstRead(c) PROVE \A d \in Clients : Held(d)'
  BY <1>9, <1>0 DEF FirstRead
<1>10. ASSUME NEW c \in Clients, FirstReadStarved(c) PROVE \A d \in Clients : Held(d)'
  BY <1>10, <1>0 DEF FirstReadStarved
<1>11. ASSUME NEW c \in Clients, FirstReadFails(c) PROVE \A d \in Clients : Held(d)'
  BY <1>11, <1>0 DEF FirstReadFails
<1>12. ASSUME NEW c \in Clients, ReadZero(c) PROVE \A d \in Clients : Held(d)'
  BY <1>12, <1>0 DEF ReadZero
<1>13. ASSUME NEW c \in Clients, NextRead(c) PROVE \A d \in Clients : Held(d)'
  BY <1>13, <1>0 DEF NextRead
<1>14. ASSUME NEW c \in Clients, NextReadFails(c) PROVE \A d \in Clients : Held(d)'
  BY <1>14, <1>0 DEF NextReadFails
<1>15. ASSUME NEW c \in Clients, DisconnectEvent(c) PROVE \A d \in Clients : Held(d)'
  BY <1>15, <1>0 DEF DisconnectEvent
<1>16. ASSUME NEW c \in Clients, ReleaseClient(c) PROVE \A d \in Clients : Held(d)'
  BY <1>16, <1>0 DEF ReleaseClient, Reported
<1>17. ASSUME NEW c \in Clients, DisconnectDone(c) PROVE \A d \in Clients : Held(d)'
  BY <1>17, <1>0 DEF DisconnectDone
<1>18. ASSUME NEW t \in Callers, DisconnectEx(t) PROVE \A d \in Clients : Held(d)'
  BY <1>18, <1>0 DEF DisconnectEx
<1>19. ASSUME NEW t \in Callers, DisconnectExFails(t) PROVE \A d \in Clients : Held(d)'
  BY <1>19, <1>0 DEF DisconnectExFails
<1>20. ASSUME NEW t \in Callers, MarkDisconnected(t) PROVE \A d \in Clients : Held(d)'
  BY <1>20, <1>0 DEF MarkDisconnected
<1>21. ASSUME NEW t \in Callers, NEW c \in Clients, Disconnect(t, c)
       PROVE \A d \in Clients : Held(d)'
  BY <1>21, <1>0 DEF Disconnect
<1> QED BY <1>1, <1>2, <1>3, <1>4, <1>5, <1>6, <1>7, <1>8, <1>9, <1>10, <1>11,
           <1>12, <1>13, <1>14, <1>15, <1>16, <1>17, <1>18, <1>19, <1>20, <1>21
       DEF Next, AcceptStep, ReadStep, CallStep

\* The disconnect event runs once, with the lock of the client's uid.
LEMMA ReportedNext ==
    ASSUME Typed, Life, Next
    PROVE  \A d \in Clients : Reported(d)'
<1> USE DEF Typed, Reported, Life, InCall, calls, contexts, maps
<1>1. ASSUME NEW c \in Clients, Connect(c) PROVE \A d \in Clients : Reported(d)'
  BY <1>1 DEF Connect
<1>2. ASSUME NEW c \in Clients, PeerCloses(c) PROVE \A d \in Clients : Reported(d)'
  BY <1>2 DEF PeerCloses
<1>3. ASSUME NEW c \in Clients, ReadData(c) PROVE \A d \in Clients : Reported(d)'
  BY <1>3 DEF ReadData
<1>4. ASSUME NEW c \in Clients, Admit(c) PROVE \A d \in Clients : Reported(d)'
  BY <1>4 DEF Admit
<1>5. ASSUME NEW c \in Clients, Reject(c) PROVE \A d \in Clients : Reported(d)'
  BY <1>5 DEF Reject
<1>6. ASSUME NEW c \in Clients, Create(c) PROVE \A d \in Clients : Reported(d)'
  BY <1>6 DEF Create
<1>7. ASSUME NEW c \in Clients, Register(c) PROVE \A d \in Clients : Reported(d)'
  BY <1>7 DEF Register
<1>8. ASSUME NEW c \in Clients, BindFails(c) PROVE \A d \in Clients : Reported(d)'
  BY <1>8 DEF BindFails
<1>9. ASSUME NEW c \in Clients, FirstRead(c) PROVE \A d \in Clients : Reported(d)'
  BY <1>9 DEF FirstRead
<1>10. ASSUME NEW c \in Clients, FirstReadStarved(c) PROVE \A d \in Clients : Reported(d)'
  BY <1>10 DEF FirstReadStarved
<1>11. ASSUME NEW c \in Clients, FirstReadFails(c) PROVE \A d \in Clients : Reported(d)'
  BY <1>11 DEF FirstReadFails
<1>12. ASSUME NEW c \in Clients, ReadZero(c) PROVE \A d \in Clients : Reported(d)'
  BY <1>12 DEF ReadZero
<1>13. ASSUME NEW c \in Clients, NextRead(c) PROVE \A d \in Clients : Reported(d)'
  BY <1>13 DEF NextRead
<1>14. ASSUME NEW c \in Clients, NextReadFails(c) PROVE \A d \in Clients : Reported(d)'
  BY <1>14 DEF NextReadFails
<1>15. ASSUME NEW c \in Clients, DisconnectEvent(c) PROVE \A d \in Clients : Reported(d)'
  BY <1>15 DEF DisconnectEvent
<1>16. ASSUME NEW c \in Clients, ReleaseClient(c) PROVE \A d \in Clients : Reported(d)'
  BY <1>16 DEF ReleaseClient
<1>17. ASSUME NEW c \in Clients, DisconnectDone(c) PROVE \A d \in Clients : Reported(d)'
  BY <1>17 DEF DisconnectDone
<1>18. ASSUME NEW t \in Callers, DisconnectEx(t) PROVE \A d \in Clients : Reported(d)'
  BY <1>18 DEF DisconnectEx
<1>19. ASSUME NEW t \in Callers, DisconnectExFails(t) PROVE \A d \in Clients : Reported(d)'
  BY <1>19 DEF DisconnectExFails, Return
<1>20. ASSUME NEW t \in Callers, MarkDisconnected(t) PROVE \A d \in Clients : Reported(d)'
  BY <1>20 DEF MarkDisconnected, Return
<1>21. ASSUME NEW t \in Callers, NEW c \in Clients, Disconnect(t, c)
       PROVE \A d \in Clients : Reported(d)'
  <2>1. t = "uid" => c \in byUid
    BY <1>21 DEF Disconnect, CanReach
  <2>2. pc' = [pc EXCEPT ![t] = "issuing"] /\ target' = [target EXCEPT ![t] = c]
    BY <1>21 DEF Disconnect
  <2>3. UNCHANGED <<accept, read, events, byUid>>
    BY <1>21 DEF Disconnect
  <2>4. ASSUME NEW d \in Clients, events[d] = 1, InCall("uid", d)' PROVE FALSE
    <3>1. CASE t = "uid"
      BY <2>1, <2>2, <2>4, <3>1
    <3>2. CASE t # "uid"
      <4>1. pc'["uid"] = pc["uid"] /\ target'["uid"] = target["uid"]
        BY <2>2, <2>4, <3>2
      <4> QED BY <2>4, <4>1
    <3> QED BY <3>1, <3>2
  <2> QED BY <2>3, <2>4
<1> QED BY <1>1, <1>2, <1>3, <1>4, <1>5, <1>6, <1>7, <1>8, <1>9, <1>10, <1>11,
           <1>12, <1>13, <1>14, <1>15, <1>16, <1>17, <1>18, <1>19, <1>20, <1>21
       DEF Next, AcceptStep, ReadStep, CallStep

\* ReleaseClient removes the address of the client it releases, or one was reused.
LEMMA RegisteredNext ==
    ASSUME Typed, Life, Next
    PROVE  \A d \in Clients : Registered(d)'
<1> USE AddressAssumption, NoClientAssumption
       DEF Typed, Registered, Reported, Life, calls, contexts, maps
<1>1. ASSUME NEW c \in Clients, Connect(c) PROVE \A d \in Clients : Registered(d)'
  BY <1>1 DEF Connect
<1>2. ASSUME NEW c \in Clients, PeerCloses(c) PROVE \A d \in Clients : Registered(d)'
  BY <1>2 DEF PeerCloses
<1>3. ASSUME NEW c \in Clients, ReadData(c) PROVE \A d \in Clients : Registered(d)'
  BY <1>3 DEF ReadData
<1>4. ASSUME NEW c \in Clients, Admit(c) PROVE \A d \in Clients : Registered(d)'
  BY <1>4 DEF Admit
<1>5. ASSUME NEW c \in Clients, Reject(c) PROVE \A d \in Clients : Registered(d)'
  BY <1>5 DEF Reject
<1>6. ASSUME NEW c \in Clients, Create(c) PROVE \A d \in Clients : Registered(d)'
  BY <1>6 DEF Create
<1>7. ASSUME NEW c \in Clients, Register(c) PROVE \A d \in Clients : Registered(d)'
  BY <1>7 DEF Register
<1>8. ASSUME NEW c \in Clients, BindFails(c) PROVE \A d \in Clients : Registered(d)'
  <2>1. byAddress' = [byAddress EXCEPT ![Address[c]] = NoClient]
        /\ reused' = (reused \/ byAddress[Address[c]] # NoClient)
        /\ UNCHANGED read /\ accept' = [accept EXCEPT ![c] = "unbound"] /\ accept[c] = "created"
    BY <1>8 DEF BindFails
  <2>2. ASSUME NEW d \in Clients, ~reused', accept'[d] = "bound" \/ read'[d] # "none"
        PROVE  byAddress'[Address[d]] = d
    <3>1. ~reused /\ byAddress[Address[c]] = NoClient
      BY <2>1, <2>2
    <3>2. d # c /\ (accept[d] = "bound" \/ read[d] # "none")
      BY <2>1, <2>2
    <3>3. byAddress[Address[d]] = d
      BY <3>1, <3>2
    <3>4. Address[d] # Address[c]
      BY <3>1, <3>3
    <3>5. Address[d] \in Addresses /\ Address[c] \in Addresses
      OBVIOUS
    <3> QED BY <2>1, <3>3, <3>4, <3>5
  <2> QED BY <2>2
<1>9. ASSUME NEW c \in Clients, FirstRead(c) PROVE \A d \in Clients : Registered(d)'
  BY <1>9 DEF FirstRead
<1>10. ASSUME NEW c \in Clients, FirstReadStarved(c) PROVE \A d \in Clients : Registered(d)'
  BY <1>10 DEF FirstReadStarved
<1>11. ASSUME NEW c \in Clients, FirstReadFails(c) PROVE \A d \in Clients : Registered(d)'
  BY <1>11 DEF FirstReadFails, Unregister
<1>12. ASSUME NEW c \in Clients, ReadZero(c) PROVE \A d \in Clients : Registered(d)'
  BY <1>12 DEF ReadZero
<1>13. ASSUME NEW c \in Clients, NextRead(c) PROVE \A d \in Clients : Registered(d)'
  BY <1>13 DEF NextRead
<1>14. ASSUME NEW c \in Clients, NextReadFails(c) PROVE \A d \in Clients : Registered(d)'
  BY <1>14 DEF NextReadFails
<1>15. ASSUME NEW c \in Clients, DisconnectEvent(c) PROVE \A d \in Clients : Registered(d)'
  BY <1>15 DEF DisconnectEvent
<1>16. ASSUME NEW c \in Clients, ReleaseClient(c) PROVE \A d \in Clients : Registered(d)'
  BY <1>16 DEF ReleaseClient, Unregister
<1>17. ASSUME NEW c \in Clients, DisconnectDone(c) PROVE \A d \in Clients : Registered(d)'
  BY <1>17 DEF DisconnectDone
<1>18. ASSUME NEW t \in Callers, DisconnectEx(t) PROVE \A d \in Clients : Registered(d)'
  BY <1>18 DEF DisconnectEx
<1>19. ASSUME NEW t \in Callers, DisconnectExFails(t) PROVE \A d \in Clients : Registered(d)'
  BY <1>19 DEF DisconnectExFails
<1>20. ASSUME NEW t \in Callers, MarkDisconnected(t) PROVE \A d \in Clients : Registered(d)'
  BY <1>20 DEF MarkDisconnected
<1>21. ASSUME NEW t \in Callers, NEW c \in Clients, Disconnect(t, c)
       PROVE \A d \in Clients : Registered(d)'
  BY <1>21 DEF Disconnect
<1> QED BY <1>1, <1>2, <1>3, <1>4, <1>5, <1>6, <1>7, <1>8, <1>9, <1>10, <1>11,
           <1>12, <1>13, <1>14, <1>15, <1>16, <1>17, <1>18, <1>19, <1>20, <1>21
       DEF Next, AcceptStep, ReadStep, CallStep

LEMMA AdmittedFinite ==
    ASSUME Bounded
    PROVE  /\ IsFiniteSet(Admitted)
           /\ Cardinality(Admitted) \in Nat
           /\ Cardinality(Accepting) \in Nat
           /\ Cardinality(Admitted) <= Cardinality(Accepting)
<1>1. Admitted \subseteq Accepting
  BY DEF Admitted, Accepting
<1> QED BY <1>1, FS_Subset, FS_CardinalityType DEF Bounded

\* What neither accepts, admits nor counts a client keeps the bound.
LEMMA BoundKept ==
    ASSUME Typed, Books, Bounded, Accepting' \subseteq Accepting, Admitted' \subseteq Admitted,
           (UNCHANGED contexts) \/ Reap
    PROVE  Bounded'
<1>1. IsFiniteSet(Accepting') /\ Cardinality(Accepting') <= Cardinality(Accepting)
      /\ Cardinality(Accepting') \in Nat
  BY FS_Subset, FS_CardinalityType DEF Bounded
<1>2. Cardinality(Admitted') <= Cardinality(Admitted) /\ Cardinality(Admitted') \in Nat
  BY AdmittedFinite, FS_Subset, FS_CardinalityType
<1>3. count' <= count /\ count' \in Nat /\ count \in Nat
  <2>1. CASE UNCHANGED contexts
    BY <2>1, FS_CardinalityType DEF contexts, Books
  <2>2. CASE Reap
    <3>1. live' \subseteq live /\ Books'
      BY <2>2, Reaped
    <3> QED BY <3>1, FS_Subset, FS_CardinalityType DEF Books
  <2> QED BY <2>1, <2>2
<1>4. Cardinality(Admitted) \in Nat /\ Cardinality(Accepting) \in Nat
  BY AdmittedFinite
<1> QED BY <1>1, <1>2, <1>3, <1>4, LimitAssumption, AcceptsAssumption DEF Bounded

\* The limit is passed by those who were let in while others were: one AcceptEx less.
LEMMA BoundedNext ==
    ASSUME Typed, Books, Life, Bounded, Next
    PROVE  Bounded'
<1> DEFINE A == Cardinality(Admitted)
           P == Cardinality(Accepting)
<1>0. A \in Nat /\ P \in Nat /\ A <= P /\ count \in Nat /\ IsFiniteSet(Admitted)
  BY AdmittedFinite, FS_CardinalityType DEF Books
<1>1. ASSUME NEW c \in Clients, Connect(c) PROVE Bounded'
  <2>1. accept[c] = "none" /\ P < Accepts /\ accept' = [accept EXCEPT ![c] = "completed"]
        /\ count' = count
    BY <1>1 DEF Connect, contexts
  <2>2. Admitted' = Admitted
    BY <2>1 DEF Typed, Admitted
  <2>3. Accepting' = Accepting \union {c} /\ c \notin Accepting
    BY <2>1 DEF Typed, Accepting
  <2>4. IsFiniteSet(Accepting') /\ Cardinality(Accepting') = P + 1
    BY <2>3, FS_AddElement DEF Bounded
  <2> QED BY <2>1, <2>2, <2>4, <1>0, AcceptsAssumption DEF Bounded
<1>2. ASSUME NEW c \in Clients, Admit(c) PROVE Bounded'
  <2>1. accept[c] = "completed" /\ ~IsReachedMaximumClient
        /\ accept' = [accept EXCEPT ![c] = "admitted"] /\ count' = count
    BY <1>2 DEF Admit, contexts
  <2>2. Accepting' = Accepting
    BY <2>1 DEF Typed, Accepting
  <2>3. Admitted' \subseteq Accepting'
    BY DEF Admitted, Accepting
  <2>4. Cardinality(Admitted') <= P /\ Cardinality(Admitted') \in Nat
    BY <2>2, <2>3, FS_Subset, FS_CardinalityType DEF Bounded
  <2>5. Limit > 0 => count <= Limit - 1
    BY <2>1, <1>0, LimitAssumption DEF IsReachedMaximumClient
  <2> QED BY <2>1, <2>2, <2>4, <2>5, <1>0, LimitAssumption, AcceptsAssumption DEF Bounded
<1>3. ASSUME NEW c \in Clients, Create(c) PROVE Bounded'
  <2>1. accept[c] = "admitted" /\ accept' = [accept EXCEPT ![c] = "created"]
        /\ count' = count + 1
    BY <1>3 DEF Create
  <2>2. Accepting' = Accepting
    BY <2>1 DEF Typed, Accepting
  <2>3. Admitted' = Admitted \ {c} /\ c \in Admitted
    BY <2>1 DEF Typed, Admitted
  <2>4. Cardinality(Admitted') = A - 1
    BY <2>3, <1>0, FS_RemoveElement
  <2> QED BY <2>1, <2>2, <2>4, <1>0, LimitAssumption, AcceptsAssumption DEF Bounded
<1>4. ASSUME NEW c \in Clients,
             Reject(c) \/ Register(c) \/ BindFails(c) \/ FirstRead(c) \/ FirstReadStarved(c)
               \/ FirstReadFails(c)
      PROVE Bounded'
  <2>1. /\ \E v \in {"rejected", "bound", "unbound", "done", "starved", "refused"} :
               accept' = [accept EXCEPT ![c] = v]
        /\ accept[c] \in {"completed", "created", "bound"}
        /\ (UNCHANGED contexts) \/ Reap
    BY <1>4 DEF Reject, Register, BindFails, FirstRead, FirstReadStarved, FirstReadFails
  <2>2. Accepting' \subseteq Accepting /\ Admitted' \subseteq Admitted
    BY <2>1 DEF Typed, Accepting, Admitted
  <2> QED BY <2>1, <2>2, BoundKept
<1>5. ASSUME (UNCHANGED contexts) \/ Reap, UNCHANGED accept PROVE Bounded'
  <2>1. Accepting' = Accepting /\ Admitted' = Admitted
    BY <1>5 DEF Accepting, Admitted
  <2> QED BY <1>5, <2>1, BoundKept
<1> QED BY <1>1, <1>2, <1>3, <1>4, <1>5
       DEF Next, AcceptStep, ReadStep, CallStep, PeerCloses, ReadData, ReadZero, NextRead,
           NextReadFails, DisconnectEvent, ReleaseClient, DisconnectDone, DisconnectEx,
           DisconnectExFails, MarkDisconnected, Disconnect

LEMMA BreaksNext ==
    ASSUME Typed, Life, BreaksOnlyAfterReuse, Next
    PROVE  BreaksOnlyAfterReuse'
<1> USE DEF BreaksOnlyAfterReuse, maps
<1>1. ASSUME NEW c \in Clients, FirstReadFails(c) \/ ReleaseClient(c) PROVE BreaksOnlyAfterReuse'
  <2>1. Unregister(c) /\ reused' = reused /\ (accept[c] = "bound" \/ read[c] # "none")
    BY <1>1 DEF FirstReadFails, ReleaseClient
  <2>2. ~reused => byAddress[Address[c]] = c
    BY <2>1 DEF Life, Registered
  <2> QED BY <2>1, <2>2, NoClientAssumption DEF Unregister
<1>2. ASSUME NEW c \in Clients, Register(c) \/ BindFails(c) PROVE BreaksOnlyAfterReuse'
  BY <1>2 DEF Register, BindFails, Typed
<1>3. CASE UNCHANGED <<reused, broken>>
  BY <1>3
<1> QED BY <1>1, <1>2, <1>3
       DEF Next, AcceptStep, ReadStep, CallStep, Connect, PeerCloses, ReadData, Admit, Reject,
           Create, FirstRead, FirstReadStarved, ReadZero, NextRead, NextReadFails,
           DisconnectEvent, DisconnectDone, DisconnectEx, DisconnectExFails, MarkDisconnected,
           Disconnect
-----------------------------------------------------------------------------
LEMMA NextIInv == IInv /\ [Next]_vars => IInv'
<1> SUFFICES ASSUME IInv, [Next]_vars PROVE IInv'
  OBVIOUS
<1>1. CASE Next
  BY <1>1, TypedNext, BooksNext, HeldNext, ReportedNext, RegisteredNext, BoundedNext, BreaksNext
     DEF IInv, Life
<1>2. CASE UNCHANGED vars
  <2>1. Typed' /\ Books' /\ BreaksOnlyAfterReuse'
    BY <1>2 DEF IInv, vars, Typed, Books, BreaksOnlyAfterReuse
  <2>2. Life'
    BY <1>2 DEF IInv, vars, Life, Held, Reported, Registered, InCall
  <2>3. Bounded'
    BY <1>2 DEF IInv, vars, Bounded, Accepting, Admitted
  <2> QED BY <2>1, <2>2, <2>3 DEF IInv
<1> QED BY <1>1, <1>2

LEMMA Invariance == Spec => []IInv
<1>1. Init => IInv
  BY InitIInv
<1>2. IInv /\ [Next]_vars => IInv'
  BY NextIInv
<1> QED BY <1>1, <1>2, PTL DEF Spec
-----------------------------------------------------------------------------
(* A context without a key was reported, was refused, or never existed.    *)
LEMMA DeletedIsDone ==
    ASSUME IInv, NEW c \in Clients, Deleted(c), accept[c] # "refused"
    PROVE  events[c] = 1
<1>1. accept[c] = "done" /\ read[c] = "none"
  BY DEF IInv, Life, Held, Deleted
<1> QED BY <1>1 DEF IInv, Life, Reported

\* TypeOK: every component of the state has its type; _currentClientCount never
\* becomes negative, however tear-downs and admissions interleave.
THEOREM TypeCorrect == Spec => []TypeOK
<1>1. IInv => TypeOK
  BY FS_CardinalityType DEF IInv, Typed, Books, TypeOK
<1> QED BY <1>1, Invariance, PTL

\* AdmissionBound (IsReachedMaximumClient before the client is counted): the limit is
\* passed by at most one less than the AcceptEx operations posted.
THEOREM LimitHolds == Spec => []AdmissionBound
<1>1. IInv => AdmissionBound
  BY AdmittedFinite, FS_CardinalityType, LimitAssumption, AcceptsAssumption
     DEF IInv, Books, Bounded, AdmissionBound
<1> QED BY <1>1, Invariance, PTL

\* DisconnectEventOnce (OnClientDisconnect): however a client is lost, its event runs at
\* most once, and before its context is deleted unless its first READ failed.
THEOREM EventOnce == Spec => []DisconnectEventOnce
<1>1. IInv => DisconnectEventOnce
  BY DeletedIsDone DEF IInv, Life, Reported, DisconnectEventOnce
<1> QED BY <1>1, Invariance, PTL

\* UidRefersToLive (_mapClients' plain pointers): a uid, and a thread that found one, leads
\* to a context that exists, unless its first READ failed.
THEOREM UidSafe == Spec => []UidRefersToLive
<1>1. IInv => UidRefersToLive
  BY DeletedIsDone DEF IInv, Life, Reported, UidRefersToLive
<1> QED BY <1>1, Invariance, PTL

\* BreaksOnlyAfterReuse (the DebugBreak in ReleaseClient): a client's address is missing only
\* when an address has been used by two contexts.
THEOREM BreakNeedsReuse == Spec => []BreaksOnlyAfterReuse
<1>1. IInv => BreaksOnlyAfterReuse
  BY DEF IInv
<1> QED BY <1>1, Invariance, PTL

=============================================================================
