------------------------- MODULE ServerRaces_proofs -------------------------
(***************************************************************************)
(* The workers that are busy, what survives Terminate, what a connection   *)
(* hangs by and who uses freed memory, for every number of listeners,      *)
(* peers, connections, sockets, threads and workers, with all parts of the *)
(* server at work at once.                                                 *)
(***************************************************************************)
EXTENDS Server_proofs, Induction

-----------------------------------------------------------------------------
(* The workers that are busy, and the types.                               *)

\* One unit for each count: the workers that are busy with the elements of S.
Units(f, S) == {x \in S \X Nat : x[2] < f[x[1]]}

LEMMA UnitsNone ==
    ASSUME NEW S, NEW f, \A s \in S : f[s] = 0
    PROVE  IsFiniteSet(Units(f, S)) /\ Cardinality(Units(f, S)) = 0
<1>1. Units(f, S) = {}
  <2> SUFFICES ASSUME NEW x \in Units(f, S) PROVE FALSE OBVIOUS
  <2>1. x[1] \in S /\ x[2] \in Nat /\ x[2] < f[x[1]] BY DEF Units
  <2> QED BY <2>1
<1> QED BY <1>1, FS_EmptySet

LEMMA UnitsAdd ==
    ASSUME NEW S, NEW f \in [S -> Nat], NEW s \in S, IsFiniteSet(Units(f, S))
    PROVE  /\ Add(f, s) \in [S -> Nat]
           /\ IsFiniteSet(Units(Add(f, s), S))
           /\ Cardinality(Units(Add(f, s), S)) = Cardinality(Units(f, S)) + 1
           /\ Cardinality(Units(f, S)) \in Nat
<1> DEFINE x == <<s, f[s]>>
           h == Add(f, s)
<1>1. f[s] \in Nat /\ f[s] + 1 \in Nat OBVIOUS
<1>2. h \in [S -> Nat] /\ h[s] = f[s] + 1 /\ \A r \in S \ {s} : h[r] = f[r]
  BY <1>1 DEF Add
<1> HIDE DEF h
<1>3. x \notin Units(f, S) BY <1>1 DEF Units
<1>4. Units(h, S) = Units(f, S) \union {x}
  <2>1. ASSUME NEW y \in S \X Nat PROVE y[2] < h[y[1]] <=> y[2] < f[y[1]] \/ y = x
    <3>1. y = <<y[1], y[2]>> /\ y[1] \in S /\ y[2] \in Nat OBVIOUS
    <3>2. CASE y[1] # s
      <4>1. y # x BY <3>1, <3>2
      <4>2. h[y[1]] = f[y[1]] BY <1>2, <3>1, <3>2
      <4> QED BY <4>1, <4>2
    <3>3. CASE y[1] = s
      <4>1. y[2] < f[s] + 1 <=> y[2] < f[s] \/ y[2] = f[s] BY <1>1, <3>1
      <4>2. y = x <=> y[2] = f[s] BY <3>1, <3>3
      <4> QED BY <1>2, <3>3, <4>1, <4>2
    <3> QED BY <3>2, <3>3
  <2>2. x \in S \X Nat BY <1>1
  <2> QED BY <2>1, <2>2 DEF Units
<1> HIDE DEF x
<1>5. /\ IsFiniteSet(Units(f, S) \union {x})
      /\ Cardinality(Units(f, S) \union {x}) = Cardinality(Units(f, S)) + 1
  BY <1>3, FS_AddElement
<1>6. Cardinality(Units(f, S)) \in Nat BY FS_CardinalityType
<1> QED BY <1>2, <1>4, <1>5, <1>6 DEF h

LEMMA UnitsMore ==
    ASSUME NEW S, NEW f \in [S -> Nat], NEW s \in S, NEW h, h = [f EXCEPT ![s] = f[s] + 1],
           IsFiniteSet(Units(f, S))
    PROVE  /\ h \in [S -> Nat]
           /\ IsFiniteSet(Units(h, S))
           /\ Cardinality(Units(h, S)) = Cardinality(Units(f, S)) + 1
           /\ Cardinality(Units(f, S)) \in Nat
<1>1. h = Add(f, s) BY Zenon DEF Add
<1>2. /\ Add(f, s) \in [S -> Nat]
      /\ IsFiniteSet(Units(Add(f, s), S))
      /\ Cardinality(Units(Add(f, s), S)) = Cardinality(Units(f, S)) + 1
      /\ Cardinality(Units(f, S)) \in Nat
  BY UnitsAdd
<1> QED BY <1>1, <1>2, Zenon

\* The same in the operators of the listener, and of a unit taken away.
LEMMA UnitsInc ==
    ASSUME NEW S, NEW f \in [S -> Nat], NEW s \in S, IsFiniteSet(Units(f, S))
    PROVE  /\ IsFiniteSet(Units(Inc(f, s), S))
           /\ Cardinality(Units(Inc(f, s), S)) = Cardinality(Units(f, S)) + 1
<1>1. Inc(f, s) = Add(f, s) BY Zenon DEF Inc, Add
<1>2. /\ IsFiniteSet(Units(Add(f, s), S))
      /\ Cardinality(Units(Add(f, s), S)) = Cardinality(Units(f, S)) + 1
  BY UnitsAdd
<1> QED BY <1>1, <1>2, Zenon

LEMMA UnitsDec ==
    ASSUME NEW S, NEW f \in [S -> Nat], NEW s \in S, f[s] > 0, IsFiniteSet(Units(f, S))
    PROVE  /\ Dec(f, s) \in [S -> Nat]
           /\ IsFiniteSet(Units(Dec(f, s), S))
           /\ Cardinality(Units(Dec(f, s), S)) = Cardinality(Units(f, S)) - 1
           /\ Cardinality(Units(f, S)) \in Nat
<1> DEFINE h == Dec(f, s)
<1>0. h = [f EXCEPT ![s] = f[s] - 1] BY DEF Dec
<1> HIDE DEF h
<1>1. f[s] \in Nat /\ f[s] - 1 \in Nat /\ (f[s] - 1) + 1 = f[s] OBVIOUS
<1>2. h \in [S -> Nat] /\ h[s] = f[s] - 1 BY <1>0, <1>1
<1>3. f = [h EXCEPT ![s] = h[s] + 1] BY <1>0, <1>1, <1>2
<1>4. Units(h, S) \subseteq Units(f, S)
  <2>1. \A r \in S : h[r] <= f[r] /\ h[r] \in Nat /\ f[r] \in Nat BY <1>0, <1>1, <1>2
  <2> SUFFICES ASSUME NEW x \in Units(h, S) PROVE x \in Units(f, S) OBVIOUS
  <2>2. x \in S \X Nat /\ x[1] \in S /\ x[2] \in Nat /\ x[2] < h[x[1]] BY DEF Units
  <2>3. x[2] < f[x[1]] BY <2>1, <2>2
  <2> QED BY <2>2, <2>3 DEF Units
<1>5. IsFiniteSet(Units(h, S)) BY <1>4, FS_Subset
<1>6. Cardinality(Units(f, S)) = Cardinality(Units(h, S)) + 1
      /\ Cardinality(Units(h, S)) \in Nat
  <2>1. f = Add(h, s) BY <1>3, Zenon DEF Add
  <2>2. /\ Cardinality(Units(Add(h, s), S)) = Cardinality(Units(h, S)) + 1
        /\ Cardinality(Units(h, S)) \in Nat
    BY <1>2, <1>5, UnitsAdd
  <2> QED BY <2>1, <2>2, Zenon
<1> QED BY <1>2, <1>5, <1>6, FS_CardinalityType DEF h

LEMMA UnitsFewer ==
    ASSUME NEW S, NEW f \in [S -> Nat], NEW s \in S, f[s] > 0, NEW h,
           h = [f EXCEPT ![s] = f[s] - 1], IsFiniteSet(Units(f, S))
    PROVE  /\ h \in [S -> Nat]
           /\ IsFiniteSet(Units(h, S))
           /\ Cardinality(Units(h, S)) = Cardinality(Units(f, S)) - 1
           /\ Cardinality(Units(f, S)) \in Nat
<1>1. h = Dec(f, s) BY Zenon DEF Dec
<1>2. /\ Dec(f, s) \in [S -> Nat]
      /\ IsFiniteSet(Units(Dec(f, s), S))
      /\ Cardinality(Units(Dec(f, s), S)) = Cardinality(Units(f, S)) - 1
      /\ Cardinality(Units(f, S)) \in Nat
  BY UnitsDec
<1> QED BY <1>1, <1>2, Zenon

\* Peers whose worker is busy.
Served(s) == s \in {"queued", "talking", "told"}
BusyPeers == {p \in Peers : Served(peer[p])}

\* The workers that are busy with a part, and that they are finitely many.
ListenersBusy ==
    Cardinality(Units(reposting, Listeners)) + Cardinality(Units(counting, Listeners))
        + Cardinality(BusyPeers)
ConnectionsBusy == Cardinality(Units(retrying, Connections)) + Cardinality(locked)
FolderBusy == IF rewatching THEN 1 ELSE 0

ListenersFinite ==
    /\ IsFiniteSet(Units(reposting, Listeners)) /\ IsFiniteSet(Units(counting, Listeners))
    /\ IsFiniteSet(BusyPeers)
ConnectionsFinite == IsFiniteSet(Units(retrying, Connections)) /\ IsFiniteSet(locked)

\* Every busy worker is inside a handler of one of the parts.
BusyInv ==
    /\ ListenersFinite /\ ConnectionsFinite
    /\ busy = ListenersBusy + ConnectionsBusy + delivering + FolderBusy

\* A step takes or gives back as many workers as it makes busy or idle.
Moves(b, c) ==
    /\ workers' = workers
    /\ busy' - busy = c - b
    /\ busy' <= busy \/ busy' <= workers
    /\ busy' \in Int

\* A worker becomes busy, stays busy, or becomes idle.
LEMMA PoolMoves ==
    ASSUME TypeOKServer, NEW b \in Int, NEW c \in Int,
           \/ UNCHANGED pool_vars /\ c = b
           \/ Take /\ c = b + 1
           \/ Finish /\ c = b - 1
    PROVE  Moves(b, c)
<1>1. busy \in Int /\ workers \in Int BY DEF TypeOKServer
<1> QED BY <1>1 DEF pool_vars, Take, Idle, Finish, Moves

\* What the listener does keeps its types.
LEMMA ListenerTyped ==
    ASSUME TypeOKServer, TypeOKListener, ListenerStep
    PROVE  TypeOKListener' /\ faults' \in 0 .. MaxFaults
<1> USE MaxFaultsAssumption
<1>0. faults' \in 0 .. MaxFaults
  <2>1. faults \in 0 .. MaxFaults BY DEF TypeOKServer
  <2>2. faults' = faults \/ Fault
    <3>1. ASSUME NEW l \in Listeners,
                 \/ BeginTcpServer(l) \/ Listen(l) \/ ListenFails(l) \/ BeginPosts(l)
                 \/ BeginCounts(l) \/ Repost(l) \/ Count(l) \/ AcceptAgain(l)
                 \/ AcceptAborted(l) \/ KillTcpServer(l)
                 \/ \E p \in Peers : AcceptCompletes(l, p)
          PROVE  faults' = faults \/ Fault
      BY <3>1, Zenon DEF BeginTcpServer, Listen, ListenFails, BeginPosts, BeginCounts, Repost,
                Count, AcceptAgain, AcceptAborted, AcceptFails, KillTcpServer,
                AcceptCompletes, Posted, NotPosted, server_vars
    <3>2. ASSUME NEW p \in Peers,
                 \/ Refuse(p) \/ Admit(p) \/ ClientData(p) \/ ClientDataDone(p)
                 \/ ClientLeaves(p)
          PROVE  faults' = faults
      BY <3>2, Zenon DEF Refuse, Admit, ClientData, ClientDataDone, ClientLeaves, Client,
                server_vars
    <3> QED BY <3>1, <3>2 DEF ListenerStep
  <2> QED BY <2>1, <2>2 DEF Fault
<1> USE DEF TypeOKListener, accept_vars, client_vars, Inc, Dec
<1>1. ASSUME NEW l \in Listeners,
             \/ BeginTcpServer(l) \/ Listen(l) \/ ListenFails(l) \/ KillTcpServer(l)
      PROVE  TypeOKListener'
  BY <1>1, PostsAssumption DEF BeginTcpServer, Listen, ListenFails, KillTcpServer
<1>2. ASSUME NEW l \in Listeners, BeginPosts(l) \/ BeginCounts(l)
      PROVE  TypeOKListener'
  BY <1>2 DEF BeginPosts, BeginCounts, Posted, NotPosted
<1>3. ASSUME NEW l \in Listeners, Repost(l) \/ Count(l) PROVE TypeOKListener'
  BY <1>3 DEF Repost, Count, Posted, NotPosted
<1>4. ASSUME NEW l \in Listeners, AcceptAgain(l) \/ AcceptAborted(l)
      PROVE  TypeOKListener'
  BY <1>4 DEF AcceptAgain, AcceptAborted, AcceptFails
<1>5. ASSUME NEW l \in Listeners, NEW p \in Peers, AcceptCompletes(l, p)
      PROVE  TypeOKListener'
  BY <1>5 DEF AcceptCompletes
<1>6. ASSUME NEW p \in Peers, Refuse(p) \/ Admit(p) PROVE TypeOKListener'
  BY <1>6 DEF Refuse, Admit
<1>7. ASSUME NEW p \in Peers, ClientData(p) \/ ClientDataDone(p) \/ ClientLeaves(p)
      PROVE  TypeOKListener'
  BY <1>7 DEF ClientData, ClientDataDone, ClientLeaves, Client
<1> QED BY <1>0, <1>1, <1>2, <1>3, <1>4, <1>5, <1>6, <1>7 DEF ListenerStep

\* A peer whose worker becomes busy, stays busy or becomes idle.
LEMMA PeerMoves ==
    ASSUME TypeOKListener, IsFiniteSet(BusyPeers), NEW p \in Peers, NEW s,
           peer' = [peer EXCEPT ![p] = s]
    PROVE  /\ IsFiniteSet(BusyPeers')
           /\ Cardinality(BusyPeers) \in Nat /\ Cardinality(BusyPeers') \in Nat
           /\ ~Served(peer[p]) /\ Served(s) =>
                Cardinality(BusyPeers') = Cardinality(BusyPeers) + 1
           /\ Served(peer[p]) /\ ~Served(s) =>
                Cardinality(BusyPeers') = Cardinality(BusyPeers) - 1
           /\ (Served(peer[p]) <=> Served(s)) =>
                Cardinality(BusyPeers') = Cardinality(BusyPeers)
<1> DEFINE was == Served(peer[p])
           is == Served(s)
<1>1. peer'[p] = s /\ \A q \in Peers \ {p} : peer'[q] = peer[q] BY DEF TypeOKListener
<1>2. p \in BusyPeers <=> was BY DEF BusyPeers
<1>3. BusyPeers' = IF is THEN BusyPeers \union {p} ELSE BusyPeers \ {p}
  BY <1>1 DEF BusyPeers
<1>4. was /\ is => BusyPeers' = BusyPeers BY <1>2, <1>3
<1>5. ~was /\ ~is => BusyPeers' = BusyPeers BY <1>2, <1>3
<1> HIDE DEF was, is
<1>6. Cardinality(BusyPeers) \in Nat BY FS_CardinalityType
<1>7. /\ IsFiniteSet(BusyPeers \union {p}) /\ IsFiniteSet(BusyPeers \ {p})
      /\ ~was => Cardinality(BusyPeers \union {p}) = Cardinality(BusyPeers) + 1
      /\ was => Cardinality(BusyPeers \ {p}) = Cardinality(BusyPeers) - 1
  BY <1>2, FS_AddElement, FS_RemoveElement
<1>8. IsFiniteSet(BusyPeers') BY <1>3, <1>7
<1>9. Cardinality(BusyPeers') \in Nat BY <1>8, FS_CardinalityType
<1>10. ~was /\ is => Cardinality(BusyPeers') = Cardinality(BusyPeers) + 1 BY <1>3, <1>7
<1>11. was /\ ~is => Cardinality(BusyPeers') = Cardinality(BusyPeers) - 1 BY <1>3, <1>7
<1>12. (was <=> is) => Cardinality(BusyPeers') = Cardinality(BusyPeers) BY <1>4, <1>5
<1> QED BY <1>6, <1>8, <1>9, <1>10, <1>11, <1>12 DEF was, is

\* A worker stays busy from the accept to the next one, and while a client is served.
LEMMA ListenerMoves ==
    ASSUME TypeOKServer, TypeOKListener, Accepted, ListenersFinite, ListenerStep
    PROVE  ListenersFinite' /\ Moves(ListenersBusy, ListenersBusy')
<1> DEFINE R == Cardinality(Units(reposting, Listeners))
           C == Cardinality(Units(counting, Listeners))
           P == Cardinality(BusyPeers)
<1>1. R \in Nat /\ C \in Nat /\ P \in Nat /\ ListenersBusy = R + C + P
  BY FS_CardinalityType DEF ListenersFinite, ListenersBusy
<1>2. reposting \in [Listeners -> Nat] /\ counting \in [Listeners -> Nat]
  BY DEF TypeOKListener
<1>3. ASSUME reposting' = reposting PROVE Units(reposting, Listeners)' = Units(reposting, Listeners)
  BY <1>3 DEF Units
<1>4. ASSUME counting' = counting PROVE Units(counting, Listeners)' = Units(counting, Listeners)
  BY <1>4 DEF Units
<1>5. ASSUME peer' = peer PROVE BusyPeers' = BusyPeers BY <1>5 DEF BusyPeers
<1>6. ASSUME NEW l \in Listeners, reposting' = Inc(reposting, l)
      PROVE  IsFiniteSet(Units(reposting, Listeners)') /\ R' = R + 1
  <2>1. reposting' = Inc(reposting, l) /\ IsFiniteSet(Units(reposting, Listeners))
    BY <1>6 DEF ListenersFinite
  <2>2. /\ IsFiniteSet(Units(Inc(reposting, l), Listeners))
        /\ Cardinality(Units(Inc(reposting, l), Listeners))
             = Cardinality(Units(reposting, Listeners)) + 1
    BY ONLY <1>2, <1>6, <2>1, UnitsInc
  <2> QED BY <2>1, <2>2, Zenon
<1>7. ASSUME NEW l \in Listeners, reposting[l] > 0, reposting' = Dec(reposting, l)
      PROVE  IsFiniteSet(Units(reposting, Listeners)') /\ R' = R - 1
  <2>1. reposting' = Dec(reposting, l) /\ IsFiniteSet(Units(reposting, Listeners))
    BY <1>7 DEF ListenersFinite
  <2>2. /\ IsFiniteSet(Units(Dec(reposting, l), Listeners))
        /\ Cardinality(Units(Dec(reposting, l), Listeners))
             = Cardinality(Units(reposting, Listeners)) - 1
    BY ONLY <1>2, <1>7, <2>1, UnitsDec
  <2> QED BY <2>1, <2>2, Zenon
<1>8. ASSUME NEW l \in Listeners, counting' = Inc(counting, l)
      PROVE  IsFiniteSet(Units(counting, Listeners)') /\ C' = C + 1
  <2>1. counting' = Inc(counting, l) /\ IsFiniteSet(Units(counting, Listeners))
    BY <1>8 DEF ListenersFinite
  <2>2. /\ IsFiniteSet(Units(Inc(counting, l), Listeners))
        /\ Cardinality(Units(Inc(counting, l), Listeners))
             = Cardinality(Units(counting, Listeners)) + 1
    BY ONLY <1>2, <1>8, <2>1, UnitsInc
  <2> QED BY <2>1, <2>2, Zenon
<1>9. ASSUME NEW l \in Listeners, counting[l] > 0, counting' = Dec(counting, l)
      PROVE  IsFiniteSet(Units(counting, Listeners)') /\ C' = C - 1
  <2>1. counting' = Dec(counting, l) /\ IsFiniteSet(Units(counting, Listeners))
    BY <1>9 DEF ListenersFinite
  <2>2. /\ IsFiniteSet(Units(Dec(counting, l), Listeners))
        /\ Cardinality(Units(Dec(counting, l), Listeners))
             = Cardinality(Units(counting, Listeners)) - 1
    BY ONLY <1>2, <1>9, <2>1, UnitsDec
  <2> QED BY <2>1, <2>2, Zenon
<1>10. ASSUME ListenersFinite', R' + C' + P' \in Int,
              \/ UNCHANGED pool_vars /\ R' + C' + P' = R + C + P
              \/ Take /\ R' + C' + P' = R + C + P + 1
              \/ Finish /\ R' + C' + P' = R + C + P - 1
       PROVE  ListenersFinite' /\ Moves(ListenersBusy, ListenersBusy')
  <2>1. ListenersBusy' = R' + C' + P' BY DEF ListenersBusy
  <2>2. ListenersBusy \in Int /\ ListenersBusy' \in Int BY <1>1, <1>10, <2>1
  <2> HIDE DEF R, C, P
  <2>3. \/ UNCHANGED pool_vars /\ ListenersBusy' = ListenersBusy
        \/ Take /\ ListenersBusy' = ListenersBusy + 1
        \/ Finish /\ ListenersBusy' = ListenersBusy - 1
    BY <1>1, <1>10, <2>1
  <2> QED BY <1>10, <2>2, <2>3, PoolMoves
<1>11. ASSUME UNCHANGED <<reposting, counting, peer, pool_vars>>
       PROVE  ListenersFinite' /\ Moves(ListenersBusy, ListenersBusy')
  <2>1. ListenersFinite' /\ R' = R /\ C' = C /\ P' = P
    BY <1>3, <1>4, <1>5, <1>11 DEF ListenersFinite
  <2> HIDE DEF R, C, P
  <2> QED BY <1>1, <1>10, <1>11, <2>1
<1>12. ASSUME NEW l \in Listeners,
              \/ BeginTcpServer(l) \/ Listen(l) \/ ListenFails(l) \/ BeginPosts(l)
              \/ BeginCounts(l) \/ AcceptAborted(l) \/ KillTcpServer(l)
       PROVE  ListenersFinite' /\ Moves(ListenersBusy, ListenersBusy')
  <2>1. UNCHANGED <<reposting, counting, peer, pool_vars>>
    BY <1>12, Zenon DEF BeginTcpServer, Listen, ListenFails, BeginPosts, BeginCounts,
              AcceptAborted, AcceptFails, KillTcpServer, accept_vars, client_vars, server_vars
  <2> QED BY <1>11, <2>1
<1>13. ASSUME NEW l \in Listeners, Repost(l)
       PROVE  ListenersFinite' /\ Moves(ListenersBusy, ListenersBusy')
  <2>1. /\ reposting[l] > 0 /\ reposting' = Dec(reposting, l) /\ peer' = peer
        /\ \/ counting' = Inc(counting, l) /\ UNCHANGED pool_vars
           \/ counting' = counting /\ Finish
    BY <1>13 DEF Repost, client_vars
  <2>2. IsFiniteSet(Units(reposting, Listeners)') /\ R' = R - 1 BY <1>7, <2>1
  <2>3. IsFiniteSet(BusyPeers') /\ P' = P BY <1>5, <2>1 DEF ListenersFinite
  <2>4. CASE counting' = Inc(counting, l) /\ UNCHANGED pool_vars
    <3>1. IsFiniteSet(Units(counting, Listeners)') /\ C' = C + 1 BY <1>8, <2>4
    <3>2. ListenersFinite' BY <2>2, <2>3, <3>1 DEF ListenersFinite
    <3> HIDE DEF R, C, P
    <3>3. R' + C' + P' = R + C + P /\ R' + C' + P' \in Int BY <1>1, <2>2, <2>3, <3>1
    <3> QED BY <1>10, <2>4, <3>2, <3>3
  <2>5. CASE counting' = counting /\ Finish
    <3>1. IsFiniteSet(Units(counting, Listeners)') /\ C' = C
      BY <1>4, <2>5 DEF ListenersFinite
    <3>2. ListenersFinite' BY <2>2, <2>3, <3>1 DEF ListenersFinite
    <3> HIDE DEF R, C, P
    <3>3. R' + C' + P' = R + C + P - 1 /\ R' + C' + P' \in Int BY <1>1, <2>2, <2>3, <3>1
    <3> QED BY <1>10, <2>5, <3>2, <3>3
  <2> QED BY <2>1, <2>4, <2>5
<1>14. ASSUME NEW l \in Listeners, Count(l)
       PROVE  ListenersFinite' /\ Moves(ListenersBusy, ListenersBusy')
  <2>1. /\ counting[l] > 0 /\ counting' = Dec(counting, l) /\ Finish
        /\ peer' = peer /\ reposting' = reposting
    BY <1>14 DEF Count, client_vars
  <2>2. IsFiniteSet(Units(counting, Listeners)') /\ C' = C - 1 BY <1>9, <2>1
  <2>3. IsFiniteSet(BusyPeers') /\ P' = P BY <1>5, <2>1 DEF ListenersFinite
  <2>4. IsFiniteSet(Units(reposting, Listeners)') /\ R' = R
    BY <1>3, <2>1 DEF ListenersFinite
  <2>5. ListenersFinite' BY <2>2, <2>3, <2>4 DEF ListenersFinite
  <2> HIDE DEF R, C, P
  <2>6. R' + C' + P' = R + C + P - 1 /\ R' + C' + P' \in Int BY <1>1, <2>2, <2>3, <2>4
  <2> QED BY <1>10, <2>1, <2>5, <2>6
<1>15. ASSUME NEW l \in Listeners, AcceptAgain(l)
       PROVE  ListenersFinite' /\ Moves(ListenersBusy, ListenersBusy')
  <2>1. reposting' = Inc(reposting, l) /\ peer' = peer /\ counting' = counting /\ Take
    BY <1>15 DEF AcceptAgain, AcceptFails, client_vars
  <2>2. IsFiniteSet(Units(reposting, Listeners)') /\ R' = R + 1 BY <1>6, <2>1
  <2>3. IsFiniteSet(BusyPeers') /\ P' = P BY <1>5, <2>1 DEF ListenersFinite
  <2>4. IsFiniteSet(Units(counting, Listeners)') /\ C' = C
    BY <1>4, <2>1 DEF ListenersFinite
  <2>5. ListenersFinite' BY <2>2, <2>3, <2>4 DEF ListenersFinite
  <2> HIDE DEF R, C, P
  <2>6. R' + C' + P' = R + C + P + 1 /\ R' + C' + P' \in Int BY <1>1, <2>2, <2>3, <2>4
  <2> QED BY <1>10, <2>1, <2>5, <2>6
<1>16. ASSUME NEW p \in Peers, Refuse(p) \/ Admit(p)
       PROVE  ListenersFinite' /\ Moves(ListenersBusy, ListenersBusy')
  <2>1. /\ peer[p] = "queued"
        /\ peer' = [peer EXCEPT ![p] = "gone"] \/ peer' = [peer EXCEPT ![p] = "open"]
        /\ reposting' = Inc(reposting, acceptor[p]) /\ counting' = counting
        /\ UNCHANGED pool_vars
    BY <1>16, Zenon DEF Refuse, Admit, server_vars
  <2>2. acceptor[p] \in Listeners BY <2>1 DEF Accepted, TypeOKListener
  <2>3. IsFiniteSet(Units(reposting, Listeners)') /\ R' = R + 1 BY <1>6, <2>1, <2>2
  <2>4. IsFiniteSet(BusyPeers') /\ P' = P - 1
    <3>1. CASE peer' = [peer EXCEPT ![p] = "gone"]
      <4>1. Served(peer[p]) /\ ~Served("gone") BY <2>1 DEF Served
      <4> QED BY <3>1, <4>1, PeerMoves DEF ListenersFinite
    <3>2. CASE peer' = [peer EXCEPT ![p] = "open"]
      <4>1. Served(peer[p]) /\ ~Served("open") BY <2>1 DEF Served
      <4> QED BY <3>2, <4>1, PeerMoves DEF ListenersFinite
    <3> QED BY <2>1, <3>1, <3>2
  <2>5. IsFiniteSet(Units(counting, Listeners)') /\ C' = C
    BY <1>4, <2>1 DEF ListenersFinite
  <2>6. ListenersFinite' BY <2>3, <2>4, <2>5 DEF ListenersFinite
  <2> HIDE DEF R, C, P
  <2>7. R' + C' + P' = R + C + P /\ R' + C' + P' \in Int BY <1>1, <2>3, <2>4, <2>5
  <2> QED BY <1>10, <2>1, <2>6, <2>7
<1>17. ASSUME NEW p \in Peers, NEW s, peer' = [peer EXCEPT ![p] = s],
              UNCHANGED <<reposting, counting>>,
              \/ (Served(peer[p]) <=> Served(s)) /\ UNCHANGED pool_vars
              \/ ~Served(peer[p]) /\ Served(s) /\ Take
              \/ Served(peer[p]) /\ ~Served(s) /\ Finish
       PROVE  ListenersFinite' /\ Moves(ListenersBusy, ListenersBusy')
  <2>1. /\ IsFiniteSet(BusyPeers') /\ P' \in Nat
        /\ \/ P' = P /\ UNCHANGED pool_vars
           \/ P' = P + 1 /\ Take
           \/ P' = P - 1 /\ Finish
    BY <1>17, PeerMoves DEF ListenersFinite
  <2>2. /\ IsFiniteSet(Units(counting, Listeners)') /\ C' = C
        /\ IsFiniteSet(Units(reposting, Listeners)') /\ R' = R
    BY <1>3, <1>4, <1>17 DEF ListenersFinite
  <2>3. ListenersFinite' BY <2>1, <2>2 DEF ListenersFinite
  <2> HIDE DEF R, C, P
  <2>4. R' + C' + P' \in Int BY <1>1, <2>1, <2>2
  <2>5. /\ P' = P => R' + C' + P' = R + C + P
        /\ P' = P + 1 => R' + C' + P' = R + C + P + 1
        /\ P' = P - 1 => R' + C' + P' = R + C + P - 1
    <3>1. /\ R \in Nat /\ C \in Nat /\ P \in Nat /\ P' \in Nat
          /\ R' = R /\ C' = C
      BY <1>1, <2>1, <2>2
    <3>2. ASSUME P' = P PROVE R' + C' + P' = R + C + P BY ONLY <3>1, <3>2
    <3>3. ASSUME P' = P + 1 PROVE R' + C' + P' = R + C + P + 1 BY ONLY <3>1, <3>3
    <3>4. ASSUME P' = P - 1 PROVE R' + C' + P' = R + C + P - 1 BY ONLY <3>1, <3>4
    <3> QED BY ONLY <3>2, <3>3, <3>4
  <2> QED BY <1>10, <2>1, <2>3, <2>4, <2>5
<1>18. ASSUME NEW l \in Listeners, NEW p \in Peers, AcceptCompletes(l, p)
       PROVE  ListenersFinite' /\ Moves(ListenersBusy, ListenersBusy')
  <2>1. /\ peer[p] = "none" /\ peer' = [peer EXCEPT ![p] = "queued"] /\ Take
        /\ UNCHANGED <<reposting, counting>>
    BY <1>18 DEF AcceptCompletes
  <2> QED BY <1>17, <2>1 DEF Served
<1>19. ASSUME NEW p \in Peers, ClientData(p)
       PROVE  ListenersFinite' /\ Moves(ListenersBusy, ListenersBusy')
  <2>1. /\ peer[p] = "open" /\ peer' = [peer EXCEPT ![p] = "talking"] /\ Take
        /\ UNCHANGED <<reposting, counting>>
    BY <1>19 DEF ClientData, Client, accept_vars
  <2> QED BY <1>17, <2>1 DEF Served
<1>20. ASSUME NEW p \in Peers, ClientDataDone(p)
       PROVE  ListenersFinite' /\ Moves(ListenersBusy, ListenersBusy')
  <2>1. /\ \/ peer[p] = "talking" /\ peer' = [peer EXCEPT ![p] = "open"]
           \/ peer[p] = "told" /\ peer' = [peer EXCEPT ![p] = "closing"]
        /\ Finish /\ UNCHANGED <<reposting, counting>>
    BY <1>20 DEF ClientDataDone, Client, accept_vars
  <2> QED BY <1>17, <2>1 DEF Served
<1>21. ASSUME NEW p \in Peers, ClientLeaves(p)
       PROVE  ListenersFinite' /\ Moves(ListenersBusy, ListenersBusy')
  <2>1. /\ peer[p] \in {"open", "closing"} /\ peer' = [peer EXCEPT ![p] = "gone"]
        /\ UNCHANGED <<reposting, counting, pool_vars>>
    BY <1>21 DEF ClientLeaves, Client, accept_vars
  <2> QED BY <1>17, <2>1 DEF Served
<1> QED
  BY <1>12, <1>13, <1>14, <1>15, <1>16, <1>18, <1>19, <1>20, <1>21, Zenon DEF ListenerStep
-----------------------------------------------------------------------------
(* Connections.                                                            *)

LEMMA AddFacts ==
    ASSUME NEW S, NEW f \in [S -> Nat], NEW s \in S
    PROVE  /\ Add(f, s) \in [S -> Nat] /\ Add(f, s)[s] = f[s] + 1
           /\ \A r \in S \ {s} : Add(f, s)[r] = f[r]
           /\ Add(f, s) = [f EXCEPT ![s] = f[s] + 1]
<1>1. Add(f, s) = [f EXCEPT ![s] = f[s] + 1] BY Zenon DEF Add
<1>2. f[s] \in Nat /\ f[s] + 1 \in Nat OBVIOUS
<1> QED BY <1>1, <1>2

LEMMA SubFacts ==
    ASSUME NEW S, NEW f \in [S -> Nat], NEW s \in S, f[s] > 0
    PROVE  /\ Sub(f, s) \in [S -> Nat] /\ Sub(f, s)[s] = f[s] - 1
           /\ \A r \in S \ {s} : Sub(f, s)[r] = f[r]
           /\ Sub(f, s) = [f EXCEPT ![s] = f[s] - 1]
<1>1. Sub(f, s) = [f EXCEPT ![s] = f[s] - 1] BY Zenon DEF Sub
<1>2. f[s] \in Nat /\ f[s] - 1 \in Nat OBVIOUS
<1> QED BY <1>1, <1>2

\* Nothing is known of a connection before it is made.
Unborn(c) ==
    caller[c] = "idle" =>
        /\ c \notin known /\ c \notin valid /\ c \notin locked
        /\ c \notin stranded /\ c \notin wrote
        /\ sockets[c] = 0 /\ retrying[c] = 0 /\ events[c] = 0 /\ link_key[c] = "none"
        /\ \A n \in 1..MaxSockets :
              /\ <<c, n>> \notin open
              /\ connects[<<c, n>>] = 0 /\ reads[<<c, n>>] = 0 /\ writes[<<c, n>>] = 0

ConnectionTypes == TypeOKConnection /\ \A c \in Connections : Unborn(c)

\* m_socket, when it is there.
LEMMA NewestFacts ==
    ASSUME TypeOKConnection, NEW c \in Connections
    PROVE  /\ \A n \in 1..MaxSockets : <<c, n>> \in Sockets
           /\ Newest(c) \in open => Newest(c) \in Sockets
           /\ CanRead(c) => c \in valid /\ Newest(c) \in open /\ Newest(c) \in established
                            /\ Newest(c) \in Sockets
           /\ Current(c) \subseteq {Newest(c)}
           /\ sockets[c] < MaxSockets => <<c, sockets[c] + 1>> \in Sockets
                                         /\ sockets[c] + 1 \in 0..MaxSockets
<1>1. sockets[c] \in 0..MaxSockets /\ MaxSockets \in Nat BY MaxSocketsAssumption DEF TypeOKConnection
<1>2. sockets[c] < MaxSockets => sockets[c] + 1 \in 1..MaxSockets /\ sockets[c] + 1 \in 0..MaxSockets
  BY <1>1
<1>3. open \subseteq Sockets BY DEF TypeOKConnection
<1>4. CanRead(c) => c \in valid /\ Newest(c) \in open /\ Newest(c) \in established
  BY DEF CanRead, Current
<1> QED BY <1>2, <1>3, <1>4 DEF Sockets, Current

\* The variables of the connections that every step but the ones below leaves alone.
LEMMA EnterTyped ==
    ASSUME ConnectionTypes, NEW c \in Connections,
           PendingTcpConnection(c) \/ CreateTcpConnection(c)
    PROVE  TypeOKConnection'
<1>1. TypeOKConnection /\ Unborn(c) BY DEF ConnectionTypes
<1>2. caller[c] = "idle" /\ sockets[c] = 0
  BY <1>1 DEF PendingTcpConnection, CreateTcpConnection, Enter, Unborn
<1>3. <<c, sockets[c] + 1>> \in Sockets /\ sockets[c] + 1 \in 0..MaxSockets /\ <<c, 1>> \in Sockets
  BY <1>1, <1>2, NewestFacts, MaxSocketsAssumption
<1>4. /\ caller' \in [Connections -> {"idle", "pending", "created", "done"}]
      /\ linked' \subseteq Connections /\ established' \subseteq Sockets
  BY <1>1, <1>3 DEF PendingTcpConnection, CreateTcpConnection, TypeOKConnection
<1>5. Enter(c) BY DEF PendingTcpConnection, CreateTcpConnection
<1>6. /\ known' \subseteq Connections /\ keep' \subseteq Connections
      /\ link_key' \in [Connections -> {"none", "live", "deleted"}]
  BY <1>1, <1>5 DEF Enter, TypeOKConnection
<1>7. sockets' \in [Connections -> 0..MaxSockets] /\ valid' \subseteq Connections
      /\ open' \subseteq Sockets
  BY <1>1, <1>3, <1>5 DEF Enter, NewSocket, TypeOKConnection
<1>8. UNCHANGED <<connects, reads, writes, retrying, locked, events, stranded, wrote>>
  BY <1>5 DEF Enter, operation_vars
<1> QED BY <1>1, <1>4, <1>6, <1>7, <1>8 DEF TypeOKConnection

\* What PreTcpDisconnect changes.
LEMMA PreTcpDisconnectTyped ==
    ASSUME TypeOKConnection, NEW c \in Connections, NEW reusable \in BOOLEAN,
           NEW lock \in BOOLEAN, NEW gone, NEW up \in BOOLEAN,
           PreTcpDisconnect(c, reusable, lock, gone, up)
    PROVE  /\ open' \subseteq open /\ valid' \subseteq valid
           /\ locked' \subseteq Connections
           /\ retrying' \in [Connections -> Nat] /\ known' \subseteq known
           /\ link_key' \in [Connections -> {"none", "live", "deleted"}]
           /\ events' \in [Connections -> Nat]
<1>1. /\ retrying \in [Connections -> Nat] /\ events \in [Connections -> Nat]
      /\ link_key \in [Connections -> {"none", "live", "deleted"}]
      /\ locked \subseteq Connections
  BY DEF TypeOKConnection
<1>2. /\ Add(retrying, c) \in [Connections -> Nat]
      /\ Add(events, c) \in [Connections -> Nat]
  BY <1>1, AddFacts
<1>3. CASE "terminate" \notin status /\ c \in keep
  <2>1. /\ open' \subseteq open /\ valid' \subseteq valid
        /\ \/ locked' = locked \union {c} /\ UNCHANGED retrying
           \/ retrying' = Add(retrying, c) /\ UNCHANGED locked
        /\ UNCHANGED <<known, link_key, events>>
    BY <1>3 DEF PreTcpDisconnect
  <2> QED BY <1>1, <1>2, <2>1
<1>4. CASE ~("terminate" \notin status /\ c \in keep)
  <2>1. /\ open' \subseteq open /\ events' = Add(events, c) /\ known' \subseteq known
        /\ link_key' = link_key \/ link_key' = [link_key EXCEPT ![c] = "deleted"]
        /\ UNCHANGED <<valid, retrying, locked>>
    BY <1>4 DEF PreTcpDisconnect
  <2> QED BY <1>1, <1>2, <2>1
<1> QED BY <1>3, <1>4

LEMMA ConnectionTyped ==
    ASSUME TypeOKServer, ConnectionTypes, ConnectionStep
    PROVE  TypeOKConnection' /\ faults' \in 0 .. MaxFaults
<1>a. TypeOKConnection BY DEF ConnectionTypes
<1>b. /\ connects \in [Sockets -> Nat] /\ reads \in [Sockets -> Nat]
      /\ writes \in [Sockets -> Nat]
  BY <1>a DEF TypeOKConnection
<1>c. faults \in 0 .. MaxFaults /\ (faults' = faults \/ Fault => faults' \in 0 .. MaxFaults)
  BY MaxFaultsAssumption DEF TypeOKServer, Fault
<1>1. ASSUME NEW c \in Connections, PendingTcpConnection(c) \/ CreateTcpConnection(c)
      PROVE  TypeOKConnection' /\ faults' \in 0 .. MaxFaults
  <2>1. faults' = faults
    BY <1>1 DEF PendingTcpConnection, CreateTcpConnection, Enter
  <2> QED BY <1>1, <1>c, <2>1, EnterTyped
<1>d. ASSUME NEW c \in Connections, ConnectEx(c) \/ ConnectExFails(c)
      PROVE  /\ open' \subseteq open /\ stranded' \subseteq stranded \union {c}
             /\ connects' \in [Sockets -> Nat] /\ (faults' = faults \/ Fault)
  <2>1. CASE ConnectEx(c)
    <3>1. Newest(c) \in Sockets BY <1>a, <2>1, NewestFacts DEF ConnectEx
    <3>2. Add(connects, Newest(c)) \in [Sockets -> Nat] BY <1>b, <3>1, AddFacts
    <3> QED BY <2>1, <3>2 DEF ConnectEx
  <2>2. CASE ConnectExFails(c) BY <1>b, <2>2 DEF ConnectExFails
  <2> QED BY <1>d, <2>1, <2>2
<1>2. ASSUME NEW c \in Connections, FirstConnect(c)
      PROVE  TypeOKConnection' /\ faults' \in 0 .. MaxFaults
  <2>1. /\ open' \subseteq open /\ stranded' \subseteq stranded \union {c}
        /\ connects' \in [Sockets -> Nat] /\ (faults' = faults \/ Fault)
    BY <1>2, <1>d DEF FirstConnect
  <2>2. /\ caller' = [caller EXCEPT ![c] = "done"]
        /\ UNCHANGED <<known, keep, linked, sockets, valid, established, reads, writes,
                       link_key, retrying, locked, events, wrote>>
    BY <1>2 DEF FirstConnect
  <2> QED BY <1>a, <1>c, <2>1, <2>2 DEF TypeOKConnection
<1>e. ASSUME NEW c \in Connections, FirstReadIssued(c)
      PROVE  /\ stranded' \subseteq stranded \union {c}
             /\ reads' \in [Sockets -> Nat] /\ (faults' = faults \/ Fault)
  <2>1. CASE ReadIssued(c)
    <3>1. Newest(c) \in Sockets BY <1>a, <2>1, NewestFacts DEF ReadIssued
    <3>2. Add(reads, Newest(c)) \in [Sockets -> Nat] BY <1>b, <3>1, AddFacts
    <3> QED BY <1>b, <2>1, <3>2 DEF ReadIssued
  <2>2. CASE ~ReadIssued(c) BY <1>b, <1>e, <2>2 DEF FirstReadIssued
  <2> QED BY <2>1, <2>2
<1>3. ASSUME NEW c \in Connections, FirstRead(c)
      PROVE  TypeOKConnection' /\ faults' \in 0 .. MaxFaults
  <2>1. /\ stranded' \subseteq stranded \union {c}
        /\ reads' \in [Sockets -> Nat] /\ (faults' = faults \/ Fault)
    BY <1>3, <1>e DEF FirstRead
  <2>2. /\ caller' = [caller EXCEPT ![c] = "done"]
        /\ UNCHANGED <<known, keep, linked, sockets, valid, open, established, connects,
                       writes, link_key, retrying, locked, events, wrote>>
    BY <1>3 DEF FirstRead, socket_vars
  <2> QED BY <1>a, <1>c, <2>1, <2>2 DEF TypeOKConnection
<1>4. ASSUME NEW s \in Sockets, Establish(s)
      PROVE  TypeOKConnection' /\ faults' \in 0 .. MaxFaults
  <2>1. faults' = faults /\ established' = established \union {s}
        /\ UNCHANGED <<caller, known, keep, linked, sockets, valid, open, connects, reads,
                       writes, link_key, retrying, locked, events, stranded, wrote>>
    BY <1>4 DEF Establish, operation_vars, server_vars
  <2> QED BY <1>a, <1>c, <2>1 DEF TypeOKConnection
<1>5. ASSUME NEW c \in Connections, Reconnect(c)
      PROVE  TypeOKConnection' /\ faults' \in 0 .. MaxFaults
  <2>0. retrying \in [Connections -> Nat] /\ sockets \in [Connections -> 0..MaxSockets]
    BY <1>a DEF TypeOKConnection
  <2>1. locked' \subseteq locked /\ retrying' \in [Connections -> Nat]
    BY <1>5, <2>0, SubFacts DEF Reconnect
  <2>2. /\ open' \subseteq Sockets /\ stranded' \subseteq stranded \union {c}
        /\ connects' \in [Sockets -> Nat] /\ (faults' = faults \/ Fault)
        /\ sockets' \in [Connections -> 0..MaxSockets] /\ valid' \subseteq Connections
    <3>1. CASE /\ c \notin valid
               /\ sockets[c] < MaxSockets
               /\ NewSocket(c)
               /\ connects' = Add(connects, <<c, sockets[c] + 1>>)
               /\ UNCHANGED <<stranded, faults>>
      <4>1. <<c, sockets[c] + 1>> \in Sockets /\ sockets[c] + 1 \in 0..MaxSockets
        BY <1>a, <3>1, NewestFacts
      <4>2. connects' \in [Sockets -> Nat]
        <5>1. connects \in [Sockets -> Nat] BY <1>b
        <5>2. \A s \in Sockets : Add(connects, s) \in [Sockets -> Nat]
          BY <5>1, AddFacts
        <5> QED BY <3>1, <4>1, <5>2, Zenon
      <4>3. sockets' \in [Connections -> 0..MaxSockets] /\ valid' \subseteq Connections
            /\ open' \subseteq Sockets
        BY <1>a, <3>1, <4>1 DEF NewSocket, TypeOKConnection
      <4> QED BY <3>1, <4>2, <4>3
    <3>2. CASE /\ c \notin valid
               /\ IF sockets[c] < MaxSockets THEN Fault ELSE UNCHANGED faults
               /\ stranded' = stranded \union {c}
               /\ UNCHANGED <<sockets, valid, open, connects, late>>
      BY <1>a, <1>b, <3>2 DEF TypeOKConnection
    <3>3. CASE /\ c \in valid
               /\ ConnectEx(c) \/ ConnectExFails(c)
               /\ UNCHANGED <<sockets, valid, late>>
      BY <1>a, <1>d, <3>3 DEF TypeOKConnection
    <3> QED BY <1>5, <3>1, <3>2, <3>3, Zenon DEF Reconnect
  <2>3. UNCHANGED <<caller, known, keep, linked, established, reads, writes, link_key,
                    events, wrote>>
    BY <1>5 DEF Reconnect
  <2> QED BY <1>a, <1>c, <2>1, <2>2, <2>3 DEF TypeOKConnection
<1>6. ASSUME NEW c \in Connections, NEW n \in 1..MaxSockets, Connected(c, n)
      PROVE  TypeOKConnection' /\ faults' \in 0 .. MaxFaults
  <2>1. /\ stranded' \subseteq stranded \union {c}
        /\ reads' \in [Sockets -> Nat] /\ (faults' = faults \/ Fault)
    BY <1>6, <1>e DEF Connected
  <2>2. connects' \in [Sockets -> Nat] /\ linked' \subseteq linked \union {c}
    BY <1>6, <1>a, <1>b, NewestFacts, SubFacts DEF Connected
  <2>3. UNCHANGED <<caller, known, keep, sockets, valid, open, established, writes, link_key,
                    retrying, locked, events, wrote>>
    BY <1>6 DEF Connected, socket_vars
  <2> QED BY <1>a, <1>c, <2>1, <2>2, <2>3 DEF TypeOKConnection
<1>7. ASSUME NEW c \in Connections, NEW n \in 1..MaxSockets, ConnectFails(c, n)
      PROVE  TypeOKConnection' /\ faults' \in 0 .. MaxFaults
  <2>1. connects' \in [Sockets -> Nat]
    BY <1>7, <1>a, <1>b, NewestFacts, SubFacts DEF ConnectFails
  <2>2. /\ open' \subseteq open /\ valid' \subseteq valid
        /\ locked' \subseteq Connections
        /\ retrying' \in [Connections -> Nat] /\ known' \subseteq known
        /\ link_key' \in [Connections -> {"none", "live", "deleted"}]
        /\ events' \in [Connections -> Nat]
    <3>1. PICK reusable \in {FALSE, <<c, n>> \in open} :
            PreTcpDisconnect(c, reusable, TRUE, {}, c \in linked)
      BY <1>7, Zenon DEF ConnectFails
    <3>2. reusable \in BOOLEAN
      <4>1. (<<c, n>> \in open) \in BOOLEAN /\ FALSE \in BOOLEAN OBVIOUS
      <4> QED BY <3>1, <4>1, Zenon
    <3>3. TRUE \in BOOLEAN /\ (c \in linked) \in BOOLEAN OBVIOUS
    <3> QED BY <1>a, <3>1, <3>2, <3>3, PreTcpDisconnectTyped
  <2>3. UNCHANGED <<caller, keep, linked, sockets, established, reads, writes, stranded,
                    wrote, faults>>
    BY <1>7 DEF ConnectFails
  <2> QED BY <1>a, <1>c, <2>1, <2>2, <2>3 DEF TypeOKConnection
<1>8. ASSUME NEW c \in Connections, NEW n \in 1..MaxSockets, Received(c, n)
      PROVE  TypeOKConnection' /\ faults' \in 0 .. MaxFaults
  <2>0. Sub(reads, <<c, n>>) \in [Sockets -> Nat] /\ reads[<<c, n>>] > 0
    BY <1>8, <1>a, <1>b, NewestFacts, SubFacts DEF Received
  <2>1. CASE CanRead(c)
    <3>1. /\ \/ /\ reads' = Add(Sub(reads, <<c, n>>), Newest(c))
                /\ UNCHANGED <<stranded, faults>>
             \/ /\ Fault
                /\ stranded' = stranded \union {c}
                /\ reads' = Sub(reads, <<c, n>>)
          /\ UNCHANGED <<known, valid, open, link_key, retrying, locked, events>>
      BY <1>8, <2>1, Zenon DEF Received
    <3>2. reads' \in [Sockets -> Nat]
      <4>1. Newest(c) \in Sockets BY <1>a, <2>1, NewestFacts
      <4>2. Add(Sub(reads, <<c, n>>), Newest(c)) \in [Sockets -> Nat]
        BY <2>0, <4>1, AddFacts
      <4> QED BY <2>0, <3>1, <4>2
    <3>3. UNCHANGED <<caller, keep, linked, sockets, established, connects, writes, wrote>>
      BY <1>8 DEF Received
    <3> QED BY <1>a, <1>c, <3>1, <3>2, <3>3 DEF TypeOKConnection
  <2>2. CASE ~CanRead(c)
    <3>1. /\ open' \subseteq open /\ valid' \subseteq valid
          /\ locked' \subseteq Connections
          /\ retrying' \in [Connections -> Nat] /\ known' \subseteq known
          /\ link_key' \in [Connections -> {"none", "live", "deleted"}]
          /\ events' \in [Connections -> Nat]
      <4>1. PreTcpDisconnect(c, FALSE, FALSE, {}, c \in linked)
        BY <1>8, <2>2, Zenon DEF Received
      <4>2. FALSE \in BOOLEAN /\ (c \in linked) \in BOOLEAN OBVIOUS
      <4> QED BY <1>a, <4>1, <4>2, PreTcpDisconnectTyped
    <3>2. reads' \in [Sockets -> Nat] /\ UNCHANGED <<stranded, faults>>
      BY <1>8, <2>0, <2>2 DEF Received
    <3>3. UNCHANGED <<caller, keep, linked, sockets, established, connects, writes, wrote>>
      BY <1>8 DEF Received
    <3> QED BY <1>a, <1>c, <3>1, <3>2, <3>3 DEF TypeOKConnection
  <2> QED BY <2>1, <2>2
<1>9. ASSUME NEW c \in Connections, NEW n \in 1..MaxSockets,
             ReadsNothing(c, n) \/ WritesNothing(c, n)
      PROVE  TypeOKConnection' /\ faults' \in 0 .. MaxFaults
  <2>0. TornDown(c) BY <1>9 DEF ReadsNothing, WritesNothing
  <2>1. reads' \in [Sockets -> Nat] /\ writes' \in [Sockets -> Nat]
    <3>1. <<c, n>> \in Sockets BY <1>a, NewestFacts
    <3>2. CASE ReadsNothing(c, n) BY <1>b, <3>1, <3>2, SubFacts DEF ReadsNothing
    <3>3. CASE WritesNothing(c, n) BY <1>b, <3>1, <3>3, SubFacts DEF WritesNothing
    <3> QED BY <1>9, <3>2, <3>3
  <2>2. /\ open' \subseteq open /\ valid' \subseteq valid
        /\ locked' \subseteq Connections
        /\ retrying' \in [Connections -> Nat] /\ known' \subseteq known
        /\ link_key' \in [Connections -> {"none", "live", "deleted"}]
        /\ events' \in [Connections -> Nat]
    BY <2>0, <1>a, PreTcpDisconnectTyped, Zenon DEF TornDown
  <2>3. UNCHANGED <<caller, keep, sockets, established, connects, stranded, wrote, faults>>
        /\ linked' \subseteq linked
    BY <2>0 DEF TornDown
  <2> QED BY <1>a, <1>c, <2>1, <2>2, <2>3 DEF TypeOKConnection
<1>10. ASSUME NEW c \in Connections, NEW n \in 1..MaxSockets, Sent(c, n)
       PROVE  TypeOKConnection' /\ faults' \in 0 .. MaxFaults
  <2>1. writes' \in [Sockets -> Nat]
    BY <1>10, <1>a, <1>b, NewestFacts, SubFacts DEF Sent
  <2>2. UNCHANGED <<caller, known, keep, linked, sockets, valid, open, established, connects,
                    reads, link_key, retrying, locked, events, stranded, wrote, faults>>
    BY <1>10 DEF Sent, socket_vars
  <2> QED BY <1>a, <1>c, <2>1, <2>2 DEF TypeOKConnection
<1>11. ASSUME NEW c \in Connections, SendTcpData(c)
       PROVE  TypeOKConnection' /\ faults' \in 0 .. MaxFaults
  <2>1. writes' \in [Sockets -> Nat] /\ wrote' = wrote \union {c}
    BY <1>11, <1>a, <1>b, NewestFacts, AddFacts DEF SendTcpData
  <2>2. UNCHANGED <<caller, known, keep, linked, sockets, valid, open, established, connects,
                    reads, link_key, retrying, locked, events, stranded, faults>>
    BY <1>11 DEF SendTcpData, socket_vars, server_vars
  <2> QED BY <1>a, <1>c, <2>1, <2>2 DEF TypeOKConnection
<1>12. ASSUME NEW c \in Connections, Disconnect(c)
       PROVE  TypeOKConnection' /\ faults' \in 0 .. MaxFaults
  <2>1. open' \subseteq open /\ keep' \subseteq keep BY <1>12 DEF Disconnect
  <2>2. UNCHANGED <<caller, known, linked, sockets, valid, established, connects, reads,
                    writes, link_key, retrying, locked, events, stranded, wrote, faults>>
    BY <1>12 DEF Disconnect, operation_vars, server_vars
  <2> QED BY <1>a, <1>c, <2>1, <2>2 DEF TypeOKConnection
<1> QED
  BY <1>1, <1>2, <1>3, <1>4, <1>5, <1>6, <1>7, <1>8, <1>9, <1>10, <1>11, <1>12, Zenon
     DEF ConnectionStep

\* A step that is none of the connection's.
Untouched(d) ==
    /\ caller'[d] = caller[d] /\ sockets'[d] = sockets[d] /\ retrying'[d] = retrying[d]
    /\ events'[d] = events[d] /\ link_key'[d] = link_key[d]
    /\ d \in known' <=> d \in known
    /\ d \in valid' <=> d \in valid
    /\ d \in locked' <=> d \in locked
    /\ d \in stranded' <=> d \in stranded
    /\ d \in wrote' <=> d \in wrote
    /\ \A n \in 1..MaxSockets :
          /\ <<d, n>> \in open' <=> <<d, n>> \in open
          /\ connects'[<<d, n>>] = connects[<<d, n>>]
          /\ reads'[<<d, n>>] = reads[<<d, n>>]
          /\ writes'[<<d, n>>] = writes[<<d, n>>]

\* The counters of the operations, for another connection.
LEMMA ElsewhereFacts ==
    ASSUME NEW f \in [Sockets -> Nat], NEW c \in Connections, NEW i, NEW d \in Connections,
           d # c, NEW n \in 1..MaxSockets
    PROVE  /\ Add(f, <<c, i>>)[<<d, n>>] = f[<<d, n>>]
           /\ Sub(f, <<c, i>>)[<<d, n>>] = f[<<d, n>>]
           /\ \A j : Add(Sub(f, <<c, i>>), <<c, j>>)[<<d, n>>] = f[<<d, n>>]
<1>1. <<d, n>> \in Sockets BY DEF Sockets
<1>2. \A j : <<c, j>> # <<d, n>> OBVIOUS
<1>3. Sub(f, <<c, i>>) = [f EXCEPT ![<<c, i>>] = f[<<c, i>>] - 1] BY Zenon DEF Sub
<1>4. DOMAIN Sub(f, <<c, i>>) = Sockets /\ Sub(f, <<c, i>>)[<<d, n>>] = f[<<d, n>>]
  BY <1>1, <1>2, <1>3
<1>5. \A j : Add(Sub(f, <<c, i>>), <<c, j>>)
             = [Sub(f, <<c, i>>) EXCEPT ![<<c, j>>] = Sub(f, <<c, i>>)[<<c, j>>] + 1]
  BY Zenon DEF Add
<1>6. Add(f, <<c, i>>) = [f EXCEPT ![<<c, i>>] = f[<<c, i>>] + 1] BY Zenon DEF Add
<1>7. Add(f, <<c, i>>)[<<d, n>>] = f[<<d, n>>] BY <1>1, <1>2, <1>6
<1>8. \A j : Add(Sub(f, <<c, i>>), <<c, j>>)[<<d, n>>] = f[<<d, n>>]
  BY <1>1, <1>2, <1>4, <1>5
<1> QED BY <1>4, <1>7, <1>8

LEMMA PreTcpDisconnectElsewhere ==
    ASSUME TypeOKConnection, NEW c \in Connections, NEW reusable \in BOOLEAN,
           NEW lock \in BOOLEAN, NEW up,
           NEW gone \in SUBSET {Newest(c)},
           PreTcpDisconnect(c, reusable, lock, gone, up), NEW d \in Connections, d # c
    PROVE  /\ retrying'[d] = retrying[d] /\ events'[d] = events[d]
           /\ link_key'[d] = link_key[d]
           /\ d \in known' <=> d \in known
           /\ d \in valid' <=> d \in valid
           /\ d \in locked' <=> d \in locked
           /\ \A n \in 1..MaxSockets : <<d, n>> \in open' <=> <<d, n>> \in open
<1>1. /\ retrying \in [Connections -> Nat] /\ events \in [Connections -> Nat]
      /\ link_key = [x \in Connections |-> link_key[x]]
  BY DEF TypeOKConnection
<1>2. Add(retrying, c)[d] = retrying[d] /\ Add(events, c)[d] = events[d]
  BY <1>1, AddFacts
<1>3. \A n \in 1..MaxSockets : <<d, n>> \notin gone \union Current(c)
  BY DEF Newest, Current
<1>4. CASE "terminate" \notin status /\ c \in keep
  <2>1. \/ open' = open \ gone /\ valid' = valid
        \/ open' = open \ (gone \union Current(c)) /\ valid' = valid \ {c}
    BY <1>4 DEF PreTcpDisconnect
  <2>2. \/ locked' = locked \union {c} /\ retrying' = retrying
        \/ locked' = locked /\ retrying' = Add(retrying, c)
    BY <1>4 DEF PreTcpDisconnect
  <2>3. UNCHANGED <<known, link_key, events>> BY <1>4 DEF PreTcpDisconnect
  <2> QED BY <1>2, <1>3, <2>1, <2>2, <2>3
<1>5. CASE ~("terminate" \notin status /\ c \in keep)
  <2>1. /\ open' = open \ gone /\ events' = Add(events, c) /\ known' = known \ {c}
        /\ link_key' = link_key \/ link_key' = [link_key EXCEPT ![c] = "deleted"]
        /\ UNCHANGED <<valid, retrying, locked>>
    BY <1>5 DEF PreTcpDisconnect
  <2> QED BY <1>1, <1>2, <1>3, <2>1
<1> QED BY <1>4, <1>5

\* What a connection does is its own.
ConnectionStepOf(c) ==
    \/ PendingTcpConnection(c) \/ CreateTcpConnection(c) \/ FirstConnect(c)
    \/ FirstRead(c) \/ Reconnect(c) \/ SendTcpData(c) \/ Disconnect(c)
    \/ \E n \in 1..MaxSockets :
          \/ Connected(c, n) \/ ConnectFails(c, n) \/ Received(c, n)
          \/ ReadsNothing(c, n) \/ WritesNothing(c, n) \/ Sent(c, n)

LEMMA Elsewhere ==
    ASSUME TypeOKConnection, NEW c \in Connections, ConnectionStepOf(c),
           NEW d \in Connections, d # c
    PROVE  Untouched(d)
<1>a. /\ connects \in [Sockets -> Nat] /\ reads \in [Sockets -> Nat]
      /\ writes \in [Sockets -> Nat]
      /\ caller = [x \in Connections |-> caller[x]]
      /\ link_key = [x \in Connections |-> link_key[x]]
      /\ sockets \in [Connections -> 0..MaxSockets]
      /\ retrying \in [Connections -> Nat] /\ events \in [Connections -> Nat]
  BY DEF TypeOKConnection
<1>b. \A n \in 1..MaxSockets : <<d, n>> # Newest(c) /\ <<d, n>> \notin Current(c)
                               /\ <<d, n>> # <<c, sockets[c] + 1>>
  BY DEF Newest, Current
<1>c. \A i, j : \A n \in 1..MaxSockets :
        /\ Add(connects, <<c, i>>)[<<d, n>>] = connects[<<d, n>>]
        /\ Sub(connects, <<c, i>>)[<<d, n>>] = connects[<<d, n>>]
        /\ Add(reads, <<c, i>>)[<<d, n>>] = reads[<<d, n>>]
        /\ Sub(reads, <<c, i>>)[<<d, n>>] = reads[<<d, n>>]
        /\ Add(Sub(reads, <<c, i>>), <<c, j>>)[<<d, n>>] = reads[<<d, n>>]
        /\ Add(writes, <<c, i>>)[<<d, n>>] = writes[<<d, n>>]
        /\ Sub(writes, <<c, i>>)[<<d, n>>] = writes[<<d, n>>]
  BY <1>a, ElsewhereFacts
<1>n. Newest(c) = <<c, sockets[c]>> BY DEF Newest
<1>d. \A n \in 1..MaxSockets :
        /\ Add(connects, Newest(c))[<<d, n>>] = connects[<<d, n>>]
        /\ Add(reads, Newest(c))[<<d, n>>] = reads[<<d, n>>]
        /\ Add(writes, Newest(c))[<<d, n>>] = writes[<<d, n>>]
        /\ \A i : Add(Sub(reads, <<c, i>>), Newest(c))[<<d, n>>] = reads[<<d, n>>]
  BY <1>c, <1>n
<1>e. /\ ConnectEx(c) \/ ConnectExFails(c) =>
           /\ d \in stranded' <=> d \in stranded
           /\ \A n \in 1..MaxSockets :
                 /\ <<d, n>> \in open' <=> <<d, n>> \in open
                 /\ connects'[<<d, n>>] = connects[<<d, n>>]
      /\ FirstReadIssued(c) =>
           /\ d \in stranded' <=> d \in stranded
           /\ \A n \in 1..MaxSockets : reads'[<<d, n>>] = reads[<<d, n>>]
  <2>1. ASSUME ConnectEx(c)
        PROVE  /\ UNCHANGED <<open, stranded>>
               /\ \A n \in 1..MaxSockets : connects'[<<d, n>>] = connects[<<d, n>>]
    BY <2>1, <1>d DEF ConnectEx
  <2>2. ASSUME ConnectExFails(c)
        PROVE  /\ connects' = connects /\ stranded' = stranded \union {c}
               /\ open' = open \ {Newest(c)}
    BY <2>2 DEF ConnectExFails
  <2>3. ASSUME FirstReadIssued(c)
        PROVE  /\ stranded' = stranded \/ stranded' = stranded \union {c}
               /\ reads' = reads \/ reads' = Add(reads, Newest(c))
    BY <2>3 DEF FirstReadIssued, ReadIssued
  <2> QED BY <1>b, <1>d, <2>1, <2>2, <2>3
<1> USE DEF Untouched, operation_vars, socket_vars
<1>1. CASE PendingTcpConnection(c) \/ CreateTcpConnection(c)
  <2>1. Enter(c) BY <1>1 DEF PendingTcpConnection, CreateTcpConnection
  <2>2. /\ sockets'[d] = sockets[d] /\ (d \in valid' <=> d \in valid)
        /\ \A n \in 1..MaxSockets : <<d, n>> \in open' <=> <<d, n>> \in open
    BY <1>a, <1>b, <2>1 DEF Enter, NewSocket
  <2>3. caller'[d] = caller[d] BY <1>a, <1>1 DEF PendingTcpConnection, CreateTcpConnection
  <2>4. (d \in known' <=> d \in known) /\ link_key'[d] = link_key[d] BY <1>a, <2>1 DEF Enter
  <2>5. UNCHANGED <<connects, reads, writes, retrying, locked, events, stranded, wrote>>
    BY <2>1 DEF Enter
  <2> QED BY <2>2, <2>3, <2>4, <2>5
<1>2. CASE FirstConnect(c)
  <2>1. ConnectEx(c) \/ ConnectExFails(c) BY <1>2 DEF FirstConnect
  <2>2. caller'[d] = caller[d] BY <1>a, <1>2 DEF FirstConnect
  <2>3. UNCHANGED <<known, sockets, valid, reads, writes, link_key, retrying, locked, events,
                    wrote>>
    BY <1>2 DEF FirstConnect
  <2> QED BY <1>e, <2>1, <2>2, <2>3
<1>3. CASE FirstRead(c)
  <2>1. FirstReadIssued(c) BY <1>3 DEF FirstRead
  <2>2. caller'[d] = caller[d] BY <1>a, <1>3 DEF FirstRead
  <2>3. UNCHANGED <<known, sockets, valid, open, connects, writes, link_key, retrying, locked,
                    events, wrote>>
    BY <1>3 DEF FirstRead
  <2> QED BY <1>e, <2>1, <2>2, <2>3
<1>4. CASE Reconnect(c)
  <2>1. /\ UNCHANGED <<caller, known, reads, writes, link_key, events, wrote>>
    BY <1>4 DEF Reconnect
  <2>2. retrying'[d] = retrying[d] /\ (d \in locked' <=> d \in locked)
    <3>1. \/ locked' = locked \ {c} /\ retrying' = retrying
          \/ locked' = locked /\ retrying' = [retrying EXCEPT ![c] = retrying[c] - 1]
      BY <1>4 DEF Reconnect, Sub
    <3> QED BY <1>a, <3>1
  <2>3. CASE /\ c \notin valid
             /\ sockets[c] < MaxSockets
             /\ NewSocket(c)
             /\ connects' = Add(connects, <<c, sockets[c] + 1>>)
             /\ UNCHANGED <<stranded, faults>>
    <3>1. /\ sockets'[d] = sockets[d] /\ (d \in valid' <=> d \in valid)
          /\ \A n \in 1..MaxSockets : <<d, n>> \in open' <=> <<d, n>> \in open
      BY <1>a, <1>b, <2>3 DEF NewSocket
    <3> QED BY <1>c, <2>1, <2>2, <2>3, <3>1
  <2>4. CASE /\ c \notin valid
             /\ IF sockets[c] < MaxSockets THEN Fault ELSE UNCHANGED faults
             /\ stranded' = stranded \union {c}
             /\ UNCHANGED <<sockets, valid, open, connects, late>>
    BY <2>1, <2>2, <2>4
  <2>5. CASE /\ c \in valid
             /\ ConnectEx(c) \/ ConnectExFails(c)
             /\ UNCHANGED <<sockets, valid, late>>
    BY <1>e, <2>1, <2>2, <2>5
  <2> QED BY <1>4, <2>3, <2>4, <2>5, Zenon DEF Reconnect
<1>5. CASE SendTcpData(c)
  <2>1. /\ UNCHANGED <<caller, known, sockets, valid, open, connects, reads, link_key,
                       retrying, locked, events, stranded>>
        /\ writes' = Add(writes, Newest(c)) /\ wrote' = wrote \union {c}
    BY <1>5 DEF SendTcpData
  <2> QED BY <1>d, <2>1
<1>6. CASE Disconnect(c)
  <2>1. /\ UNCHANGED <<caller, known, sockets, valid, connects, reads, writes, link_key,
                       retrying, locked, events, stranded, wrote>>
        /\ open' = open \ Current(c)
    BY <1>6 DEF Disconnect
  <2> QED BY <1>b, <2>1
<1>7. ASSUME NEW n \in 1..MaxSockets, Connected(c, n) PROVE Untouched(d)
  <2>1. /\ FirstReadIssued(c) /\ connects' = Sub(connects, <<c, n>>)
        /\ UNCHANGED <<caller, known, sockets, valid, open, writes, link_key, retrying, locked,
                       events, wrote>>
    BY <1>7 DEF Connected
  <2> QED BY <1>c, <1>e, <2>1
<1>8. ASSUME NEW n \in 1..MaxSockets, ConnectFails(c, n) PROVE Untouched(d)
  <2>1. PICK reusable \in {FALSE, <<c, n>> \in open} :
          PreTcpDisconnect(c, reusable, TRUE, {}, c \in linked)
    BY <1>8, Zenon DEF ConnectFails
  <2>2. {} \in SUBSET {Newest(c)} OBVIOUS
  <2>3. /\ connects' = Sub(connects, <<c, n>>)
        /\ UNCHANGED <<caller, sockets, reads, writes, stranded, wrote>>
    BY <1>8 DEF ConnectFails
  <2>b. reusable \in BOOLEAN /\ TRUE \in BOOLEAN
    <3>1. (<<c, n>> \in open) \in BOOLEAN /\ FALSE \in BOOLEAN OBVIOUS
    <3> QED BY <2>1, <3>1, Zenon
  <2>4. /\ retrying'[d] = retrying[d] /\ events'[d] = events[d]
        /\ link_key'[d] = link_key[d]
        /\ d \in known' <=> d \in known
        /\ d \in valid' <=> d \in valid
        /\ d \in locked' <=> d \in locked
        /\ \A m \in 1..MaxSockets : <<d, m>> \in open' <=> <<d, m>> \in open
    BY <1>a, <2>1, <2>2, <2>b, PreTcpDisconnectElsewhere
  <2> QED BY <1>c, <2>3, <2>4
<1>9. ASSUME NEW n \in 1..MaxSockets, Received(c, n) PROVE Untouched(d)
  <2>0. UNCHANGED <<caller, sockets, connects, writes, wrote>>
    BY <1>9 DEF Received
  <2>1. CASE CanRead(c)
    <3>1. /\ \/ reads' = Add(Sub(reads, <<c, n>>), Newest(c)) /\ UNCHANGED stranded
             \/ reads' = Sub(reads, <<c, n>>) /\ stranded' = stranded \union {c}
          /\ UNCHANGED <<known, valid, open, link_key, retrying, locked, events>>
      BY <1>9, <2>1, Zenon DEF Received
    <3> QED BY <1>c, <1>d, <2>0, <3>1
  <2>2. CASE ~CanRead(c)
    <3>1. /\ PreTcpDisconnect(c, FALSE, FALSE, {}, c \in linked)
          /\ reads' = Sub(reads, <<c, n>>) /\ stranded' = stranded
      BY <1>9, <2>2, Zenon DEF Received
    <3>2. {} \in SUBSET {Newest(c)} OBVIOUS
    <3>3. /\ retrying'[d] = retrying[d] /\ events'[d] = events[d]
          /\ link_key'[d] = link_key[d]
          /\ d \in known' <=> d \in known
          /\ d \in valid' <=> d \in valid
          /\ d \in locked' <=> d \in locked
          /\ \A m \in 1..MaxSockets : <<d, m>> \in open' <=> <<d, m>> \in open
      BY <3>1, <3>2, PreTcpDisconnectElsewhere
    <3> QED BY <1>c, <2>0, <3>1, <3>3
  <2> QED BY <2>1, <2>2
<1>10. ASSUME NEW n \in 1..MaxSockets, ReadsNothing(c, n) \/ WritesNothing(c, n)
       PROVE  Untouched(d)
  <2>0. TornDown(c) BY <1>10 DEF ReadsNothing, WritesNothing
  <2>1. \/ reads' = Sub(reads, <<c, n>>) /\ writes' = writes
        \/ writes' = Sub(writes, <<c, n>>) /\ reads' = reads
    BY <1>10 DEF ReadsNothing, WritesNothing
  <2>2. /\ PreTcpDisconnect(c, FALSE, FALSE, {Newest(c)}, FALSE)
        /\ UNCHANGED <<caller, sockets, connects, stranded, wrote>>
    BY <2>0 DEF TornDown
  <2>3. /\ retrying'[d] = retrying[d] /\ events'[d] = events[d]
        /\ link_key'[d] = link_key[d]
        /\ d \in known' <=> d \in known
        /\ d \in valid' <=> d \in valid
        /\ d \in locked' <=> d \in locked
        /\ \A m \in 1..MaxSockets : <<d, m>> \in open' <=> <<d, m>> \in open
    BY <2>2, PreTcpDisconnectElsewhere
  <2> QED BY <1>c, <2>1, <2>2, <2>3
<1>11. ASSUME NEW n \in 1..MaxSockets, Sent(c, n) PROVE Untouched(d)
  <2>1. /\ UNCHANGED <<caller, known, sockets, valid, open, connects, reads, link_key,
                       retrying, locked, events, stranded, wrote>>
        /\ writes' = Sub(writes, <<c, n>>)
    BY <1>11 DEF Sent
  <2> QED BY <1>c, <2>1
<1> QED
  BY <1>1, <1>2, <1>3, <1>4, <1>5, <1>6, <1>7, <1>8, <1>9, <1>10, <1>11, Zenon
     DEF ConnectionStepOf
-----------------------------------------------------------------------------
(* The types of the whole server.                                          *)

\* A connection that took a step was made.
LEMMA OwnBorn ==
    ASSUME TypeOKConnection, NEW c \in Connections, Unborn(c), ConnectionStepOf(c)
    PROVE  caller'[c] # "idle"
<1>1. caller = [x \in Connections |-> caller[x]] BY DEF TypeOKConnection
<1>2. CASE PendingTcpConnection(c) \/ CreateTcpConnection(c) \/ FirstConnect(c) \/ FirstRead(c)
  BY <1>1, <1>2 DEF PendingTcpConnection, CreateTcpConnection, FirstConnect, FirstRead
<1>3. CASE \/ Reconnect(c) \/ SendTcpData(c) \/ Disconnect(c)
           \/ \E n \in 1..MaxSockets :
                 \/ Connected(c, n) \/ ConnectFails(c, n) \/ Received(c, n)
                 \/ ReadsNothing(c, n) \/ WritesNothing(c, n) \/ Sent(c, n)
  <2>1. \/ c \in locked \/ retrying[c] > 0 \/ c \in known
        \/ \E n \in 1..MaxSockets :
              connects[<<c, n>>] > 0 \/ reads[<<c, n>>] > 0 \/ writes[<<c, n>>] > 0
    BY <1>3 DEF Reconnect, SendTcpData, Disconnect, Connected, ConnectFails, Received,
                ReadsNothing, WritesNothing, Sent
  <2>2. ~(0 > 0) OBVIOUS
  <2>3. caller[c] # "idle" BY <2>1, <2>2 DEF Unborn
  <2>4. caller' = caller
    BY <1>3, Zenon DEF Reconnect, SendTcpData, Disconnect, Connected, ConnectFails, Received,
                ReadsNothing, WritesNothing, TornDown, Sent
  <2> QED BY <2>3, <2>4
<1> QED BY <1>2, <1>3 DEF ConnectionStepOf

LEMMA ConnectionTypesKept ==
    ASSUME TypeOKServer, ConnectionTypes, ConnectionStep
    PROVE  ConnectionTypes' /\ faults' \in 0 .. MaxFaults
<1>a. TypeOKConnection BY DEF ConnectionTypes
<1>1. TypeOKConnection' /\ faults' \in 0 .. MaxFaults BY ConnectionTyped
<1>2. ASSUME NEW c \in Connections, ConnectionStepOf(c), NEW d \in Connections
      PROVE  Unborn(d)'
  <2>1. CASE d = c
    <3>1. caller'[c] # "idle" BY <1>a, <1>2, OwnBorn DEF ConnectionTypes
    <3> QED BY <2>1, <3>1 DEF Unborn
  <2>2. CASE d # c
    <3>1. Untouched(d) BY <1>a, <1>2, <2>2, Elsewhere
    <3>2. Unborn(d) BY DEF ConnectionTypes
    <3> QED BY <3>1, <3>2 DEF Untouched, Unborn
  <2> QED BY <2>1, <2>2
<1>3. ASSUME NEW s \in Sockets, Establish(s), NEW d \in Connections
      PROVE  Unborn(d)'
  <2>1. Unborn(d) BY DEF ConnectionTypes
  <2> QED BY <1>3, <2>1 DEF Establish, Unborn, operation_vars
<1>4. (\E c \in Connections : ConnectionStepOf(c)) \/ \E s \in Sockets : Establish(s)
  BY Zenon DEF ConnectionStep, ConnectionStepOf
<1>5. \A d \in Connections : Unborn(d)' BY <1>2, <1>3, <1>4
<1> QED BY <1>1, <1>5 DEF ConnectionTypes

LEMMA SumMoves ==
    ASSUME TypeOKServer, NEW a \in Int, NEW b \in Int, NEW c \in Int, NEW d \in Int,
           \/ UNCHANGED pool_vars /\ c = a /\ d = b
           \/ Take /\ c = a + 1 /\ d = b
           \/ Take /\ c = a /\ d = b + 1
           \/ Finish /\ c = a - 1 /\ d = b
           \/ Finish /\ c = a /\ d = b - 1
    PROVE  Moves(a + b, c + d)
<1>1. a + b \in Int /\ c + d \in Int OBVIOUS
<1>2. CASE UNCHANGED pool_vars /\ c = a /\ d = b BY <1>1, <1>2, PoolMoves
<1>3. CASE Take /\ c = a + 1 /\ d = b
  <2>1. c + d = (a + b) + 1 BY <1>3
  <2> QED BY <1>1, <1>3, <2>1, PoolMoves
<1>4. CASE Take /\ c = a /\ d = b + 1
  <2>1. c + d = (a + b) + 1 BY <1>4
  <2> QED BY <1>1, <1>4, <2>1, PoolMoves
<1>5. CASE Finish /\ c = a - 1 /\ d = b
  <2>1. c + d = (a + b) - 1 BY <1>5
  <2> QED BY <1>1, <1>5, <2>1, PoolMoves
<1>6. CASE Finish /\ c = a /\ d = b - 1
  <2>1. c + d = (a + b) - 1 BY <1>6
  <2> QED BY <1>1, <1>6, <2>1, PoolMoves
<1> QED BY <1>2, <1>3, <1>4, <1>5, <1>6

\* A worker is busy from the lost connection to the end of the reconnect.
LEMMA ConnectionMoves ==
    ASSUME TypeOKServer, TypeOKConnection, ConnectionsFinite, ConnectionStep
    PROVE  ConnectionsFinite' /\ Moves(ConnectionsBusy, ConnectionsBusy')
<1> DEFINE Y == Cardinality(Units(retrying, Connections))
           L == Cardinality(locked)
<1>1. /\ Y \in Nat /\ L \in Nat /\ ConnectionsBusy = Y + L
      /\ retrying \in [Connections -> Nat] /\ locked \subseteq Connections
  BY FS_CardinalityType DEF ConnectionsFinite, ConnectionsBusy, TypeOKConnection
<1>2. ASSUME retrying' = retrying
      PROVE  IsFiniteSet(Units(retrying, Connections)') /\ Y' = Y
  BY <1>2 DEF Units, ConnectionsFinite
<1>3. ASSUME locked' = locked PROVE IsFiniteSet(locked') /\ L' = L
  BY <1>3 DEF ConnectionsFinite
<1>4. ASSUME ConnectionsFinite', Y' \in Int, L' \in Int,
             \/ UNCHANGED pool_vars /\ Y' = Y /\ L' = L
             \/ Take /\ Y' = Y + 1 /\ L' = L
             \/ Take /\ Y' = Y /\ L' = L + 1
             \/ Finish /\ Y' = Y - 1 /\ L' = L
             \/ Finish /\ Y' = Y /\ L' = L - 1
      PROVE  ConnectionsFinite' /\ Moves(ConnectionsBusy, ConnectionsBusy')
  <2>1. ConnectionsBusy = Y + L /\ ConnectionsBusy' = Y' + L' BY DEF ConnectionsBusy
  <2>2. Y \in Int /\ L \in Int BY <1>1
  <2> HIDE DEF Y, L
  <2> QED BY <1>4, <2>1, <2>2, SumMoves
<1>5. ASSUME UNCHANGED <<retrying, locked, pool_vars>>
      PROVE  ConnectionsFinite' /\ Moves(ConnectionsBusy, ConnectionsBusy')
  <2>1. ConnectionsFinite' /\ Y' = Y /\ L' = L BY <1>2, <1>3, <1>5 DEF ConnectionsFinite
  <2>2. Y' \in Int /\ L' \in Int BY <1>1, <2>1
  <2> HIDE DEF Y, L
  <2> QED BY <1>4, <1>5, <2>1, <2>2
<1>6. ASSUME NEW c \in Connections, NEW reusable, NEW lock \in BOOLEAN, NEW gone, NEW up,
             PreTcpDisconnect(c, reusable, lock, gone, up), lock => locked = {}
      PROVE  ConnectionsFinite' /\ Moves(ConnectionsBusy, ConnectionsBusy')
  <2>1. \/ locked' = locked \union {c} /\ lock /\ UNCHANGED retrying /\ Take
        \/ retrying' = Add(retrying, c) /\ UNCHANGED locked /\ Take
        \/ UNCHANGED <<retrying, locked, pool_vars>>
    <3>1. CASE "terminate" \notin status /\ c \in keep
      <4>1. /\ Take
            /\ IF lock THEN locked' = locked \union {c} /\ UNCHANGED retrying
                       ELSE retrying' = Add(retrying, c) /\ UNCHANGED locked
        BY <1>6, <3>1 DEF PreTcpDisconnect
      <4> QED BY <1>6, <4>1, Zenon
    <3>2. CASE ~("terminate" \notin status /\ c \in keep)
      BY <1>6, <3>2, Zenon DEF PreTcpDisconnect
    <3> QED BY <3>1, <3>2
  <2>2. CASE locked' = locked \union {c} /\ lock /\ UNCHANGED retrying /\ Take
    <3>1. locked = {} /\ locked' = {c} BY <1>6, <2>2
    <3>2. IsFiniteSet(locked') /\ L' = 1 /\ L = 0 BY <3>1, FS_Singleton, FS_EmptySet
    <3>3. ConnectionsFinite' /\ Y' = Y BY <1>2, <2>2, <3>2 DEF ConnectionsFinite
    <3>4. Y \in Int /\ L' = L + 1 BY <1>1, <3>2
    <3>5. Y' \in Int /\ L' \in Int BY <3>2, <3>3, <3>4
    <3> HIDE DEF Y, L
    <3> QED BY <1>4, <2>2, <3>3, <3>4, <3>5
  <2>3. CASE retrying' = Add(retrying, c) /\ UNCHANGED locked /\ Take
    <3>1. IsFiniteSet(Units(retrying, Connections)) BY DEF ConnectionsFinite
    <3>2. /\ IsFiniteSet(Units(Add(retrying, c), Connections))
          /\ Cardinality(Units(Add(retrying, c), Connections))
               = Cardinality(Units(retrying, Connections)) + 1
      BY <1>1, <3>1, UnitsAdd
    <3>3. /\ IsFiniteSet(Units(retrying', Connections))
          /\ Cardinality(Units(retrying', Connections))
               = Cardinality(Units(retrying, Connections)) + 1
      BY <2>3, <3>2
    <3>4. ConnectionsFinite' /\ Y' = Y + 1 /\ L' = L
      BY <1>3, <2>3, <3>3 DEF ConnectionsFinite
    <3>5. Y \in Int /\ L \in Int BY <1>1
    <3> HIDE DEF Y, L
    <3>6. Y' \in Int /\ L' \in Int BY <3>4, <3>5
    <3> QED BY <1>4, <2>3, <3>4, <3>6
  <2>4. CASE UNCHANGED <<retrying, locked, pool_vars>> BY <1>5, <2>4
  <2> QED BY <2>1, <2>2, <2>3, <2>4
<1>7. ASSUME NEW c \in Connections, Reconnect(c)
      PROVE  ConnectionsFinite' /\ Moves(ConnectionsBusy, ConnectionsBusy')
  <2>1. /\ Finish
        /\ \/ c \in locked /\ locked' = locked \ {c} /\ UNCHANGED retrying
           \/ retrying[c] > 0 /\ retrying' = Sub(retrying, c) /\ UNCHANGED locked
    BY <1>7, Zenon DEF Reconnect
  <2>2. CASE c \in locked /\ locked' = locked \ {c} /\ UNCHANGED retrying
    <3>1. IsFiniteSet(locked') /\ L' = L - 1
      BY <2>2, FS_RemoveElement DEF ConnectionsFinite
    <3>2. ConnectionsFinite' /\ Y' = Y BY <1>2, <2>2, <3>1 DEF ConnectionsFinite
    <3>3. Y' \in Int /\ L' \in Int BY <1>1, <3>1, <3>2
    <3> HIDE DEF Y, L
    <3> QED BY <1>4, <2>1, <3>1, <3>2, <3>3
  <2>3. CASE retrying[c] > 0 /\ retrying' = Sub(retrying, c) /\ UNCHANGED locked
    <3>1. retrying' = [retrying EXCEPT ![c] = retrying[c] - 1] BY <1>1, <2>3, SubFacts
    <3>2. IsFiniteSet(Units(retrying, Connections)) BY DEF ConnectionsFinite
    <3>3. /\ IsFiniteSet(Units(retrying', Connections))
          /\ Cardinality(Units(retrying', Connections))
               = Cardinality(Units(retrying, Connections)) - 1
      BY ONLY <1>1, <1>7, <2>3, <3>1, <3>2, UnitsFewer
    <3>4. ConnectionsFinite' /\ Y' = Y - 1 /\ L' = L
      BY <1>3, <2>3, <3>3 DEF ConnectionsFinite
    <3>5. Y \in Int /\ L \in Int BY <1>1
    <3> HIDE DEF Y, L
    <3>6. Y' \in Int /\ L' \in Int BY <3>4, <3>5
    <3> QED BY <1>4, <2>1, <3>4, <3>6
  <2> QED BY <2>1, <2>2, <2>3
<1>8. ASSUME NEW c \in Connections,
             \/ PendingTcpConnection(c) \/ CreateTcpConnection(c) \/ FirstConnect(c)
             \/ FirstRead(c) \/ SendTcpData(c) \/ Disconnect(c)
             \/ \E n \in 1..MaxSockets : Connected(c, n) \/ Sent(c, n)
      PROVE  ConnectionsFinite' /\ Moves(ConnectionsBusy, ConnectionsBusy')
  <2>1. UNCHANGED <<retrying, locked, pool_vars>>
    BY <1>8, Zenon DEF PendingTcpConnection, CreateTcpConnection, Enter, FirstConnect, FirstRead,
              SendTcpData, Disconnect, Connected, Sent, server_vars
  <2> QED BY <1>5, <2>1
<1>9. ASSUME NEW c \in Connections, NEW n \in 1..MaxSockets, ConnectFails(c, n)
      PROVE  ConnectionsFinite' /\ Moves(ConnectionsBusy, ConnectionsBusy')
  <2>1. PICK reusable : PreTcpDisconnect(c, reusable, TRUE, {}, c \in linked)
    BY <1>9, Zenon DEF ConnectFails
  <2>2. locked = {} BY <1>9 DEF ConnectFails
  <2> QED BY <1>6, <2>1, <2>2
<1>10. ASSUME NEW c \in Connections, NEW n \in 1..MaxSockets, Received(c, n)
       PROVE  ConnectionsFinite' /\ Moves(ConnectionsBusy, ConnectionsBusy')
  <2>1. \/ UNCHANGED <<retrying, locked, pool_vars>>
        \/ PreTcpDisconnect(c, FALSE, FALSE, {}, c \in linked)
    BY <1>10, Zenon DEF Received
  <2> QED BY <1>5, <1>6, <2>1
<1>11. ASSUME NEW c \in Connections, NEW n \in 1..MaxSockets,
              ReadsNothing(c, n) \/ WritesNothing(c, n)
       PROVE  ConnectionsFinite' /\ Moves(ConnectionsBusy, ConnectionsBusy')
  <2>1. PreTcpDisconnect(c, FALSE, FALSE, {Newest(c)}, FALSE)
    BY <1>11, Zenon DEF ReadsNothing, WritesNothing, TornDown
  <2> QED BY <1>6, <2>1
<1>12. ASSUME NEW s \in Sockets, Establish(s)
       PROVE  ConnectionsFinite' /\ Moves(ConnectionsBusy, ConnectionsBusy')
  <2>1. UNCHANGED <<retrying, locked, pool_vars>> BY <1>12, Zenon DEF Establish, server_vars
  <2> QED BY <1>5, <2>1
<1> QED
  BY <1>7, <1>8, <1>9, <1>10, <1>11, <1>12, Zenon DEF ConnectionStep
-----------------------------------------------------------------------------
(* The UDP server and the folder.                                          *)

LEMMA UdpTyped ==
    ASSUME TypeOKServer, TypeOKUdp, UdpStep
    PROVE  /\ TypeOKUdp' /\ faults' \in 0 .. MaxFaults
           /\ Moves(delivering, delivering')
<1>a. /\ delivering \in Int /\ delivering \in Nat
      /\ faults \in 0 .. MaxFaults /\ (faults' = faults \/ Fault => faults' \in 0 .. MaxFaults)
  BY MaxFaultsAssumption DEF TypeOKServer, TypeOKUdp, Fault
<1>b. UNCHANGED <<delivering, pool_vars>> => Moves(delivering, delivering')
  BY <1>a, PoolMoves
<1>1. CASE BeginUdpServer
  <2>1. Cardinality(Families) \in Int BY FamiliesFinite, FS_CardinalityType
  <2>2. TypeOKUdp' BY <1>1, <2>1 DEF BeginUdpServer, TypeOKUdp
  <2>3. UNCHANGED <<delivering, pool_vars, faults>> BY <1>1 DEF BeginUdpServer
  <2> QED BY <1>a, <1>b, <2>2, <2>3
<1>2. CASE UdpDelivered
  <2>1. delivering > 0 /\ delivering' = delivering - 1 /\ Finish /\ UNCHANGED faults
    BY <1>2 DEF UdpDelivered
  <2>2. delivering' \in Nat /\ delivering' \in Int BY <1>a, <2>1
  <2>3. TypeOKUdp' BY <1>2, <2>2 DEF UdpDelivered, TypeOKUdp, udp_socket_vars
  <2> QED BY <1>a, <2>1, <2>2, <2>3, PoolMoves
<1>3. CASE KillUdpServer
  <2>1. TypeOKUdp' /\ UNCHANGED <<delivering, pool_vars, faults>>
    BY <1>3 DEF KillUdpServer, TypeOKUdp, server_vars
  <2> QED BY <1>a, <1>b, <2>1
<1>4. ASSUME NEW f \in Families, FirstUdpRead(f)
      PROVE  /\ TypeOKUdp' /\ faults' \in 0 .. MaxFaults
             /\ Moves(delivering, delivering')
  <2>1. /\ silent' = silent \/ silent' = silent \union {f}
        /\ udp_reads' = udp_reads \/ udp_reads' = udp_reads \union {f}
        /\ faults' = faults \/ Fault
    BY <1>4, Zenon DEF FirstUdpRead, ReadsAgain, ReadsNoMore
  <2>2. /\ udp_to_read' = udp_to_read \ {f}
        /\ UNCHANGED <<udp_begin, udp_known, udp_open, udp_valid, udp_marked, udp_writes,
                       udp_pending, udp_key, delivering, emptied, udp_wrote, pool_vars>>
    BY <1>4 DEF FirstUdpRead, udp_socket_vars
  <2>3. TypeOKUdp' BY <1>4, <2>1, <2>2 DEF TypeOKUdp
  <2> QED BY <1>a, <1>b, <2>1, <2>2, <2>3
<1>5. ASSUME NEW f \in Families, UdpReceived(f)
      PROVE  /\ TypeOKUdp' /\ faults' \in 0 .. MaxFaults
             /\ Moves(delivering, delivering')
  <2>1. /\ silent' = silent \/ silent' = silent \union {f}
        /\ udp_reads' = udp_reads \/ udp_reads' = udp_reads \ {f}
        /\ faults' = faults \/ Fault
    BY <1>5, Zenon DEF UdpReceived, ReadsAgain, ReadsNoMore
  <2>2. /\ delivering' = delivering + 1 /\ Take
        /\ UNCHANGED <<udp_begin, udp_known, udp_open, udp_valid, udp_marked, udp_to_read,
                       udp_writes, udp_pending, udp_key, emptied, udp_wrote>>
    BY <1>5 DEF UdpReceived, udp_socket_vars
  <2>3. delivering' \in Nat /\ delivering' \in Int BY <1>a, <2>2
  <2>4. TypeOKUdp' BY <1>5, <2>1, <2>2, <2>3 DEF TypeOKUdp
  <2> QED BY <1>a, <2>1, <2>2, <2>3, <2>4, PoolMoves
<1>6. ASSUME NEW f \in Families, NEW kind, UdpEmpty(f, kind)
      PROVE  /\ udp_open' \subseteq udp_open /\ udp_valid' \subseteq udp_valid
             /\ udp_marked' \subseteq {"v4", "v6"} /\ udp_pending' \in Int
             /\ udp_key' \in {"none", "live", "deleted"}
  BY <1>6 DEF UdpEmpty, Closes, TypeOKUdp
<1>7. ASSUME NEW f \in Families, UdpReadEmpty(f) \/ UdpWriteEmpty(f)
      PROVE  /\ TypeOKUdp' /\ faults' \in 0 .. MaxFaults
             /\ Moves(delivering, delivering')
  <2>1. /\ udp_open' \subseteq udp_open /\ udp_valid' \subseteq udp_valid
        /\ udp_marked' \subseteq {"v4", "v6"} /\ udp_pending' \in Int
        /\ udp_key' \in {"none", "live", "deleted"}
    BY <1>6, <1>7 DEF UdpReadEmpty, UdpWriteEmpty
  <2>2. /\ UNCHANGED <<udp_begin, udp_known, udp_to_read, delivering, silent, udp_wrote,
                       pool_vars, faults>>
        /\ udp_reads' \subseteq udp_reads
    BY <1>7 DEF UdpReadEmpty, UdpWriteEmpty
  <2>3. udp_writes' \in [Families -> Nat] /\ emptied' \in Nat
    <3>1. udp_writes \in [Families -> Nat] /\ emptied \in Nat BY DEF TypeOKUdp
    <3>2. CASE UdpReadEmpty(f) BY <3>1, <3>2 DEF UdpReadEmpty
    <3>3. CASE UdpWriteEmpty(f)
      <4>1. /\ udp_writes[f] > 0 /\ emptied' = emptied + 1
            /\ udp_writes' = [udp_writes EXCEPT ![f] = udp_writes[f] - 1]
        BY <3>3 DEF UdpWriteEmpty
      <4> QED BY <3>1, <4>1
    <3> QED BY <1>7, <3>2, <3>3
  <2>4. TypeOKUdp' BY <2>1, <2>2, <2>3 DEF TypeOKUdp
  <2> QED BY <1>a, <1>b, <2>2, <2>4
<1>8. ASSUME NEW f \in Families, UdpSent(f) \/ SendUdpData(f)
      PROVE  /\ TypeOKUdp' /\ faults' \in 0 .. MaxFaults
             /\ Moves(delivering, delivering')
  <2>1. udp_writes' \in [Families -> Nat] /\ udp_wrote' \in BOOLEAN
    <3>1. udp_writes \in [Families -> Nat] /\ udp_wrote \in BOOLEAN BY DEF TypeOKUdp
    <3>2. CASE UdpSent(f)
      <4>1. /\ udp_writes[f] > 0 /\ udp_wrote' = udp_wrote
            /\ udp_writes' = [udp_writes EXCEPT ![f] = udp_writes[f] - 1]
        BY <3>2 DEF UdpSent
      <4> QED BY <3>1, <4>1
    <3>3. CASE SendUdpData(f)
      <4>1. /\ udp_writes' = [udp_writes EXCEPT ![f] = udp_writes[f] + 1]
            /\ udp_wrote' = TRUE
        BY <3>3 DEF SendUdpData
      <4> QED BY <3>1, <4>1
    <3> QED BY <1>8, <3>2, <3>3
  <2>2. UNCHANGED <<udp_begin, udp_known, udp_open, udp_valid, udp_marked, udp_to_read,
                    udp_reads, udp_pending, udp_key, delivering, silent, emptied, pool_vars,
                    faults>>
    BY <1>8 DEF UdpSent, SendUdpData, udp_socket_vars, server_vars
  <2>3. TypeOKUdp' BY <2>1, <2>2 DEF TypeOKUdp
  <2> QED BY <1>a, <1>b, <2>2, <2>3
<1>9. ASSUME NEW f \in Families, SendUdpDataFails(f)
      PROVE  /\ TypeOKUdp' /\ faults' \in 0 .. MaxFaults
             /\ Moves(delivering, delivering')
  <2>1. TypeOKUdp' BY <1>9 DEF SendUdpDataFails, TypeOKUdp
  <2>2. UNCHANGED <<delivering, pool_vars>> /\ Fault BY <1>9 DEF SendUdpDataFails
  <2> QED BY <1>a, <1>b, <2>1, <2>2
<1> QED
  BY <1>1, <1>2, <1>3, <1>4, <1>5, <1>7, <1>8, <1>9, Zenon DEF UdpStep

\* Nothing is recorded before MonitorFolder, and one thread at a time reads the folder.
FolderShape ==
    /\ folder_call = "idle" =>
          /\ ~watching /\ ~rewatching /\ ~in_set /\ ~in_map /\ ~folder_open /\ ~overtaken
          /\ ~to_remove /\ folder_key = "none"
    /\ ~(watching /\ rewatching)

LEMMA FolderTyped ==
    ASSUME TypeOKServer, TypeOKFolder, FolderShape, FolderStep
    PROVE  /\ TypeOKFolder' /\ FolderShape' /\ faults' \in 0 .. MaxFaults
           /\ Moves(FolderBusy, FolderBusy')
<1>a. /\ faults \in 0 .. MaxFaults /\ (faults' = faults \/ Fault => faults' \in 0 .. MaxFaults)
      /\ FolderBusy \in Int /\ FolderBusy' \in Int
      /\ notices \in 0 .. MaxNotices
  BY MaxFaultsAssumption DEF TypeOKServer, TypeOKFolder, Fault, FolderBusy
<1>b. UNCHANGED <<rewatching, pool_vars>> => Moves(FolderBusy, FolderBusy')
  BY <1>a, PoolMoves DEF FolderBusy
<1> USE MaxNoticesAssumption
<1>1. CASE MonitorFolder \/ Record \/ Notice
  <2>1. TypeOKFolder' /\ FolderShape'
    <3>1. CASE MonitorFolder BY <3>1 DEF MonitorFolder, TypeOKFolder, FolderShape
    <3>2. CASE Record BY <3>2 DEF Record, TypeOKFolder, FolderShape
    <3>3. CASE Notice
      <4>1. notices' \in 0 .. MaxNotices BY <1>a, <3>3 DEF Notice
      <4>2. UNCHANGED <<folder_call, folder_open, folder_closed, in_set, in_map, watching,
                        rewatching, to_remove, folder_key, overtaken>>
        BY <3>3 DEF Notice
      <4> QED BY <4>1, <4>2 DEF TypeOKFolder, FolderShape
    <3> QED BY <1>1, <3>1, <3>2, <3>3
  <2>2. UNCHANGED <<rewatching, pool_vars, faults>>
    BY <1>1 DEF MonitorFolder, Record, Notice, server_vars
  <2> QED BY <1>a, <1>b, <2>1, <2>2
<1>2. CASE Nothing \/ Changes
  <2>1. /\ watching /\ ~rewatching /\ ~watching' /\ UNCHANGED <<folder_call, faults>>
        /\ UNCHANGED <<folder_open, folder_closed>>
        /\ notices' \in 0 .. MaxNotices
    BY <1>2, <1>a DEF Nothing, Changes, Unwatch, FolderShape, TypeOKFolder
  <2>2. /\ folder_call # "idle"
        /\ in_set' \in BOOLEAN /\ in_map' \in BOOLEAN /\ to_remove' \in BOOLEAN
        /\ overtaken' \in BOOLEAN /\ watching' \in BOOLEAN /\ rewatching' \in BOOLEAN
        /\ folder_key' = folder_key
    BY <1>2, <2>1 DEF Nothing, Changes, Unwatch, FolderShape, TypeOKFolder
  <2>3. TypeOKFolder' BY <2>1, <2>2 DEF TypeOKFolder
  <2>4. FolderShape' BY <2>1, <2>2 DEF FolderShape
  <2>5. \/ UNCHANGED <<rewatching, pool_vars>>
        \/ Take /\ rewatching'
    BY <1>2 DEF Nothing, Changes, pool_vars, Take
  <2>6. Take /\ rewatching' => FolderBusy' = FolderBusy + 1
    BY <2>1 DEF FolderBusy
  <2> QED BY <1>a, <1>b, <2>1, <2>3, <2>4, <2>5, <2>6, PoolMoves
<1>3. CASE Rewatch \/ RewatchFails
  <2>1. /\ rewatching /\ rewatching' = FALSE /\ Finish /\ folder_call' = folder_call
        /\ folder_key' = folder_key /\ (faults' = faults \/ Fault)
    BY <1>3, Zenon DEF Rewatch, RewatchFails, Unwatch
  <2>2. TypeOKFolder' BY <1>3 DEF Rewatch, RewatchFails, Unwatch, TypeOKFolder
  <2>3. FolderShape' BY <2>1 DEF FolderShape
  <2>4. FolderBusy' = FolderBusy - 1 BY <2>1 DEF FolderBusy
  <2> QED BY <1>a, <2>1, <2>2, <2>3, <2>4, PoolMoves
<1> QED BY <1>1, <1>2, <1>3 DEF FolderStep
-----------------------------------------------------------------------------
(* The types of the server are an invariant, with the count of busy workers.  *)

TypeInv == TypeOK /\ BusyInv /\ (\A c \in Connections : Unborn(c)) /\ FolderShape

LEMMA TypeInit == Init => TypeInv
<1> SUFFICES ASSUME Init PROVE TypeInv OBVIOUS
<1>0. InitServer /\ InitListener /\ InitConnection /\ InitUdp /\ InitFolder
      /\ setup \in Configurations
  BY DEF Init
<1>1. TypeOKServer
  <2>1. workers \in 0 .. Workers /\ busy \in 0 .. workers
    BY <1>0, WorkersAssumption DEF InitServer
  <2>2. faults \in 0 .. MaxFaults BY <1>0, MaxFaultsAssumption DEF InitServer
  <2>3. stopping \in [Terminators -> Stages] BY <1>0 DEF InitServer, Stages
  <2> QED BY <1>0, <2>1, <2>2, <2>3 DEF InitServer, TypeOKServer
<1>2. TypeOKListener BY <1>0 DEF InitListener, TypeOKListener
<1>3. TypeOKConnection /\ \A c \in Connections : Unborn(c)
  <2>1. sockets \in [Connections -> 0 .. MaxSockets]
    BY <1>0, MaxSocketsAssumption DEF InitConnection
  <2>2. TypeOKConnection BY <1>0, <2>1 DEF InitConnection, TypeOKConnection
  <2>3. \A c \in Connections : Unborn(c) BY <1>0 DEF InitConnection, Unborn, Sockets
  <2> QED BY <2>2, <2>3
<1>4. TypeOKUdp
  <2>1. InitUdp BY <1>0
  <2>2. /\ udp_begin \in {"idle", "reading"} /\ udp_key \in {"none", "live", "deleted"}
        /\ udp_known \in BOOLEAN /\ udp_wrote \in BOOLEAN
    BY ONLY <2>1 DEF InitUdp
  <2>3. /\ udp_open \subseteq Families /\ udp_valid \subseteq Families
        /\ udp_marked \subseteq {"v4", "v6"} /\ udp_to_read \subseteq Families
        /\ udp_reads \subseteq Families /\ silent \subseteq Families
    BY ONLY <2>1 DEF InitUdp
  <2>4. udp_writes \in [Families -> Nat] BY ONLY <2>1 DEF InitUdp
  <2>5. udp_pending \in Int /\ delivering \in Nat /\ emptied \in Nat BY ONLY <2>1 DEF InitUdp
  <2> QED BY ONLY <2>2, <2>3, <2>4, <2>5 DEF TypeOKUdp
<1>5. TypeOKFolder /\ FolderShape
  <2>1. InitFolder BY <1>0
  <2>2. notices \in 0 .. MaxNotices BY ONLY <2>1, MaxNoticesAssumption DEF InitFolder
  <2> QED BY ONLY <2>1, <2>2 DEF InitFolder, TypeOKFolder, FolderShape
<1>6. BusyInv
  <2>1. /\ \A l \in Listeners : reposting[l] = 0 /\ counting[l] = 0
        /\ \A c \in Connections : retrying[c] = 0
        /\ locked = {} /\ delivering = 0 /\ busy = 0 /\ rewatching = FALSE
    BY DEF Init, InitServer, InitListener, InitConnection, InitUdp, InitFolder
  <2>2. BusyPeers = {} BY DEF Init, InitListener, BusyPeers, Served
  <2>3. /\ IsFiniteSet(Units(reposting, Listeners))
        /\ Cardinality(Units(reposting, Listeners)) = 0
        /\ IsFiniteSet(Units(counting, Listeners))
        /\ Cardinality(Units(counting, Listeners)) = 0
        /\ IsFiniteSet(Units(retrying, Connections))
        /\ Cardinality(Units(retrying, Connections)) = 0
    BY <2>1, UnitsNone
  <2>4. IsFiniteSet({}) /\ Cardinality({}) = 0 BY FS_EmptySet
  <2>5. ListenersFinite /\ ConnectionsFinite
    BY <2>1, <2>2, <2>3, <2>4 DEF ListenersFinite, ConnectionsFinite
  <2>6. ListenersBusy = 0 /\ ConnectionsBusy = 0 /\ FolderBusy = 0
    BY <2>1, <2>2, <2>3, <2>4 DEF ListenersBusy, ConnectionsBusy, FolderBusy
  <2> QED BY <2>1, <2>5, <2>6 DEF BusyInv
<1> QED BY <1>0, <1>1, <1>2, <1>3, <1>4, <1>5, <1>6 DEF TypeInv, TypeOK

\* The numbers of busy workers are numbers.
LEMMA BusyTypes ==
    ASSUME ListenersFinite, ConnectionsFinite
    PROVE  ListenersBusy \in Nat /\ ConnectionsBusy \in Nat /\ FolderBusy \in Nat
<1>1. /\ Cardinality(Units(reposting, Listeners)) \in Nat
      /\ Cardinality(Units(counting, Listeners)) \in Nat
      /\ Cardinality(BusyPeers) \in Nat
      /\ Cardinality(Units(retrying, Connections)) \in Nat
      /\ Cardinality(locked) \in Nat
  BY FS_CardinalityType DEF ListenersFinite, ConnectionsFinite
<1> QED BY <1>1 DEF ListenersBusy, ConnectionsBusy, FolderBusy

\* A step of one of the parts.
LEMMA PartKeepsTypes ==
    ASSUME TypeInv, Accepted, PartStep, UNCHANGED setup
    PROVE  TypeInv'
<1>a. /\ TypeOKServer /\ TypeOKListener /\ TypeOKConnection /\ TypeOKUdp /\ TypeOKFolder
      /\ ListenersFinite /\ ConnectionsFinite /\ FolderShape
      /\ busy = ListenersBusy + ConnectionsBusy + delivering + FolderBusy
      /\ \A c \in Connections : Unborn(c)
  BY DEF TypeInv, TypeOK, BusyInv
<1>b. ListenersBusy \in Nat /\ ConnectionsBusy \in Nat /\ FolderBusy \in Nat
      /\ delivering \in Nat
  BY <1>a, BusyTypes DEF TypeOKUdp
<1>c. UNCHANGED status_vars BY PartsLeaveStatus
<1>1. UNCHANGED listener_vars
      => /\ TypeOKListener' /\ ListenersFinite' /\ ListenersBusy' = ListenersBusy
  <2> SUFFICES ASSUME UNCHANGED listener_vars
               PROVE  TypeOKListener' /\ ListenersFinite' /\ ListenersBusy' = ListenersBusy
    OBVIOUS
  <2>1. TypeOKListener' BY <1>a DEF listener_vars, accept_vars, client_vars, TypeOKListener
  <2>2. UNCHANGED <<reposting, counting, peer>> BY DEF listener_vars, accept_vars, client_vars
  <2>3. /\ Units(reposting, Listeners)' = Units(reposting, Listeners)
        /\ Units(counting, Listeners)' = Units(counting, Listeners)
        /\ BusyPeers' = BusyPeers
    BY <2>2 DEF Units, BusyPeers
  <2> QED BY <1>a, <2>1, <2>3 DEF ListenersFinite, ListenersBusy
<1>2. UNCHANGED connection_vars
      => /\ TypeOKConnection' /\ ConnectionsFinite' /\ ConnectionsBusy' = ConnectionsBusy
         /\ \A c \in Connections : Unborn(c)'
  <2> SUFFICES ASSUME UNCHANGED connection_vars
               PROVE  /\ TypeOKConnection' /\ ConnectionsFinite'
                      /\ ConnectionsBusy' = ConnectionsBusy
                      /\ \A c \in Connections : Unborn(c)'
    OBVIOUS
  <2> USE DEF connection_vars, socket_vars, operation_vars
  <2>1. TypeOKConnection' BY <1>a DEF TypeOKConnection
  <2>2. \A c \in Connections : Unborn(c)' BY <1>a DEF Unborn
  <2>3. Units(retrying, Connections)' = Units(retrying, Connections) /\ locked' = locked
    BY DEF Units
  <2> QED BY <1>a, <2>1, <2>2, <2>3 DEF ConnectionsFinite, ConnectionsBusy
<1>3. UNCHANGED udp_vars => TypeOKUdp' /\ delivering' = delivering
  BY <1>a DEF udp_vars, udp_socket_vars, TypeOKUdp
<1>4. UNCHANGED folder_vars => TypeOKFolder' /\ FolderShape' /\ FolderBusy' = FolderBusy
  BY <1>a DEF folder_vars, TypeOKFolder, FolderShape, FolderBusy
<1>5. ASSUME faults' \in 0 .. MaxFaults, NEW b \in Nat, NEW c \in Nat, NEW o \in Nat,
             busy = b + o, busy' = c + o, Moves(b, c)
      PROVE  TypeOKServer'
  <2>1. busy \in 0 .. workers /\ workers \in 0 .. Workers BY <1>a DEF TypeOKServer
  <2>2. busy' \in 0 .. workers' /\ workers' = workers BY <1>5, <2>1 DEF Moves
  <2> QED BY <1>a, <1>c, <1>5, <2>2 DEF TypeOKServer, status_vars
<1>6. ASSUME ListenersFinite', ConnectionsFinite',
             busy' = ListenersBusy' + ConnectionsBusy' + delivering' + FolderBusy',
             TypeOKServer', TypeOKListener', TypeOKConnection', TypeOKUdp', TypeOKFolder',
             FolderShape', \A c \in Connections : Unborn(c)'
      PROVE  TypeInv'
  BY <1>6 DEF TypeInv, TypeOK, BusyInv
<1>7. ASSUME NEW b \in Nat, NEW c \in Nat, NEW o \in Nat, busy = b + o, Moves(b, c)
      PROVE  busy' = c + o
  <2>1. busy' - busy = c - b /\ busy' \in Int BY <1>7 DEF Moves
  <2>2. b \in Int /\ c \in Int /\ o \in Int /\ busy = b + o BY <1>7
  <2>3. busy \in Int BY <2>2
  <2> DEFINE y == busy'
  <2>4. y \in Int /\ y - busy = c - b BY <2>1
  <2> HIDE DEF y
  <2>5. y = c + o BY ONLY <2>2, <2>3, <2>4
  <2> QED BY <2>5 DEF y
<1>p. ASSUME ListenersFinite', ConnectionsFinite'
      PROVE  ListenersBusy' \in Nat /\ ConnectionsBusy' \in Nat /\ FolderBusy' \in Nat
  <2>1. /\ Cardinality(Units(reposting, Listeners)') \in Nat
        /\ Cardinality(Units(counting, Listeners)') \in Nat
        /\ Cardinality(BusyPeers') \in Nat
        /\ Cardinality(Units(retrying, Connections)') \in Nat
        /\ Cardinality(locked') \in Nat
    BY <1>p, FS_CardinalityType DEF ListenersFinite, ConnectionsFinite
  <2> QED BY <2>1 DEF ListenersBusy, ConnectionsBusy, FolderBusy
<1>8. CASE ListenerStep /\ UNCHANGED <<connection_vars, udp_vars, folder_vars>>
  <2>1. /\ TypeOKListener' /\ faults' \in 0 .. MaxFaults /\ ListenersFinite'
        /\ Moves(ListenersBusy, ListenersBusy')
    BY <1>a, <1>8, ListenerTyped, ListenerMoves
  <2>2. /\ ConnectionsFinite' /\ TypeOKConnection' /\ TypeOKUdp' /\ TypeOKFolder' /\ FolderShape'
        /\ ConnectionsBusy' = ConnectionsBusy /\ delivering' = delivering
        /\ FolderBusy' = FolderBusy /\ \A c \in Connections : Unborn(c)'
    BY <1>2, <1>3, <1>4, <1>8
  <2>3. ListenersBusy' \in Nat BY <1>p, <2>1, <2>2
  <2> DEFINE o == ConnectionsBusy + delivering + FolderBusy
  <2>4. o \in Nat /\ busy = ListenersBusy + o BY <1>a, <1>b
  <2>5. busy' = ListenersBusy' + o BY <1>7, <1>b, <2>1, <2>3, <2>4
  <2>6. TypeOKServer' BY <1>5, <1>b, <2>1, <2>3, <2>4, <2>5
  <2>7. busy' = ListenersBusy' + ConnectionsBusy' + delivering' + FolderBusy'
    BY <1>b, <2>2, <2>3, <2>5
  <2> QED BY <1>6, <2>1, <2>2, <2>6, <2>7
<1>9. CASE ConnectionStep /\ UNCHANGED <<listener_vars, udp_vars, folder_vars>>
  <2>1. /\ TypeOKConnection' /\ faults' \in 0 .. MaxFaults /\ ConnectionsFinite'
        /\ Moves(ConnectionsBusy, ConnectionsBusy') /\ \A c \in Connections : Unborn(c)'
    BY <1>a, <1>9, ConnectionTypesKept, ConnectionMoves DEF ConnectionTypes
  <2>2. /\ ListenersFinite' /\ TypeOKListener' /\ TypeOKUdp' /\ TypeOKFolder' /\ FolderShape'
        /\ ListenersBusy' = ListenersBusy /\ delivering' = delivering
        /\ FolderBusy' = FolderBusy
    BY <1>1, <1>3, <1>4, <1>9
  <2>3. ConnectionsBusy' \in Nat BY <1>p, <2>1, <2>2
  <2> DEFINE o == ListenersBusy + delivering + FolderBusy
  <2>4. o \in Nat /\ busy = ConnectionsBusy + o BY <1>a, <1>b
  <2>5. busy' = ConnectionsBusy' + o BY <1>7, <1>b, <2>1, <2>3, <2>4
  <2>6. TypeOKServer' BY <1>5, <1>b, <2>1, <2>3, <2>4, <2>5
  <2>7. busy' = ListenersBusy' + ConnectionsBusy' + delivering' + FolderBusy'
    BY <1>b, <2>2, <2>3, <2>5
  <2> QED BY <1>6, <2>1, <2>2, <2>6, <2>7
<1>10. CASE UdpStep /\ UNCHANGED <<listener_vars, connection_vars, folder_vars>>
  <2>1. /\ TypeOKUdp' /\ faults' \in 0 .. MaxFaults /\ Moves(delivering, delivering')
    BY <1>a, <1>10, UdpTyped
  <2>2. /\ ListenersFinite' /\ TypeOKListener' /\ ConnectionsFinite' /\ TypeOKConnection'
        /\ TypeOKFolder' /\ FolderShape' /\ ListenersBusy' = ListenersBusy
        /\ ConnectionsBusy' = ConnectionsBusy /\ FolderBusy' = FolderBusy
        /\ \A c \in Connections : Unborn(c)'
    BY <1>1, <1>2, <1>4, <1>10
  <2>3. delivering' \in Nat BY <2>1 DEF TypeOKUdp
  <2> DEFINE o == ListenersBusy + ConnectionsBusy + FolderBusy
  <2>4. o \in Nat /\ busy = delivering + o BY <1>a, <1>b
  <2>5. busy' = delivering' + o BY <1>7, <1>b, <2>1, <2>3, <2>4
  <2>6. TypeOKServer' BY <1>5, <1>b, <2>1, <2>3, <2>4, <2>5
  <2>7. busy' = ListenersBusy' + ConnectionsBusy' + delivering' + FolderBusy'
    BY <1>b, <2>2, <2>3, <2>5
  <2> QED BY <1>6, <2>1, <2>2, <2>6, <2>7
<1>11. CASE FolderStep /\ UNCHANGED <<listener_vars, connection_vars, udp_vars>>
  <2>1. /\ TypeOKFolder' /\ FolderShape' /\ faults' \in 0 .. MaxFaults
        /\ Moves(FolderBusy, FolderBusy')
    BY <1>a, <1>11, FolderTyped
  <2>2. /\ ListenersFinite' /\ TypeOKListener' /\ ConnectionsFinite' /\ TypeOKConnection'
        /\ TypeOKUdp' /\ ListenersBusy' = ListenersBusy
        /\ ConnectionsBusy' = ConnectionsBusy /\ delivering' = delivering
        /\ \A c \in Connections : Unborn(c)'
    BY <1>1, <1>2, <1>3, <1>11
  <2>3. FolderBusy' \in Nat BY <1>p, <2>2
  <2> DEFINE o == ListenersBusy + ConnectionsBusy + delivering
  <2>4. o \in Nat /\ busy = FolderBusy + o BY <1>a, <1>b
  <2>5. busy' = FolderBusy' + o BY <1>7, <1>b, <2>1, <2>3, <2>4
  <2>6. TypeOKServer' BY <1>5, <1>b, <2>1, <2>3, <2>4, <2>5
  <2>7. busy' = ListenersBusy' + ConnectionsBusy' + delivering' + FolderBusy'
    BY <1>b, <2>2, <2>3, <2>5
  <2> QED BY <1>6, <2>1, <2>2, <2>6, <2>7
<1> QED BY <1>8, <1>9, <1>10, <1>11 DEF PartStep

\* A step of Terminate.
LEMMA StopKeepsTypes ==
    ASSUME TypeInv, NEW t \in Terminators, StopStep(t)
    PROVE  TypeInv'
<1>a. /\ TypeOKServer /\ TypeOKListener /\ TypeOKConnection /\ TypeOKUdp /\ TypeOKFolder
      /\ ListenersFinite /\ ConnectionsFinite /\ FolderShape
      /\ busy = ListenersBusy + ConnectionsBusy + delivering + FolderBusy
      /\ \A c \in Connections : Unborn(c)
      /\ setup \in Configurations
  BY DEF TypeInv, TypeOK, BusyInv
<1>s. TypeOKServer' /\ UNCHANGED <<pool_vars, setup>>
  <2>1. \/ Terminate(t) \/ SetPreterminate(t) \/ SetTerminate(t) \/ WaitForServerUnlock(t)
        \/ \E from \in Stages, to \in Stages : Advance(t, from, to)
    BY DEF StopStep, CloseAllMonitoredFolder, KillAllServers, KillAllClient,
           KillAllConnections, Stages
  <2>2. /\ \E to \in Stages : stopping' = [stopping EXCEPT ![t] = to]
        /\ status' \subseteq Flags
        /\ UNCHANGED <<started, unlocked, ended, workers, busy, faults>>
    BY <1>a, <2>1 DEF Terminate, SetPreterminate, SetTerminate, WaitForServerUnlock, Advance,
                      Stage, Stages, TypeOKServer, Flags, pool_vars
  <2>3. UNCHANGED <<pool_vars, setup>>
    BY <2>2, Zenon DEF StopStep, CloseAllMonitoredFolder, KillAllServers, KillAllClient,
                       KillAllConnections, part_vars, pool_vars
  <2> QED BY <1>a, <2>2, <2>3 DEF TypeOKServer
<1>l. /\ TypeOKListener' /\ UNCHANGED <<reposting, counting>> /\ BusyPeers' = BusyPeers
  <2>1. CASE UNCHANGED listener_vars
    BY <1>a, <2>1 DEF listener_vars, accept_vars, client_vars, TypeOKListener, BusyPeers
  <2>2. CASE KillAllServers(t)
    BY <1>a, <2>2 DEF KillAllServers, CloseListeners, accept_vars, client_vars, TypeOKListener,
                      BusyPeers
  <2>3. CASE KillAllClient(t)
    <3>1. /\ peer' = [p \in Peers |-> CASE peer[p] = "open" -> "closing"
                                         [] peer[p] = "talking" -> "told"
                                         [] OTHER -> peer[p]]
          /\ UNCHANGED <<begin, to_post, listening, killed, registered, key, pending, accepts,
                         reposting, counting, lost, failed, acceptor>>
      BY <2>3 DEF KillAllClient, CloseClients, accept_vars
    <3>2. \A p \in Peers : Served(peer'[p]) <=> Served(peer[p]) BY <3>1 DEF Served
    <3>3. peer' \in [Peers -> {"none", "queued", "open", "talking", "told", "closing", "gone"}]
      BY <1>a, <3>1 DEF TypeOKListener
    <3> QED BY <1>a, <3>1, <3>2, <3>3 DEF TypeOKListener, BusyPeers
  <2> QED
    BY <2>1, <2>2, <2>3, Zenon DEF StopStep, CloseAllMonitoredFolder, KillAllConnections, part_vars
<1>c. /\ TypeOKConnection' /\ UNCHANGED <<retrying, locked>> /\ \A c \in Connections : Unborn(c)'
  <2>1. CASE UNCHANGED connection_vars
    <3>1. UNCHANGED <<caller, known, keep, linked, sockets, valid, open, established, connects,
                      reads, writes, link_key, retrying, locked, events, stranded, wrote>>
      BY <2>1 DEF connection_vars, socket_vars, operation_vars
    <3> QED BY <1>a, <3>1 DEF TypeOKConnection, Unborn
  <2>2. CASE KillAllConnections(t)
    <3>1. /\ open' \subseteq open /\ keep' \subseteq keep
          /\ UNCHANGED <<caller, known, linked, sockets, valid, established, connects, reads,
                         writes, link_key, retrying, locked, events, stranded, wrote>>
      BY <2>2 DEF KillAllConnections, CloseConnections, operation_vars
    <3>2. TypeOKConnection' BY <1>a, <3>1 DEF TypeOKConnection
    <3>3. \A c \in Connections : Unborn(c)' BY <1>a, <3>1 DEF Unborn
    <3> QED BY <3>1, <3>2, <3>3
  <2> QED
    BY <2>1, <2>2, Zenon DEF StopStep, CloseAllMonitoredFolder, KillAllServers, KillAllClient, part_vars
<1>u. TypeOKUdp' /\ delivering' = delivering
  <2>1. CASE UNCHANGED udp_vars
    BY <1>a, <2>1 DEF udp_vars, udp_socket_vars, TypeOKUdp
  <2>2. CASE KillAllServers(t)
    <3>1. /\ udp_open' \subseteq udp_open
          /\ udp_marked' = udp_marked \/ udp_marked' = udp_marked \union Families
          /\ UNCHANGED <<udp_begin, udp_known, udp_valid, udp_to_read, udp_reads, udp_writes,
                         udp_pending, udp_key, delivering, silent, emptied, udp_wrote>>
      BY <1>a, <2>2 DEF KillAllServers, CloseUdp, TypeOKUdp
    <3>2. Families \subseteq {"v4", "v6"} BY FamiliesAssumption
    <3> QED BY <1>a, <3>1, <3>2 DEF TypeOKUdp
  <2> QED
    BY <2>1, <2>2, Zenon DEF StopStep, CloseAllMonitoredFolder, KillAllClient,
                       KillAllConnections, part_vars
<1>f. TypeOKFolder' /\ FolderShape' /\ FolderBusy' = FolderBusy
  <2>1. CASE UNCHANGED folder_vars
    BY <1>a, <2>1 DEF folder_vars, TypeOKFolder, FolderShape, FolderBusy
  <2>2. CASE CloseAllMonitoredFolder(t)
    BY <1>a, <2>2 DEF CloseAllMonitoredFolder, CloseFolders, TypeOKFolder, FolderShape, FolderBusy
  <2> QED
    BY <2>1, <2>2, Zenon DEF StopStep, KillAllServers, KillAllClient, KillAllConnections, part_vars
<1>b. BusyInv'
  <2>1. /\ Units(reposting, Listeners)' = Units(reposting, Listeners)
        /\ Units(counting, Listeners)' = Units(counting, Listeners)
        /\ Units(retrying, Connections)' = Units(retrying, Connections)
        /\ locked' = locked /\ busy' = busy
    BY <1>l, <1>c, <1>s DEF Units, pool_vars
  <2> QED
    BY <1>a, <1>l, <1>u, <1>f, <2>1
       DEF BusyInv, ListenersFinite, ConnectionsFinite, ListenersBusy, ConnectionsBusy
<1> QED BY <1>a, <1>s, <1>l, <1>c, <1>u, <1>f, <1>b DEF TypeInv, TypeOK

LEMMA TypeNext == TypeInv /\ PostInv /\ [Next]_vars => TypeInv'
<1> SUFFICES ASSUME TypeInv, PostInv, [Next]_vars PROVE TypeInv' OBVIOUS
<1>a. /\ TypeOKServer /\ TypeOKListener /\ TypeOKConnection /\ TypeOKUdp /\ TypeOKFolder
      /\ ListenersFinite /\ ConnectionsFinite /\ FolderShape
      /\ busy = ListenersBusy + ConnectionsBusy + delivering + FolderBusy
      /\ \A c \in Connections : Unborn(c)
      /\ setup \in Configurations
  BY DEF TypeInv, TypeOK, BusyInv
<1>0. callers \subseteq Terminators BY <1>a, ConfigurationsAssumption DEF callers
<1>1. CASE PartStep /\ UNCHANGED setup BY <1>1, PartKeepsTypes DEF PostInv
<1>2. ASSUME NEW t \in callers, StopStep(t) PROVE TypeInv'
  BY <1>0, <1>2, StopKeepsTypes
<1>3. ASSUME TypeOKServer', busy' = busy, setup' = setup,
             UNCHANGED <<begin, to_post, listening, killed, key, accept_vars, client_vars>>,
             registered' \in Listeners \union {NoListener},
             UNCHANGED connection_vars,
             UNCHANGED <<udp_begin, udp_socket_vars, udp_to_read, udp_reads, udp_writes,
                         udp_pending, udp_key, delivering, silent, emptied, udp_wrote>>,
             udp_known' \in BOOLEAN,
             UNCHANGED <<folder_call, folder_open, folder_closed, in_set, in_map, watching,
                         rewatching, notices, to_remove, overtaken>>,
             folder_key' = folder_key \/ (to_remove /\ folder_key' = "deleted")
      PROVE  TypeInv'
  <2>1. TypeOKListener' /\ UNCHANGED <<reposting, counting, peer>>
    BY <1>a, <1>3 DEF accept_vars, client_vars, TypeOKListener
  <2>2. UNCHANGED <<caller, known, keep, linked, sockets, valid, open, established, connects,
                    reads, writes, link_key, retrying, locked, events, stranded, wrote>>
    BY <1>3 DEF connection_vars, socket_vars, operation_vars
  <2>3. TypeOKConnection' /\ \A c \in Connections : Unborn(c)'
    BY <1>a, <2>2 DEF TypeOKConnection, Unborn
  <2>4. TypeOKUdp' BY <1>a, <1>3 DEF TypeOKUdp, udp_socket_vars
  <2>5. TypeOKFolder' /\ FolderShape' /\ FolderBusy' = FolderBusy
    BY <1>a, <1>3 DEF TypeOKFolder, FolderShape, FolderBusy
  <2>6. /\ Units(reposting, Listeners)' = Units(reposting, Listeners)
        /\ Units(counting, Listeners)' = Units(counting, Listeners)
        /\ Units(retrying, Connections)' = Units(retrying, Connections)
        /\ BusyPeers' = BusyPeers
    BY <2>1, <2>2 DEF Units, BusyPeers
  <2>7. BusyInv'
    BY <1>a, <1>3, <2>2, <2>5, <2>6
       DEF BusyInv, ListenersFinite, ConnectionsFinite, ListenersBusy, ConnectionsBusy
  <2> QED BY <1>a, <1>3, <2>1, <2>3, <2>4, <2>5, <2>7 DEF TypeInv, TypeOK
<1>4. CASE (StartServer \/ WorkerLeaves) /\ UNCHANGED part_vars
  <2>1. TypeOKServer' /\ busy' = busy
    <3>1. CASE StartServer BY <1>a, <3>1 DEF StartServer, pool_vars, TypeOKServer
    <3>2. CASE WorkerLeaves
      <4>1. busy \in 0 .. workers /\ workers \in 0 .. Workers /\ Workers \in Nat
        BY <1>a, WorkersAssumption DEF TypeOKServer
      <4>2. busy < workers /\ workers' = workers - 1 /\ busy' = busy
        BY <3>2 DEF WorkerLeaves, Idle
      <4>3. busy' \in 0 .. workers' /\ workers' \in 0 .. Workers BY <4>1, <4>2
      <4>4. UNCHANGED <<status, stopping, started, unlocked, ended, faults>>
        BY <3>2 DEF WorkerLeaves, status_vars
      <4> QED BY <1>a, <4>2, <4>3, <4>4 DEF TypeOKServer
    <3> QED BY <1>4, <3>1, <3>2
  <2>2. /\ UNCHANGED <<setup, begin, to_post, listening, killed, registered, key, accept_vars,
                       client_vars, connection_vars>>
        /\ UNCHANGED <<udp_begin, udp_known, udp_socket_vars, udp_to_read, udp_reads, udp_writes,
                       udp_pending, udp_key, delivering, silent, emptied, udp_wrote>>
        /\ UNCHANGED <<folder_call, folder_open, folder_closed, in_set, in_map, watching,
                       rewatching, notices, to_remove, overtaken, folder_key>>
    BY <1>4 DEF part_vars, listener_vars, udp_vars, folder_vars
  <2>3. registered' \in Listeners \union {NoListener} /\ udp_known' \in BOOLEAN
    BY <1>a, <2>2 DEF TypeOKListener, TypeOKUdp
  <2> QED BY <1>3, <2>1, <2>2, <2>3
<1>5. CASE Shutdown
  <2>1. TypeOKServer' /\ busy' = busy
    BY <1>a, <1>5 DEF Shutdown, Run, pool_vars, TypeOKServer
  <2>2. /\ UNCHANGED <<setup, begin, to_post, listening, killed, key, accept_vars,
                       client_vars, connection_vars>>
        /\ registered' = NoListener /\ udp_known' = FALSE
        /\ UNCHANGED <<udp_begin, udp_socket_vars, udp_to_read, udp_reads, udp_writes,
                       udp_pending, udp_key, delivering, silent, emptied, udp_wrote>>
        /\ ClearFolders
    BY <1>5 DEF Shutdown
  <2>3. /\ UNCHANGED <<folder_call, folder_open, folder_closed, in_set, in_map, watching,
                       rewatching, notices, to_remove, overtaken>>
        /\ folder_key' = folder_key \/ (to_remove /\ folder_key' = "deleted")
    BY <2>2 DEF ClearFolders
  <2>4. registered' \in Listeners \union {NoListener} /\ udp_known' \in BOOLEAN BY <2>2
  <2> QED BY <1>3, <2>1, <2>2, <2>3, <2>4
<1>6. CASE UNCHANGED vars
  <2>1. TypeOKServer' /\ busy' = busy
    BY <1>a, <1>6 DEF vars, server_vars, status_vars, pool_vars, TypeOKServer
  <2>2. /\ UNCHANGED <<setup, begin, to_post, listening, killed, registered, key, accept_vars,
                       client_vars, connection_vars>>
        /\ UNCHANGED <<udp_begin, udp_known, udp_socket_vars, udp_to_read, udp_reads, udp_writes,
                       udp_pending, udp_key, delivering, silent, emptied, udp_wrote>>
        /\ UNCHANGED <<folder_call, folder_open, folder_closed, in_set, in_map, watching,
                       rewatching, notices, to_remove, overtaken, folder_key>>
    BY <1>6 DEF vars, part_vars, listener_vars, udp_vars, folder_vars
  <2>3. registered' \in Listeners \union {NoListener} /\ udp_known' \in BOOLEAN
    BY <1>a, <2>2 DEF TypeOKListener, TypeOKUdp
  <2> QED BY <1>3, <2>1, <2>2, <2>3
<1> QED BY <1>1, <1>2, <1>4, <1>5, <1>6, Zenon DEF Next

LEMMA TypeInvariant == Spec => [](TypeInv /\ PostInv)
  BY TypeInit, TypeNext, PostInit, PostNext, PTL DEF Spec

\* All parts keep the types they were given; the workers inside their handlers are never
\* more than the workers there are, and a worker never leaves out of a handler
\* (busy, WorkerThread).
THEOREM ServerTypes == Spec => []TypeOK
<1>1. TypeInv => TypeOK BY DEF TypeInv
<1> QED BY <1>1, TypeInvariant, PTL
-----------------------------------------------------------------------------
(* What is open when Run has returned.                                     *)

\* A call of Terminate has closed everything.
Done == \E t \in Terminators : stopping[t] \in {"waiting", "returned"}
Stopped == workers < Workers \/ "terminate" \in status \/ ended => Done

\* What is open although its kind was closed came after that.
ListenersLate ==
    /\ listening \subseteq late \union {registered}
    /\ Closed("servers") => listening \subseteq late
    /\ Closed("clients") => \A p \in Peers : peer[p] \in {"open", "talking"} => p \in late

\* Of a connection that is known, m_socket is the only socket that can be open.
OnlyCurrent == \A s \in open : s[1] \in known => s \in Current(s[1])
ConnectionsLate ==
    /\ OnlyCurrent
    /\ Closed("connections") => \A s \in open : s[1] \in late \/ s[1] \notin known

UdpLate ==
    /\ udp_open \subseteq udp_valid /\ udp_open \intersect udp_marked = {}
    /\ udp_begin = "idle" =>
          /\ ~udp_known /\ udp_valid = {} /\ udp_marked = {} /\ udp_reads = {}
          /\ \A f \in Families : udp_writes[f] = 0
    /\ udp_open # {} => udp_known \/ "udp" \in late
    /\ udp_open # {} /\ Closed("servers") => "udp" \in late

FolderLate == Closed("folders") /\ folder_open /\ in_set => "folder" \in late

SurviveInv == Stopped /\ ListenersLate /\ ConnectionsLate /\ UdpLate /\ FolderLate

Kinds == {"folders", "servers", "clients", "connections"}

LEMMA DoneClosed == Done => \A k \in Kinds : Closed(k)
  BY DEF Done, Closed, After, Stages, Kinds

\* A step that leaves Terminate alone closes nothing, and the history only grows.
LEMMA ClosedSame == stopping' = stopping => \A k : Closed(k)' = Closed(k)
  BY DEF Closed

LEMMA ArrivesGrows ==
    ASSUME NEW kind, NEW x, Arrives(kind, x)
    PROVE  late \subseteq late' /\ (Closed(kind) => x \in late')
  BY DEF Arrives

\* The frame of each part.
LEMMA ListenersLateFrame ==
    ASSUME ListenersLate, UNCHANGED <<listening, registered, peer>>, late \subseteq late',
           Closed("servers")' => Closed("servers"), Closed("clients")' => Closed("clients")
    PROVE  ListenersLate'
  BY DEF ListenersLate

LEMMA ConnectionsLateFrame ==
    ASSUME ConnectionsLate, open' \subseteq open, known' \subseteq known, valid' = valid,
           sockets' = sockets, late \subseteq late',
           Closed("connections")' => Closed("connections")
    PROVE  ConnectionsLate'
<1>1. \A c : Current(c)' = Current(c) BY DEF Current, Newest
<1> QED BY <1>1 DEF ConnectionsLate, OnlyCurrent

LEMMA UdpLateFrame ==
    ASSUME UdpLate, udp_open' \subseteq udp_open,
           UNCHANGED <<udp_known, udp_valid, udp_marked, udp_begin>>,
           udp_begin # "idle" \/ UNCHANGED <<udp_reads, udp_writes>>,
           late \subseteq late', Closed("servers")' => Closed("servers")
    PROVE  UdpLate'
  BY DEF UdpLate

LEMMA FolderLateFrame ==
    ASSUME FolderLate, folder_open' => folder_open, in_set' => in_set,
           late \subseteq late', Closed("folders")' => Closed("folders")
    PROVE  FolderLate'
  BY DEF FolderLate

LEMMA ListenerStepLate ==
    ASSUME TypeOKListener, ListenersLate, ListenerStep
    PROVE  ListenersLate' /\ late \subseteq late'
<1>a. stopping' = stopping BY ListenerLeavesStatus DEF status_vars
<1>b. /\ Closed("servers")' = Closed("servers") /\ Closed("clients")' = Closed("clients")
  BY <1>a, ClosedSame
<1>1. ASSUME UNCHANGED <<listening, registered, peer, late>>
      PROVE  ListenersLate' /\ late \subseteq late'
  BY <1>a, <1>1, ClosedSame, ListenersLateFrame
<1>2. ASSUME NEW p \in Peers, NEW s, peer' = [peer EXCEPT ![p] = s],
             UNCHANGED <<listening, registered>>, late \subseteq late',
             s \in {"open", "talking"} /\ Closed("clients") =>
                p \in late' \/ peer[p] \in {"open", "talking"}
      PROVE  ListenersLate' /\ late \subseteq late'
  <2>1. /\ peer'[p] = s /\ \A q \in Peers \ {p} : peer'[q] = peer[q]
    BY <1>2 DEF TypeOKListener
  <2> QED BY <1>b, <1>2, <2>1 DEF ListenersLate
<1>3. ASSUME NEW l \in Listeners,
             \/ BeginTcpServer(l) \/ ListenFails(l) \/ BeginPosts(l) \/ BeginCounts(l)
             \/ Repost(l) \/ Count(l) \/ AcceptAgain(l) \/ AcceptAborted(l)
      PROVE  ListenersLate' /\ late \subseteq late'
  <2>1. UNCHANGED <<listening, registered, peer, late>>
    BY <1>3, Zenon DEF BeginTcpServer, ListenFails, BeginPosts, BeginCounts, Repost, Count,
              AcceptAgain, AcceptAborted, AcceptFails, accept_vars, client_vars, server_vars
  <2> QED BY <1>1, <2>1
<1>4. ASSUME NEW l \in Listeners, Listen(l)
      PROVE  ListenersLate' /\ late \subseteq late'
  <2>1. /\ listening' = {l} /\ registered' = l /\ peer' = peer /\ Arrives("servers", l)
    BY <1>4 DEF Listen, client_vars
  <2>2. late \subseteq late' /\ (Closed("servers") => l \in late') BY <2>1, ArrivesGrows
  <2> QED BY <1>b, <2>1, <2>2 DEF ListenersLate
<1>5. ASSUME NEW l \in Listeners, KillTcpServer(l)
      PROVE  ListenersLate' /\ late \subseteq late'
  <2>1. /\ registered = l /\ listening' = listening \ {l} /\ UNCHANGED <<peer, late>>
    BY <1>5 DEF KillTcpServer, client_vars, server_vars
  <2> QED BY <1>b, <2>1 DEF ListenersLate
<1>6. ASSUME NEW l \in Listeners, NEW p \in Peers, AcceptCompletes(l, p)
      PROVE  ListenersLate' /\ late \subseteq late'
  <2>1. peer' = [peer EXCEPT ![p] = "queued"] /\ UNCHANGED <<listening, registered, late>>
    BY <1>6 DEF AcceptCompletes
  <2> QED BY <1>2, <2>1
<1>7. ASSUME NEW p \in Peers, Refuse(p) \/ ClientData(p) \/ ClientDataDone(p) \/ ClientLeaves(p)
      PROVE  ListenersLate' /\ late \subseteq late'
  <2>1. /\ UNCHANGED <<listening, registered, late>>
        /\ \/ peer' = [peer EXCEPT ![p] = "gone"]
           \/ peer' = [peer EXCEPT ![p] = "talking"] /\ peer[p] = "open"
           \/ peer' = [peer EXCEPT ![p] = "open"] /\ peer[p] = "talking"
           \/ peer' = [peer EXCEPT ![p] = "closing"]
    BY <1>7, Zenon DEF Refuse, ClientData, ClientDataDone, ClientLeaves, Client, server_vars
  <2> QED BY <1>2, <2>1
<1>8. ASSUME NEW p \in Peers, Admit(p)
      PROVE  ListenersLate' /\ late \subseteq late'
  <2>1. /\ peer' = [peer EXCEPT ![p] = "open"] /\ UNCHANGED <<listening, registered>>
        /\ Arrives("clients", p)
    BY <1>8 DEF Admit
  <2>2. late \subseteq late' /\ (Closed("clients") => p \in late') BY <2>1, ArrivesGrows
  <2> QED BY <1>2, <2>1, <2>2
<1> QED
  BY <1>3, <1>4, <1>5, <1>6, <1>7, <1>8, Zenon DEF ListenerStep

\* A new socket of a connection of which no socket is open, as far as it is known.
LEMMA NewSocketLate ==
    ASSUME TypeOKConnection, ConnectionsLate, NEW c \in Connections, NewSocket(c),
           stopping' = stopping, known' = known \/ known' = known \union {c},
           \A s \in open : s[1] = c => c \notin known'
    PROVE  ConnectionsLate' /\ late \subseteq late'
<1>1. Closed("connections")' = Closed("connections") BY ClosedSame
<1> DEFINE new == <<c, sockets[c] + 1>>
<1>2. /\ open' = open \union {new} /\ valid' = valid \union {c}
      /\ sockets'[c] = sockets[c] + 1 /\ \A d \in Connections \ {c} : sockets'[d] = sockets[d]
      /\ Arrives("connections", c)
  BY DEF NewSocket, TypeOKConnection
<1>3. late \subseteq late' /\ (Closed("connections") => c \in late') BY <1>2, ArrivesGrows
<1>4. Current(c)' = {new} /\ new[1] = c BY <1>2 DEF Current, Newest
<1>5. \A d \in Connections \ {c} : Current(d)' = Current(d) BY <1>2 DEF Current, Newest
<1>6. \A s \in open : s[1] \in Connections BY DEF TypeOKConnection, Sockets
<1> HIDE DEF new
<1>7. OnlyCurrent'
  <2> SUFFICES ASSUME NEW s \in open', s[1] \in known' PROVE s \in Current(s[1])'
    BY DEF OnlyCurrent
  <2>1. CASE s = new BY <1>4, <2>1
  <2>2. CASE s \in open /\ s[1] # c
    <3>1. s[1] \in known /\ s[1] \in Connections \ {c} BY <1>6, <2>2
    <3>2. s \in Current(s[1]) BY <2>2, <3>1 DEF ConnectionsLate, OnlyCurrent
    <3> QED BY <1>5, <3>1, <3>2
  <2>3. CASE s \in open /\ s[1] = c BY <2>3
  <2> QED BY <1>2, <2>1, <2>2, <2>3
<1>8. Closed("connections") => \A s \in open' : s[1] \in late' \/ s[1] \notin known'
  <2> SUFFICES ASSUME Closed("connections"), NEW s \in open'
               PROVE  s[1] \in late' \/ s[1] \notin known'
    OBVIOUS
  <2>1. CASE s = new BY <1>3, <1>4, <2>1
  <2>2. CASE s \in open BY <1>3, <2>2 DEF ConnectionsLate
  <2> QED BY <1>2, <2>1, <2>2
<1> QED BY <1>1, <1>3, <1>7, <1>8 DEF ConnectionsLate

LEMMA ConnectionStepLate ==
    ASSUME ConnectionTypes, ConnectionsLate, ConnectionStep
    PROVE  ConnectionsLate' /\ late \subseteq late'
<1>a. stopping' = stopping BY ConnectionLeavesStatus DEF status_vars
<1>b. TypeOKConnection BY DEF ConnectionTypes
<1>1. ASSUME open' \subseteq open, known' \subseteq known, UNCHANGED <<valid, sockets, late>>
      PROVE  ConnectionsLate' /\ late \subseteq late'
  BY <1>a, <1>1, ClosedSame, ConnectionsLateFrame
<1>2. ASSUME NEW c \in Connections, PendingTcpConnection(c) \/ CreateTcpConnection(c)
      PROVE  ConnectionsLate' /\ late \subseteq late'
  <2>1. caller[c] = "idle" /\ NewSocket(c) /\ known' = known \union {c}
    BY <1>2 DEF PendingTcpConnection, CreateTcpConnection, Enter
  <2>2. \A n \in 1..MaxSockets : <<c, n>> \notin open BY <2>1 DEF ConnectionTypes, Unborn
  <2>3. \A s \in open : s[1] # c
    <3>1. \A s \in open : s = <<s[1], s[2]>> /\ s[2] \in 1..MaxSockets
      BY <1>b DEF TypeOKConnection, Sockets
    <3> QED BY <2>2, <3>1
  <2> QED BY <1>a, <1>b, <2>1, <2>3, NewSocketLate
<1>3. ASSUME NEW c \in Connections,
             \/ FirstConnect(c) \/ FirstRead(c) \/ SendTcpData(c) \/ Disconnect(c)
             \/ \E n \in 1..MaxSockets : Connected(c, n) \/ Sent(c, n)
      PROVE  ConnectionsLate' /\ late \subseteq late'
  <2>1. open' \subseteq open
    BY <1>3 DEF FirstConnect, ConnectEx, ConnectExFails, FirstRead, SendTcpData, Disconnect,
                Connected, Sent, socket_vars
  <2>2. UNCHANGED <<known, valid, sockets, late>>
    BY <1>3, Zenon DEF FirstConnect, FirstRead, SendTcpData, Disconnect, Connected, Sent, socket_vars,
              server_vars
  <2> QED BY <1>1, <2>1, <2>2
<1>4. ASSUME NEW s \in Sockets, Establish(s)
      PROVE  ConnectionsLate' /\ late \subseteq late'
  BY <1>1, <1>4 DEF Establish, server_vars
<1>5. ASSUME NEW c \in Connections, Reconnect(c)
      PROVE  ConnectionsLate' /\ late \subseteq late'
  <2>1. known' = known BY <1>5 DEF Reconnect
  <2>2. \/ c \notin valid /\ NewSocket(c)
        \/ open' \subseteq open /\ UNCHANGED <<sockets, valid, late>>
    BY <1>5 DEF Reconnect, ConnectEx, ConnectExFails
  <2>3. CASE c \notin valid /\ NewSocket(c)
    <3>1. \A s \in open : s[1] = c => c \notin known
      BY <2>3 DEF ConnectionsLate, OnlyCurrent, Current
    <3> QED BY <1>a, <1>b, <2>1, <2>3, <3>1, NewSocketLate
  <2> QED BY <1>1, <2>1, <2>2, <2>3
<1>6. ASSUME NEW c \in Connections, NEW reusable, NEW lock, NEW gone, NEW up,
             PreTcpDisconnect(c, reusable, lock, gone, up), UNCHANGED <<sockets, late>>
      PROVE  ConnectionsLate' /\ late \subseteq late'
  <2>1. /\ open' \subseteq open /\ known' \subseteq known
        /\ \/ valid' = valid
           \/ valid' = valid \ {c} /\ open' \subseteq open \ Current(c)
    <3>1. CASE "terminate" \notin status /\ c \in keep
      <4>1. /\ known' = known
            /\ \/ open' = open \ gone /\ valid' = valid
               \/ open' = open \ (gone \union Current(c)) /\ valid' = valid \ {c}
        BY <1>6, <3>1, Zenon DEF PreTcpDisconnect
      <4> QED BY <4>1
    <3>2. CASE ~("terminate" \notin status /\ c \in keep)
      <4>1. open' = open \ gone /\ valid' = valid /\ known' = known \ {c}
        BY <1>6, <3>2, Zenon DEF PreTcpDisconnect
      <4> QED BY <4>1
    <3> QED BY <3>1, <3>2
  <2>2. CASE valid' = valid BY <1>1, <1>6, <2>1, <2>2
  <2>3. CASE valid' = valid \ {c} /\ open' \subseteq open \ Current(c)
    <3>1. \A d \in Connections \ {c} : Current(d)' = Current(d)
      BY <1>6, <2>3 DEF Current, Newest
    <3>2. \A s \in open' : s \in open /\ s \notin Current(c) /\ s[1] \in Connections
      BY <1>b, <2>3 DEF TypeOKConnection, Sockets
    <3>3. OnlyCurrent'
      <4> SUFFICES ASSUME NEW s \in open', s[1] \in known' PROVE s \in Current(s[1])'
        BY DEF OnlyCurrent
      <4>1. s \in open /\ s[1] \in known /\ s \notin Current(c) /\ s[1] \in Connections
        BY <2>1, <3>2
      <4>2. s \in Current(s[1]) BY <4>1 DEF ConnectionsLate, OnlyCurrent
      <4>3. s[1] # c BY <4>1, <4>2
      <4> QED BY <3>1, <4>1, <4>2, <4>3
    <3>4. Closed("connections")' = Closed("connections") BY <1>a, ClosedSame
    <3> QED BY <1>6, <2>1, <3>2, <3>3, <3>4 DEF ConnectionsLate
  <2> QED BY <2>1, <2>2, <2>3
<1>7. ASSUME NEW c \in Connections, NEW n \in 1..MaxSockets,
             \/ ConnectFails(c, n) \/ Received(c, n)
             \/ ReadsNothing(c, n) \/ WritesNothing(c, n)
      PROVE  ConnectionsLate' /\ late \subseteq late'
  <2>1. UNCHANGED <<sockets, late>>
    BY <1>7, Zenon DEF ConnectFails, Received, ReadsNothing, WritesNothing, TornDown
  <2>2. \/ UNCHANGED <<open, known, valid>>
        \/ \E reusable, lock, gone, up : PreTcpDisconnect(c, reusable, lock, gone, up)
    BY <1>7, Zenon DEF ConnectFails, Received, ReadsNothing, WritesNothing, TornDown
  <2> QED BY <1>1, <1>6, <2>1, <2>2
<1> QED
  BY <1>2, <1>3, <1>4, <1>5, <1>7, Zenon DEF ConnectionStep

LEMMA UdpStepLate ==
    ASSUME TypeOKUdp, UdpLate, UdpStep
    PROVE  UdpLate' /\ late \subseteq late'
<1>a. stopping' = stopping BY UdpLeavesStatus DEF status_vars
<1>b. Closed("servers")' = Closed("servers") BY <1>a, ClosedSame
<1>1. CASE BeginUdpServer
  <2>1. /\ udp_begin = "idle" /\ udp_begin' = "reading" /\ udp_known' = TRUE
        /\ udp_open' = Families /\ udp_valid' = Families /\ udp_marked' = udp_marked
        /\ Arrives("servers", "udp")
    BY <1>1 DEF BeginUdpServer
  <2>3. udp_marked = {} BY <2>1 DEF UdpLate
  <2>2. late \subseteq late' /\ (Closed("servers") => "udp" \in late') BY <2>1, ArrivesGrows
  <2> QED BY <1>b, <2>1, <2>2, <2>3 DEF UdpLate
<1>2. CASE UdpDelivered
  BY <1>2, <1>a, ClosedSame, UdpLateFrame DEF UdpDelivered, udp_socket_vars
<1>3. CASE KillUdpServer
  <2>1. /\ udp_known /\ udp_open' = udp_open \ udp_valid
        /\ UNCHANGED <<udp_begin, udp_valid, udp_marked, late>>
    BY <1>3 DEF KillUdpServer, server_vars
  <2>2. udp_open' = {} /\ udp_begin # "idle" BY <2>1 DEF UdpLate
  <2> QED BY <2>1, <2>2 DEF UdpLate
<1>4. ASSUME NEW f \in Families,
             \/ FirstUdpRead(f) \/ UdpReceived(f) \/ UdpSent(f) \/ SendUdpData(f)
             \/ SendUdpDataFails(f)
      PROVE  UdpLate' /\ late \subseteq late'
  <2>1. udp_open' \subseteq udp_open
    BY <1>4 DEF FirstUdpRead, UdpReceived, UdpSent, SendUdpData, SendUdpDataFails, udp_socket_vars
  <2>2. UNCHANGED <<udp_known, udp_valid, udp_marked, udp_begin, late>>
    BY <1>4, Zenon DEF FirstUdpRead, UdpReceived, UdpSent, SendUdpData, SendUdpDataFails,
                       udp_socket_vars, server_vars
  <2>3. udp_begin # "idle"
    <3>1. udp_begin = "reading" \/ f \in udp_reads \/ f \in udp_open \/ udp_writes[f] > 0
      BY <1>4, Zenon DEF FirstUdpRead, UdpReceived, UdpSent, SendUdpData, SendUdpDataFails
    <3> QED BY <3>1 DEF UdpLate
  <2> QED BY <1>a, <2>1, <2>2, <2>3, ClosedSame, UdpLateFrame
<1>5. ASSUME NEW f \in Families, UdpReadEmpty(f) \/ UdpWriteEmpty(f)
      PROVE  UdpLate' /\ late \subseteq late'
  <2>1. /\ UNCHANGED <<udp_begin, udp_known, late>> /\ udp_begin' = udp_begin
        /\ \E kind : UdpEmpty(f, kind)
    BY <1>5, Zenon DEF UdpReadEmpty, UdpWriteEmpty
  <2> DEFINE g == Closes(f)
  <2>2. /\ udp_open' = IF g \in udp_marked THEN udp_open ELSE udp_open \ {g}
        /\ udp_marked' = udp_marked \union {g}
        /\ udp_valid' = udp_valid \ {g}
    BY <2>1, Zenon DEF UdpEmpty
  <2> HIDE DEF g
  <2>3. g \notin udp_open' /\ udp_open' \subseteq udp_open BY <2>2 DEF UdpLate
  <2>4. udp_begin # "idle"
    <3>1. f \in udp_reads \/ udp_writes[f] > 0
      BY <1>5 DEF UdpReadEmpty, UdpWriteEmpty
    <3> QED BY <3>1 DEF UdpLate
  <2> QED BY <1>b, <2>1, <2>2, <2>3, <2>4 DEF UdpLate
<1> QED BY <1>1, <1>2, <1>3, <1>4, <1>5, Zenon DEF UdpStep

LEMMA FolderStepLate ==
    ASSUME TypeOKFolder, FolderShape, FolderLate, FolderStep
    PROVE  FolderLate' /\ late \subseteq late'
<1>a. stopping' = stopping BY FolderLeavesStatus DEF status_vars
<1>b. Closed("folders")' = Closed("folders") BY <1>a, ClosedSame
<1>1. CASE MonitorFolder
  BY <1>1, <1>b DEF MonitorFolder, FolderShape, FolderLate, server_vars
<1>2. CASE Record
  <2>1. Arrives("folders", "folder") BY <1>2 DEF Record
  <2>2. late \subseteq late' /\ (Closed("folders") => "folder" \in late')
    BY <2>1, ArrivesGrows
  <2> QED BY <1>b, <2>2 DEF FolderLate
<1>3. CASE Nothing \/ Changes \/ Rewatch \/ RewatchFails \/ Notice
  <2>1. (folder_open' => folder_open) /\ (in_set' => in_set) /\ late' = late
    <3>1. CASE Nothing
      <4>1. folder_open' = folder_open /\ late' = late BY <3>1 DEF Nothing
      <4>2. in_set' = in_set \/ in_set' = (in_set /\ folder_closed)
        BY <3>1, Zenon DEF Nothing
      <4> QED BY <4>1, <4>2 DEF TypeOKFolder
    <3>2. CASE Changes \/ Rewatch \/ Notice
      <4>1. UNCHANGED <<folder_open, in_set, late>>
        BY <3>2, Zenon DEF Changes, Rewatch, Notice
      <4> QED BY <4>1
    <3>3. CASE RewatchFails
      <4>1. folder_open' = FALSE /\ late' = late BY <3>3 DEF RewatchFails
      <4>2. in_set' = in_set \/ in_set' = FALSE BY <3>3, Zenon DEF RewatchFails
      <4> QED BY <4>1, <4>2
    <3> QED BY <1>3, <3>1, <3>2, <3>3
  <2> QED BY <1>a, <2>1, ClosedSame, FolderLateFrame
<1> QED BY <1>1, <1>2, <1>3 DEF FolderStep

\* A stage of Terminate that is not the end of closing a kind closes nothing of it.
LEMMA StageCloses ==
    ASSUME TypeOKServer, NEW t \in Terminators, NEW from, NEW to, Stage(t, from, to), NEW k,
           to \in After(k) => from \in After(k)
    PROVE  Closed(k)' => Closed(k)
<1>1. /\ stopping[t] = from /\ stopping'[t] = to
      /\ \A u \in Terminators \ {t} : stopping'[u] = stopping[u]
  BY DEF Stage, TypeOKServer
<1>2. Closed(k)' => \E u \in Terminators : stopping'[u] \in After(k) BY DEF Closed
<1> QED BY <1>1, <1>2 DEF Closed

LEMMA AfterEach ==
    /\ After("folders") = Stages \ {"idle", "entering", "folders"}
    /\ After("servers") = Stages \ {"idle", "entering", "folders", "servers"}
    /\ After("clients") = {"connections", "flag", "waiting", "returned"}
    /\ After("connections") = {"flag", "waiting", "returned"}
  BY DEF After

\* The stages and what closes in them.
LEMMA StopStages ==
    ASSUME TypeOKServer, NEW t \in Terminators, StopStep(t)
    PROVE  /\ CloseAllMonitoredFolder(t) \/ (Closed("folders")' => Closed("folders"))
           /\ KillAllServers(t) \/ (Closed("servers")' => Closed("servers"))
           /\ KillAllClient(t) \/ (Closed("clients")' => Closed("clients"))
           /\ KillAllConnections(t) \/ (Closed("connections")' => Closed("connections"))
           /\ late' = late /\ UNCHANGED <<workers, ended>>
           /\ Done => Done'
           /\ "terminate" \in status' => "terminate" \in status \/ Done'
<1>1. late' = late /\ UNCHANGED <<workers, ended>>
  BY Zenon DEF StopStep, Terminate, SetPreterminate, SetTerminate, WaitForServerUnlock,
         CloseAllMonitoredFolder, KillAllServers, KillAllClient, KillAllConnections, Advance,
         pool_vars
<1>2. \/ Stage(t, "idle", "entering") /\ Terminate(t)
      \/ Stage(t, "entering", "folders") /\ SetPreterminate(t)
      \/ Stage(t, "folders", "servers") /\ CloseAllMonitoredFolder(t)
      \/ Stage(t, "servers", "clients") /\ KillAllServers(t)
      \/ Stage(t, "clients", "connections") /\ KillAllClient(t)
      \/ Stage(t, "connections", "flag") /\ KillAllConnections(t)
      \/ Stage(t, "flag", "waiting") /\ SetTerminate(t)
      \/ Stage(t, "waiting", "returned") /\ WaitForServerUnlock(t)
  <2>1. Terminate(t) => Stage(t, "idle", "entering") BY Zenon DEF Terminate, Advance
  <2>2. SetPreterminate(t) => Stage(t, "entering", "folders") BY Zenon DEF SetPreterminate, Advance
  <2>3. SetTerminate(t) => Stage(t, "flag", "waiting") BY Zenon DEF SetTerminate, Advance
  <2>4. WaitForServerUnlock(t) => Stage(t, "waiting", "returned") BY Zenon DEF WaitForServerUnlock, Advance
  <2>5. CloseAllMonitoredFolder(t) => Stage(t, "folders", "servers") BY Zenon DEF CloseAllMonitoredFolder, Advance
  <2>6. KillAllServers(t) => Stage(t, "servers", "clients") BY Zenon DEF KillAllServers, Advance
  <2>7. KillAllClient(t) => Stage(t, "clients", "connections") BY Zenon DEF KillAllClient, Advance
  <2>8. KillAllConnections(t) => Stage(t, "connections", "flag") BY Zenon DEF KillAllConnections, Advance
  <2> QED BY <2>1, <2>2, <2>3, <2>4, <2>5, <2>6, <2>7, <2>8, Zenon DEF StopStep
<1>3. ASSUME NEW from, NEW to, Stage(t, from, to), NEW k, to \in After(k) => from \in After(k)
      PROVE  Closed(k)' => Closed(k)
  BY <1>3, StageCloses
<1> USE AfterEach DEF Stages
<1>4. CloseAllMonitoredFolder(t) \/ (Closed("folders")' => Closed("folders"))
  <2>1. ASSUME NEW from, NEW to, Stage(t, from, to),
               <<from, to>> \in {<<"idle", "entering">>, <<"entering", "folders">>,
                  <<"servers", "clients">>, <<"clients", "connections">>,
                  <<"connections", "flag">>, <<"flag", "waiting">>, <<"waiting", "returned">>}
        PROVE  Closed("folders")' => Closed("folders")
    <3>1. to \in After("folders") => from \in After("folders") BY <2>1
    <3> QED BY <1>3, <2>1, <3>1
  <2> QED BY <1>2, <2>1
<1>5. KillAllServers(t) \/ (Closed("servers")' => Closed("servers"))
  <2>1. ASSUME NEW from, NEW to, Stage(t, from, to),
               <<from, to>> \in {<<"idle", "entering">>, <<"entering", "folders">>,
                  <<"folders", "servers">>, <<"clients", "connections">>,
                  <<"connections", "flag">>, <<"flag", "waiting">>, <<"waiting", "returned">>}
        PROVE  Closed("servers")' => Closed("servers")
    <3>1. to \in After("servers") => from \in After("servers") BY <2>1
    <3> QED BY <1>3, <2>1, <3>1
  <2> QED BY <1>2, <2>1
<1>6. KillAllClient(t) \/ (Closed("clients")' => Closed("clients"))
  <2>1. ASSUME NEW from, NEW to, Stage(t, from, to),
               <<from, to>> \in {<<"idle", "entering">>, <<"entering", "folders">>,
                  <<"folders", "servers">>, <<"servers", "clients">>,
                  <<"connections", "flag">>, <<"flag", "waiting">>, <<"waiting", "returned">>}
        PROVE  Closed("clients")' => Closed("clients")
    <3>1. to \in After("clients") => from \in After("clients") BY <2>1
    <3> QED BY <1>3, <2>1, <3>1
  <2> QED BY <1>2, <2>1
<1>7. KillAllConnections(t) \/ (Closed("connections")' => Closed("connections"))
  <2>1. ASSUME NEW from, NEW to, Stage(t, from, to),
               <<from, to>> \in {<<"idle", "entering">>, <<"entering", "folders">>,
                  <<"folders", "servers">>, <<"servers", "clients">>,
                  <<"clients", "connections">>, <<"flag", "waiting">>, <<"waiting", "returned">>}
        PROVE  Closed("connections")' => Closed("connections")
    <3>1. to \in After("connections") => from \in After("connections") BY <2>1
    <3> QED BY <1>3, <2>1, <3>1
  <2> QED BY <1>2, <2>1
<1>8. ASSUME NEW from, NEW to, Stage(t, from, to),
             from \in {"waiting", "returned"} => to \in {"waiting", "returned"}
      PROVE  Done => Done'
  <2>1. /\ stopping[t] = from /\ stopping'[t] = to
        /\ \A u \in Terminators \ {t} : stopping'[u] = stopping[u]
    BY <1>8 DEF Stage, TypeOKServer
  <2> QED BY <1>8, <2>1 DEF Done
<1>9. Done => Done' BY <1>2, <1>8
<1>10. "terminate" \in status' => "terminate" \in status \/ Done'
  <2>1. CASE SetTerminate(t)
    <3>1. stopping'[t] = "waiting" BY <2>1 DEF SetTerminate, Stage, TypeOKServer
    <3> QED BY <3>1 DEF Done
  <2>2. CASE SetPreterminate(t) BY <2>2 DEF SetPreterminate
  <2>3. CASE ~SetTerminate(t) /\ ~SetPreterminate(t)
    BY <2>3, Zenon DEF StopStep, Terminate, WaitForServerUnlock,
         CloseAllMonitoredFolder, KillAllServers, KillAllClient, KillAllConnections, Advance
  <2> QED BY <2>1, <2>2, <2>3
<1> QED BY <1>1, <1>4, <1>5, <1>6, <1>7, <1>9, <1>10

\* A step of Terminate closes all of a kind.
LEMMA StopLate ==
    ASSUME TypeInv, SurviveInv, NEW t \in Terminators, StopStep(t)
    PROVE  SurviveInv'
<1>a. TypeOKServer /\ TypeOKListener /\ TypeOKConnection /\ TypeOKUdp /\ TypeOKFolder
      /\ FolderShape
  BY DEF TypeInv, TypeOK
<1>b. Stopped /\ ListenersLate /\ ConnectionsLate /\ UdpLate /\ FolderLate BY DEF SurviveInv
<1>c. /\ CloseAllMonitoredFolder(t) \/ (Closed("folders")' => Closed("folders"))
      /\ KillAllServers(t) \/ (Closed("servers")' => Closed("servers"))
      /\ KillAllClient(t) \/ (Closed("clients")' => Closed("clients"))
      /\ KillAllConnections(t) \/ (Closed("connections")' => Closed("connections"))
      /\ late' = late /\ late \subseteq late' /\ UNCHANGED <<workers, ended>>
      /\ Done => Done'
      /\ "terminate" \in status' => "terminate" \in status \/ Done'
  BY <1>a, StopStages
<1>1. Stopped' BY <1>b, <1>c DEF Stopped
<1>2. ListenersLate'
  <2>1. CASE KillAllServers(t)
    <3>1. /\ \/ registered \in Listeners /\ listening' = listening \ {registered}
             \/ registered \notin Listeners /\ listening' = listening
          /\ UNCHANGED <<peer, registered>>
      BY <2>1 DEF KillAllServers, CloseListeners, client_vars
    <3>2. Closed("clients")' => Closed("clients")
      <4>1. Stage(t, "servers", "clients") BY <2>1 DEF KillAllServers, Advance
      <4> QED BY <1>a, <4>1, AfterEach, StageCloses
    <3>3. listening \subseteq Listeners BY <1>a DEF TypeOKListener
    <3>4. listening' \subseteq late' BY <1>b, <1>c, <3>1, <3>3 DEF ListenersLate
    <3> QED BY <1>b, <1>c, <3>1, <3>2, <3>4 DEF ListenersLate
  <2>2. CASE KillAllClient(t)
    <3>1. /\ peer' = [p \in Peers |-> CASE peer[p] = "open" -> "closing"
                                         [] peer[p] = "talking" -> "told"
                                         [] OTHER -> peer[p]]
          /\ UNCHANGED <<listening, registered>>
      BY <2>2 DEF KillAllClient, CloseClients
    <3>2. \A p \in Peers : peer'[p] \notin {"open", "talking"} BY <3>1
    <3>3. Closed("servers")' => Closed("servers")
      <4>1. Stage(t, "clients", "connections") BY <2>2 DEF KillAllClient, Advance
      <4> QED BY <1>a, <4>1, AfterEach, StageCloses DEF Stages
    <3> QED BY <1>b, <1>c, <3>1, <3>2, <3>3 DEF ListenersLate
  <2>3. CASE ~KillAllServers(t) /\ ~KillAllClient(t)
    <3>1. UNCHANGED <<listening, registered, peer>>
      BY <2>3, Zenon DEF StopStep, CloseAllMonitoredFolder, KillAllConnections, part_vars,
                  listener_vars, client_vars
    <3> QED BY <1>b, <1>c, <2>3, <3>1, ListenersLateFrame
  <2> QED BY <2>1, <2>2, <2>3
<1>3. ConnectionsLate'
  <2>1. CASE KillAllConnections(t)
    <3>1. /\ open' = open \ UNION {Current(c) : c \in known}
          /\ UNCHANGED <<known, valid, sockets>>
      BY <2>1 DEF KillAllConnections, CloseConnections
    <3>2. \A c : Current(c)' = Current(c) BY <3>1 DEF Current, Newest
    <3>3. OnlyCurrent' BY <1>b, <3>1, <3>2 DEF ConnectionsLate, OnlyCurrent
    <3>4. \A s \in open' : s[1] \notin known' BY <1>b, <3>1 DEF ConnectionsLate, OnlyCurrent
    <3> QED BY <3>3, <3>4 DEF ConnectionsLate
  <2>2. CASE ~KillAllConnections(t)
    <3>1. UNCHANGED <<open, known, valid, sockets>>
      BY <2>2, Zenon DEF StopStep, CloseAllMonitoredFolder, KillAllServers, KillAllClient,
                  part_vars, connection_vars, socket_vars
    <3> QED BY <1>b, <1>c, <2>2, <3>1, ConnectionsLateFrame
  <2> QED BY <2>1, <2>2
<1>4. UdpLate'
  <2>1. CASE KillAllServers(t)
    <3>1. /\ udp_open' = IF udp_known THEN udp_open \ udp_valid ELSE udp_open
          /\ udp_marked' = IF udp_known THEN udp_marked \union Families ELSE udp_marked
          /\ UNCHANGED <<udp_known, udp_valid, udp_begin, udp_reads, udp_writes>>
      BY <2>1 DEF KillAllServers, CloseUdp
    <3>2. udp_known => udp_open' = {} BY <1>b, <3>1 DEF UdpLate
    <3> QED BY <1>b, <1>c, <3>1, <3>2 DEF UdpLate
  <2>2. CASE ~KillAllServers(t)
    <3>1. UNCHANGED <<udp_open, udp_known, udp_valid, udp_marked, udp_begin, udp_reads, udp_writes>>
      BY <2>2, Zenon DEF StopStep, CloseAllMonitoredFolder, KillAllClient, KillAllConnections,
                  part_vars, udp_vars, udp_socket_vars
    <3> QED BY <1>b, <1>c, <2>2, <3>1, UdpLateFrame
  <2> QED BY <2>1, <2>2
<1>5. FolderLate'
  <2>1. CASE CloseAllMonitoredFolder(t)
    <3>1. /\ in_set => folder_open' = FALSE
          /\ in_set' = in_set
      BY <2>1 DEF CloseAllMonitoredFolder, CloseFolders
    <3> QED BY <3>1 DEF FolderLate
  <2>2. CASE ~CloseAllMonitoredFolder(t)
    <3>1. UNCHANGED <<folder_open, in_set>>
      BY <2>2, Zenon DEF StopStep, KillAllServers, KillAllClient, KillAllConnections,
                  part_vars, folder_vars
    <3> QED BY <1>b, <1>c, <2>2, <3>1, FolderLateFrame
  <2> QED BY <2>1, <2>2
<1> QED BY <1>1, <1>2, <1>3, <1>4, <1>5 DEF SurviveInv

LEMMA PartLeavesPool ==
    ASSUME TypeInv, Accepted, PartStep
    PROVE  UNCHANGED <<status, stopping, started, unlocked, ended, workers>>
<1>1. UNCHANGED status_vars BY PartsLeaveStatus
<1>2. workers' = workers
  <2>1. /\ TypeOKServer /\ TypeOKListener /\ TypeOKConnection /\ TypeOKUdp /\ TypeOKFolder
        /\ ListenersFinite /\ ConnectionsFinite /\ FolderShape
        /\ \A c \in Connections : Unborn(c)
    BY DEF TypeInv, TypeOK, BusyInv
  <2>2. CASE ListenerStep BY <2>1, <2>2, ListenerMoves DEF Moves
  <2>3. CASE ConnectionStep BY <2>1, <2>3, ConnectionMoves DEF Moves
  <2>4. CASE UdpStep BY <2>1, <2>4, UdpTyped DEF Moves
  <2>5. CASE FolderStep BY <2>1, <2>5, FolderTyped DEF Moves
  <2> QED BY <2>2, <2>3, <2>4, <2>5 DEF PartStep
<1> QED BY <1>1, <1>2 DEF status_vars

LEMMA PartLate ==
    ASSUME TypeInv, Accepted, SurviveInv, PartStep
    PROVE  SurviveInv'
<1>a. TypeOKServer /\ TypeOKListener /\ TypeOKConnection /\ TypeOKUdp /\ TypeOKFolder
      /\ FolderShape /\ \A c \in Connections : Unborn(c)
  BY DEF TypeInv, TypeOK
<1>b. Stopped /\ ListenersLate /\ ConnectionsLate /\ UdpLate /\ FolderLate BY DEF SurviveInv
<1>c. UNCHANGED <<status, stopping, ended, workers>> BY PartLeavesPool
<1>d. \A k : Closed(k)' = Closed(k) BY <1>c, ClosedSame
<1>1. Stopped' BY <1>b, <1>c DEF Stopped, Done
<1>2. late \subseteq late' /\ UNCHANGED listener_vars => ListenersLate'
  <2>1. UNCHANGED listener_vars => UNCHANGED <<listening, registered, peer>>
    BY DEF listener_vars, client_vars
  <2> QED BY <1>b, <1>d, <2>1, ListenersLateFrame
<1>3. late \subseteq late' /\ UNCHANGED connection_vars => ConnectionsLate'
  <2>1. UNCHANGED connection_vars => UNCHANGED <<open, known, valid, sockets>>
    BY DEF connection_vars, socket_vars
  <2> QED BY <1>b, <1>d, <2>1, ConnectionsLateFrame
<1>4. late \subseteq late' /\ UNCHANGED udp_vars => UdpLate'
  <2>1. UNCHANGED udp_vars
        => UNCHANGED <<udp_open, udp_known, udp_valid, udp_marked, udp_begin, udp_reads, udp_writes>>
    BY DEF udp_vars, udp_socket_vars
  <2> QED BY <1>b, <1>d, <2>1, UdpLateFrame
<1>5. late \subseteq late' /\ UNCHANGED folder_vars => FolderLate'
  <2>1. UNCHANGED folder_vars => UNCHANGED <<folder_open, in_set>> BY DEF folder_vars
  <2> QED BY <1>b, <1>d, <2>1, FolderLateFrame
<1>6. CASE ListenerStep /\ UNCHANGED <<connection_vars, udp_vars, folder_vars>>
  <2>1. ListenersLate' /\ late \subseteq late' BY <1>a, <1>b, <1>6, ListenerStepLate
  <2> QED BY <1>1, <1>3, <1>4, <1>5, <1>6, <2>1 DEF SurviveInv
<1>7. CASE ConnectionStep /\ UNCHANGED <<listener_vars, udp_vars, folder_vars>>
  <2>1. ConnectionsLate' /\ late \subseteq late' BY <1>a, <1>b, <1>7, ConnectionStepLate DEF ConnectionTypes
  <2> QED BY <1>1, <1>2, <1>4, <1>5, <1>7, <2>1 DEF SurviveInv
<1>8. CASE UdpStep /\ UNCHANGED <<listener_vars, connection_vars, folder_vars>>
  <2>1. UdpLate' /\ late \subseteq late' BY <1>a, <1>b, <1>8, UdpStepLate
  <2> QED BY <1>1, <1>2, <1>3, <1>5, <1>8, <2>1 DEF SurviveInv
<1>9. CASE FolderStep /\ UNCHANGED <<listener_vars, connection_vars, udp_vars>>
  <2>1. FolderLate' /\ late \subseteq late' BY <1>a, <1>b, <1>9, FolderStepLate
  <2> QED BY <1>1, <1>2, <1>3, <1>4, <1>9, <2>1 DEF SurviveInv
<1> QED BY <1>6, <1>7, <1>8, <1>9 DEF PartStep

LEMMA SurviveInit == Init => SurviveInv
<1> SUFFICES ASSUME Init PROVE SurviveInv OBVIOUS
<1>1. status = {} /\ workers = Workers /\ ended = FALSE
      /\ stopping = [t \in Terminators |-> "idle"]
  BY DEF Init, InitServer
<1>2. /\ listening = {} /\ peer = [p \in Peers |-> "none"] BY DEF Init, InitListener
<1>3. open = {} BY DEF Init, InitConnection
<1>4. /\ udp_begin = "idle" /\ ~udp_known /\ udp_valid = {} /\ udp_marked = {} /\ udp_reads = {}
      /\ udp_open = {} /\ udp_writes = [f \in Families |-> 0]
  BY DEF Init, InitUdp
<1>5. ~folder_open BY DEF Init, InitFolder
<1>6. Stopped BY <1>1, WorkersAssumption DEF Stopped
<1>7. ListenersLate BY <1>2 DEF ListenersLate
<1>8. ConnectionsLate BY <1>3 DEF ConnectionsLate, OnlyCurrent
<1>9. UdpLate BY <1>4 DEF UdpLate
<1>10. FolderLate BY <1>5 DEF FolderLate
<1> QED BY <1>6, <1>7, <1>8, <1>9, <1>10 DEF SurviveInv

LEMMA SurviveNext == TypeInv /\ PostInv /\ SurviveInv /\ [Next]_vars => SurviveInv'
<1> SUFFICES ASSUME TypeInv, PostInv, SurviveInv, [Next]_vars PROVE SurviveInv' OBVIOUS
<1>a. Stopped /\ ListenersLate /\ ConnectionsLate /\ UdpLate /\ FolderLate BY DEF SurviveInv
<1>b. setup \in Configurations /\ workers \in 0 .. Workers
  BY DEF TypeInv, TypeOK, TypeOKServer
<1>0. callers \subseteq Terminators BY <1>b, ConfigurationsAssumption DEF callers
<1>1. CASE PartStep
  <2>1. Accepted BY DEF PostInv
  <2> QED BY <1>1, <2>1, PartLate
<1>2. ASSUME NEW t \in callers, StopStep(t) PROVE SurviveInv' BY <1>0, <1>2, StopLate
<1>3. ASSUME Stopped', stopping' = stopping, late' = late,
             UNCHANGED <<listening, registered, peer, open, known, valid, sockets, udp_open,
                         udp_known, udp_valid, udp_marked, udp_begin, udp_reads, udp_writes,
                         folder_open, in_set>>
      PROVE  SurviveInv'
  <2>1. \A k : Closed(k)' = Closed(k) BY <1>3, ClosedSame
  <2>2. ListenersLate' BY <1>a, <1>3, <2>1, ListenersLateFrame
  <2>3. ConnectionsLate' BY <1>a, <1>3, <2>1, ConnectionsLateFrame
  <2>4. UdpLate' BY <1>a, <1>3, <2>1, UdpLateFrame
  <2>5. FolderLate' BY <1>a, <1>3, <2>1, FolderLateFrame
  <2> QED BY <1>3, <2>2, <2>3, <2>4, <2>5 DEF SurviveInv
<1>4. CASE (StartServer \/ WorkerLeaves) /\ UNCHANGED part_vars
  <2>1. stopping' = stopping /\ status' = status /\ ended' = ended /\ late' = late
    BY <1>4, Zenon DEF StartServer, WorkerLeaves, status_vars, pool_vars
  <2>2. Stopped'
    <3>1. CASE StartServer BY <1>a, <2>1, <3>1 DEF StartServer, pool_vars, Stopped, Done
    <3>2. CASE WorkerLeaves BY <1>a, <2>1, <3>2 DEF WorkerLeaves, Stopped, Done
    <3> QED BY <1>4, <3>1, <3>2
  <2> QED BY <1>3, <1>4, <2>1, <2>2
          DEF part_vars, listener_vars, client_vars, connection_vars, socket_vars, udp_vars,
              udp_socket_vars, folder_vars
<1>5. CASE Shutdown
  <2>1. /\ workers = 0 /\ UNCHANGED <<status, stopping, late>>
    BY <1>5 DEF Shutdown, Run
  <2>2. Done BY <1>a, <2>1, WorkersAssumption DEF Stopped
  <2>3. Stopped' BY <2>1, <2>2 DEF Stopped, Done
  <2>4. \A k : Closed(k)' = Closed(k) BY <2>1, ClosedSame
  <2>5. Closed("servers") BY <2>2, DoneClosed DEF Kinds
  <2>6. UNCHANGED <<listening, peer, connection_vars, udp_begin, udp_socket_vars, udp_reads,
                    udp_writes>>
        /\ udp_known' = FALSE
    BY <1>5 DEF Shutdown, client_vars
  <2>7. UNCHANGED <<folder_open, in_set>> BY <1>5 DEF Shutdown, ClearFolders
  <2>8. ListenersLate' BY <1>a, <2>1, <2>4, <2>5, <2>6 DEF ListenersLate
  <2>9. ConnectionsLate'
    BY <1>a, <2>1, <2>4, <2>6, ConnectionsLateFrame DEF connection_vars, socket_vars
  <2>10. UdpLate'
    <3>1. UNCHANGED <<udp_open, udp_valid, udp_marked, udp_begin, udp_reads, udp_writes>>
      BY <2>6 DEF udp_socket_vars
    <3> QED BY <1>a, <2>1, <2>4, <2>5, <2>6, <3>1 DEF UdpLate
  <2>11. FolderLate' BY <1>a, <2>1, <2>4, <2>7, FolderLateFrame
  <2> QED BY <2>3, <2>8, <2>9, <2>10, <2>11 DEF SurviveInv
<1>6. CASE UNCHANGED vars
  <2>1. Stopped' /\ stopping' = stopping /\ late' = late
    BY <1>a, <1>6 DEF vars, server_vars, status_vars, pool_vars, Stopped, Done
  <2> QED BY <1>3, <1>6, <2>1
          DEF vars, part_vars, listener_vars, client_vars, connection_vars, socket_vars, udp_vars,
              udp_socket_vars, folder_vars
<1> QED BY <1>1, <1>2, <1>4, <1>5, <1>6, Zenon DEF Next

\* When Run has returned, nothing is open but what was opened after Terminate had closed
\* all of its kind (BeginTcpServer, a client accepted late, a reconnect, MonitorFolder: none
\* of them tests PRETERMINATE), and handles the server had no record of any more.
THEOREM OnlyLateSurvives == Spec => []OnlyLateSurvive
<1>1. TypeInv /\ SurviveInv => OnlyLateSurvive
  <2> SUFFICES ASSUME TypeInv, SurviveInv, ended PROVE OpenThings \subseteq late \union Forgotten
    BY DEF OnlyLateSurvive
  <2>a. Stopped /\ ListenersLate /\ ConnectionsLate /\ UdpLate /\ FolderLate BY DEF SurviveInv
  <2>b. \A k \in Kinds : Closed(k) BY <2>a, DoneClosed DEF Stopped
  <2>1. listening \subseteq late BY <2>a, <2>b DEF Kinds, ListenersLate
  <2>2. {p \in Peers : peer[p] \in {"open", "talking"}} \subseteq late
    BY <2>a, <2>b DEF Kinds, ListenersLate
  <2>3. {s[1] : s \in open} \subseteq late \union (Connections \ known)
    <3>1. \A s \in open : s[1] \in Connections
      BY DEF TypeInv, TypeOK, TypeOKConnection, Sockets
    <3> QED BY <2>a, <2>b, <3>1 DEF Kinds, ConnectionsLate
  <2>4. (IF udp_open # {} THEN {"udp"} ELSE {}) \subseteq late
    BY <2>a, <2>b DEF Kinds, UdpLate
  <2>5. (IF folder_open THEN {"folder"} ELSE {}) \subseteq late \union (IF in_set THEN {} ELSE {"folder"})
    BY <2>a, <2>b DEF Kinds, FolderLate
  <2> QED BY <2>1, <2>2, <2>3, <2>4, <2>5 DEF OpenThings, Forgotten
<1>2. Spec => []SurviveInv
  BY TypeInvariant, SurviveInit, SurviveNext, PTL DEF Spec
<1> QED BY <1>1, <1>2, TypeInvariant, PTL
-----------------------------------------------------------------------------
(* What a connection hangs by.                                             *)

LockedOnce(c) == IF c \in locked THEN 1 ELSE 0
StrandedOnce(c) == IF c \in stranded THEN 1 ELSE 0
Made(c) == IF caller[c] = "done" THEN 1 ELSE 0

\* One lifeline from the end of the call that makes the connection, and none before it.
Life(c) ==
    Total(connects, c) + Total(reads, c) + retrying[c] + LockedOnce(c) + events[c]
        + StrandedOnce(c) = Made(c)

LifeOf(c) ==
    /\ Life(c)
    /\ \A n \in 1..MaxSockets : writes[<<c, n>>] = 0
    /\ link_key[c] = "deleted" => events[c] > 0
LifeInv == \A c \in Connections : c \notin wrote => LifeOf(c)

\* Of six counts that make one, one is one.
LEMMA OneOfSix ==
    ASSUME NEW k \in Nat, NEW r \in Nat, NEW y \in Nat, NEW l \in Nat, NEW e \in Nat,
           NEW s \in Nat, NEW d \in {0, 1}, k + r + y + l + e + s = d
    PROVE  /\ k > 0 => k = 1 /\ r = 0 /\ y = 0 /\ l = 0 /\ e = 0 /\ s = 0 /\ d = 1
           /\ r > 0 => k = 0 /\ r = 1 /\ y = 0 /\ l = 0 /\ e = 0 /\ s = 0 /\ d = 1
           /\ y > 0 => k = 0 /\ r = 0 /\ y = 1 /\ l = 0 /\ e = 0 /\ s = 0 /\ d = 1
           /\ l > 0 => k = 0 /\ r = 0 /\ y = 0 /\ l = 1 /\ e = 0 /\ s = 0 /\ d = 1
           /\ e > 0 => k = 0 /\ r = 0 /\ y = 0 /\ l = 0 /\ e = 1 /\ s = 0 /\ d = 1
           /\ d = 0 => k = 0 /\ r = 0 /\ y = 0 /\ l = 0 /\ e = 0 /\ s = 0
  OBVIOUS

\* The sum over the sockets of a connection.
LEMMA SocketsFinite ==
    ASSUME NEW c \in Connections
    PROVE  IsFiniteSet({c} \X (1..MaxSockets)) /\ {c} \X (1..MaxSockets) \subseteq Sockets
<1>1. IsFiniteSet({c}) /\ IsFiniteSet(1..MaxSockets)
  <2>1. 1 \in Int /\ MaxSockets \in Int BY MaxSocketsAssumption
  <2> QED BY <2>1, FS_Singleton, FS_Interval
<1>2. IsFiniteSet({c} \X (1..MaxSockets)) BY <1>1, FS_Product
<1> QED BY <1>2 DEF Sockets

LEMMA TotalFacts ==
    ASSUME NEW f \in [Sockets -> Nat], NEW c \in Connections, NEW n \in 1..MaxSockets
    PROVE  /\ Total(f, c) \in Nat
           /\ f[<<c, n>>] \in Nat /\ f[<<c, n>>] <= Total(f, c)
           /\ Add(f, <<c, n>>) \in [Sockets -> Nat]
           /\ Total(Add(f, <<c, n>>), c) = Total(f, c) + 1
           /\ f[<<c, n>>] > 0 => /\ Sub(f, <<c, n>>) \in [Sockets -> Nat]
                                 /\ Total(Sub(f, <<c, n>>), c) = Total(f, c) - 1
<1> DEFINE S == {c} \X (1..MaxSockets)
           x == <<c, n>>
<1>1. IsFiniteSet(S) /\ S \subseteq Sockets /\ x \in S BY SocketsFinite
<1>2. \A y \in S : f[y] \in Nat BY <1>1
<1>3. f[x] \in Nat BY <1>1, <1>2
<1>4. Total(f, c) \in Nat BY <1>1, <1>2, SumNat DEF Total
<1>5. /\ Add(f, x) \in [Sockets -> Nat] /\ Add(f, x)[x] = f[x] + 1
      /\ \A y \in Sockets \ {x} : Add(f, x)[y] = f[y]
  BY <1>1, AddFacts
<1>6. f[x] > 0 => /\ Sub(f, x) \in [Sockets -> Nat] /\ Sub(f, x)[x] = f[x] - 1
                  /\ \A y \in Sockets \ {x} : Sub(f, x)[y] = f[y]
  BY <1>1, SubFacts
<1> HIDE DEF S, x
<1>7. SumFunctionOnSet(f, S) = f[x] + SumFunctionOnSet(f, S \ {x})
      /\ SumFunctionOnSet(f, S \ {x}) \in Nat
  <2>1. IsFiniteSet(S \ {x}) BY <1>1, FS_RemoveElement
  <2>2. \A y \in S : f[y] \in Int BY <1>2
  <2> QED BY <1>1, <1>2, <2>1, <2>2, SumRemove, SumNat
<1>8. SumFunctionOnSet(Add(f, x), S) = SumFunctionOnSet(f, S) - f[x] + Add(f, x)[x]
  <2> DEFINE h == Add(f, x)
  <2>1. \A y \in S : f[y] \in Int /\ h[y] \in Int BY <1>1, <1>2, <1>5
  <2>2. \A y \in S \ {x} : f[y] = h[y] BY <1>1, <1>5
  <2> HIDE DEF h
  <2>3. SumFunctionOnSet(h, S) = SumFunctionOnSet(f, S) - f[x] + h[x]
    BY <1>1, <2>1, <2>2, SumUpdate
  <2> QED BY <2>3 DEF h
<1>9. f[x] > 0 => SumFunctionOnSet(Sub(f, x), S) = SumFunctionOnSet(f, S) - f[x] + Sub(f, x)[x]
  <2> SUFFICES ASSUME f[x] > 0
               PROVE  SumFunctionOnSet(Sub(f, x), S) = SumFunctionOnSet(f, S) - f[x] + Sub(f, x)[x]
    OBVIOUS
  <2> DEFINE h == Sub(f, x)
  <2>1. \A y \in S : f[y] \in Int /\ h[y] \in Int BY <1>1, <1>2, <1>6
  <2>2. \A y \in S \ {x} : f[y] = h[y] BY <1>1, <1>6
  <2> HIDE DEF h
  <2>3. SumFunctionOnSet(h, S) = SumFunctionOnSet(f, S) - f[x] + h[x]
    BY <1>1, <2>1, <2>2, SumUpdate
  <2> QED BY <2>3 DEF h
<1>10. \A g : Total(g, c) = SumFunctionOnSet(g, S) BY DEF Total, S
<1>11. f[x] <= Total(f, c) BY <1>3, <1>7, <1>10
<1>12. Total(Add(f, x), c) = Total(f, c) + 1 BY <1>3, <1>4, <1>5, <1>8, <1>10
<1>13. f[x] > 0 => Total(Sub(f, x), c) = Total(f, c) - 1 BY <1>3, <1>4, <1>6, <1>9, <1>10
<1> QED BY <1>3, <1>4, <1>5, <1>6, <1>11, <1>12, <1>13 DEF x

LEMMA TotalSame ==
    ASSUME NEW f \in [Sockets -> Nat], NEW c \in Connections, NEW h,
           \A n \in 1..MaxSockets : h[<<c, n>>] = f[<<c, n>>]
    PROVE  Total(h, c) = Total(f, c)
<1> DEFINE S == {c} \X (1..MaxSockets)
<1>1. IsFiniteSet(S) /\ S \subseteq Sockets BY SocketsFinite
<1>2. \A x \in S : f[x] = h[x] /\ f[x] \in Int BY <1>1
<1> QED BY <1>1, <1>2, SumSame DEF Total

\* No lifeline but the given ones.
Rest(k, r, y, l, e, s) == k = 0 /\ r = 0 /\ y = 0 /\ l = 0 /\ e = 0 /\ s = 0

LEMMA LifeTypes ==
    ASSUME TypeOKConnection, NEW c \in Connections
    PROVE  /\ Total(connects, c) \in Nat /\ Total(reads, c) \in Nat
           /\ retrying[c] \in Nat /\ events[c] \in Nat
           /\ LockedOnce(c) \in {0, 1} /\ StrandedOnce(c) \in {0, 1} /\ Made(c) \in {0, 1}
           /\ c \in locked <=> LockedOnce(c) > 0
           /\ c \in stranded <=> StrandedOnce(c) > 0
           /\ \A n \in 1..MaxSockets :
                 /\ connects[<<c, n>>] > 0 => Total(connects, c) > 0
                 /\ reads[<<c, n>>] > 0 => Total(reads, c) > 0
<1>1. connects \in [Sockets -> Nat] /\ reads \in [Sockets -> Nat]
      /\ retrying \in [Connections -> Nat] /\ events \in [Connections -> Nat]
  BY DEF TypeOKConnection
<1>2. 1 \in 1..MaxSockets BY MaxSocketsAssumption
<1>3. \A n \in 1..MaxSockets :
         /\ Total(connects, c) \in Nat /\ connects[<<c, n>>] \in Nat
         /\ connects[<<c, n>>] <= Total(connects, c)
  BY <1>1, TotalFacts
<1>4. \A n \in 1..MaxSockets :
         /\ Total(reads, c) \in Nat /\ reads[<<c, n>>] \in Nat
         /\ reads[<<c, n>>] <= Total(reads, c)
  BY <1>1, TotalFacts
<1>5. Total(connects, c) \in Nat /\ Total(reads, c) \in Nat BY <1>2, <1>3, <1>4
<1>6. \A n \in 1..MaxSockets : connects[<<c, n>>] > 0 => Total(connects, c) > 0
  BY <1>3, <1>5
<1>7. \A n \in 1..MaxSockets : reads[<<c, n>>] > 0 => Total(reads, c) > 0
  BY <1>4, <1>5
<1>8. LockedOnce(c) \in {0, 1} /\ StrandedOnce(c) \in {0, 1} /\ Made(c) \in {0, 1}
      /\ (c \in locked <=> LockedOnce(c) > 0) /\ (c \in stranded <=> StrandedOnce(c) > 0)
  BY DEF LockedOnce, StrandedOnce, Made
<1> QED BY <1>1, <1>5, <1>6, <1>7, <1>8

\* Where the one lifeline is.
LEMMA LifeIs ==
    ASSUME TypeOKConnection, NEW c \in Connections, Life(c)
    PROVE  LET k == Total(connects, c)
               r == Total(reads, c)
               y == retrying[c]
               l == LockedOnce(c)
               e == events[c]
               s == StrandedOnce(c)
           IN  /\ \A n \in 1..MaxSockets : connects[<<c, n>>] > 0 => k = 1 /\ Rest(0, r, y, l, e, s)
               /\ \A n \in 1..MaxSockets : reads[<<c, n>>] > 0 => r = 1 /\ Rest(k, 0, y, l, e, s)
               /\ y > 0 => y = 1 /\ Rest(k, r, 0, l, e, s)
               /\ c \in locked => l = 1 /\ Rest(k, r, y, 0, e, s)
               /\ caller[c] # "done" => Rest(k, r, y, l, e, s)
               /\ (\E n \in 1..MaxSockets : connects[<<c, n>>] > 0 \/ reads[<<c, n>>] > 0)
                    \/ y > 0 \/ c \in locked => caller[c] = "done"
<1> DEFINE k == Total(connects, c)
           r == Total(reads, c)
           y == retrying[c]
           l == LockedOnce(c)
           e == events[c]
           s == StrandedOnce(c)
           d == Made(c)
<1>1. /\ k \in Nat /\ r \in Nat /\ y \in Nat /\ l \in Nat /\ e \in Nat /\ s \in Nat
      /\ d \in {0, 1}
      /\ c \in locked <=> l > 0
      /\ \A n \in 1..MaxSockets :
            (connects[<<c, n>>] > 0 => k > 0) /\ (reads[<<c, n>>] > 0 => r > 0)
  BY LifeTypes
<1>2. k + r + y + l + e + s = d BY DEF Life
<1>3. (d = 1 => caller[c] = "done") /\ (caller[c] # "done" => d = 0) BY DEF Made
<1> HIDE DEF k, r, y, l, e, s, d
<1>4. /\ k > 0 => k = 1 /\ r = 0 /\ y = 0 /\ l = 0 /\ e = 0 /\ s = 0 /\ d = 1
      /\ r > 0 => k = 0 /\ r = 1 /\ y = 0 /\ l = 0 /\ e = 0 /\ s = 0 /\ d = 1
      /\ y > 0 => k = 0 /\ r = 0 /\ y = 1 /\ l = 0 /\ e = 0 /\ s = 0 /\ d = 1
      /\ l > 0 => k = 0 /\ r = 0 /\ y = 0 /\ l = 1 /\ e = 0 /\ s = 0 /\ d = 1
      /\ d = 0 => k = 0 /\ r = 0 /\ y = 0 /\ l = 0 /\ e = 0 /\ s = 0
  BY <1>1, <1>2, OneOfSix
<1>5. /\ \A n \in 1..MaxSockets : connects[<<c, n>>] > 0 => k = 1 /\ Rest(0, r, y, l, e, s)
      /\ \A n \in 1..MaxSockets : reads[<<c, n>>] > 0 => r = 1 /\ Rest(k, 0, y, l, e, s)
      /\ y > 0 => y = 1 /\ Rest(k, r, 0, l, e, s)
      /\ c \in locked => l = 1 /\ Rest(k, r, y, 0, e, s)
      /\ caller[c] # "done" => Rest(k, r, y, l, e, s)
      /\ (\E n \in 1..MaxSockets : connects[<<c, n>>] > 0 \/ reads[<<c, n>>] > 0)
           \/ y > 0 \/ c \in locked => caller[c] = "done"
  BY <1>1, <1>3, <1>4 DEF Rest
<1> QED BY <1>5 DEF k, r, y, l, e, s

\* The READ after a connect, whose result is not looked at.
LEMMA FirstReadLife ==
    ASSUME TypeOKConnection, NEW c \in Connections, FirstReadIssued(c),
           Total(reads, c) = 0, StrandedOnce(c) = 0
    PROVE  \/ Total(reads', c) = 1 /\ StrandedOnce(c)' = 0
           \/ Total(reads', c) = 0 /\ StrandedOnce(c)' = 1
<1>1. c \notin stranded BY DEF StrandedOnce
<1>2. CASE CanRead(c) /\ reads' = Add(reads, Newest(c)) /\ UNCHANGED stranded
  <2>1. reads \in [Sockets -> Nat] /\ Newest(c) \in Sockets
    BY <1>2, NewestFacts DEF TypeOKConnection
  <2>2. sockets[c] \in 1..MaxSockets /\ Newest(c) = <<c, sockets[c]>> BY <2>1 DEF Newest, Sockets
  <2>3. Total(Add(reads, Newest(c)), c) = Total(reads, c) + 1 BY <2>1, <2>2, TotalFacts
  <2>4. Total(reads', c) = 1 BY <1>2, <2>3
  <2> QED BY <1>1, <1>2, <2>4 DEF StrandedOnce
<1>3. CASE stranded' = stranded \union {c} /\ UNCHANGED reads
  <2>1. StrandedOnce(c)' = 1 BY <1>3 DEF StrandedOnce
  <2>2. Total(reads', c) = 0 BY <1>3
  <2> QED BY <2>1, <2>2
<1> QED BY <1>2, <1>3 DEF FirstReadIssued, ReadIssued

LEMMA ConnectLife ==
    ASSUME TypeOKConnection, NEW c \in Connections, ConnectEx(c) \/ ConnectExFails(c),
           Total(connects, c) = 0, StrandedOnce(c) = 0
    PROVE  \/ Total(connects', c) = 1 /\ StrandedOnce(c)' = 0
           \/ Total(connects', c) = 0 /\ StrandedOnce(c)' = 1
<1>1. c \notin stranded BY DEF StrandedOnce
<1>2. CASE ConnectEx(c)
  <2>1. connects \in [Sockets -> Nat] /\ Newest(c) \in Sockets
    BY <1>2, NewestFacts DEF TypeOKConnection, ConnectEx
  <2>2. sockets[c] \in 1..MaxSockets /\ Newest(c) = <<c, sockets[c]>> BY <2>1 DEF Newest, Sockets
  <2>3. Total(Add(connects, Newest(c)), c) = Total(connects, c) + 1 BY <2>1, <2>2, TotalFacts
  <2>4. connects' = Add(connects, Newest(c)) /\ UNCHANGED stranded BY <1>2 DEF ConnectEx
  <2>5. Total(connects', c) = 1 BY <2>3, <2>4
  <2> QED BY <1>1, <2>4, <2>5 DEF StrandedOnce
<1>3. CASE ConnectExFails(c)
  <2>0. stranded' = stranded \union {c} /\ UNCHANGED connects BY <1>3 DEF ConnectExFails
  <2>1. StrandedOnce(c)' = 1 BY <2>0 DEF StrandedOnce
  <2>2. Total(connects', c) = 0 BY <2>0
  <2> QED BY <2>1, <2>2
<1> QED BY <1>2, <1>3

\* PreTcpDisconnect hands the connection to a worker, or reports it.
LEMMA LostLife ==
    ASSUME TypeOKConnection, NEW c \in Connections, NEW reusable \in BOOLEAN,
           NEW lock \in BOOLEAN, NEW gone, NEW up,
           PreTcpDisconnect(c, reusable, lock, gone, up),
           retrying[c] = 0, LockedOnce(c) = 0, events[c] = 0, link_key[c] # "deleted"
    PROVE  /\ \/ retrying'[c] = 1 /\ LockedOnce(c)' = 0 /\ events'[c] = 0
              \/ retrying'[c] = 0 /\ LockedOnce(c)' = 1 /\ events'[c] = 0
              \/ retrying'[c] = 0 /\ LockedOnce(c)' = 0 /\ events'[c] = 1
           /\ link_key'[c] = "deleted" => events'[c] > 0
<1>1. c \notin locked BY DEF LockedOnce
<1>2. Add(retrying, c)[c] = 1 /\ Add(events, c)[c] = 1
  BY AddFacts DEF TypeOKConnection
<1>3. CASE "terminate" \notin status /\ c \in keep
  <2>1. /\ \/ locked' = locked \union {c} /\ retrying' = retrying
           \/ locked' = locked /\ retrying' = Add(retrying, c)
        /\ link_key' = link_key /\ events' = events
    BY <1>3 DEF PreTcpDisconnect
  <2> QED BY <1>1, <1>2, <2>1 DEF LockedOnce
<1>4. CASE ~("terminate" \notin status /\ c \in keep)
  <2>1. retrying' = retrying /\ locked' = locked /\ events' = Add(events, c)
    BY <1>4 DEF PreTcpDisconnect
  <2> QED BY <1>1, <1>2, <2>1 DEF LockedOnce
<1> QED BY <1>3, <1>4

\* The one lifeline again: which of the six counts it is does not matter.
Six(k, r, y, l, e, s, d) == k + r + y + l + e + s = d

LEMMA SixFacts ==
    /\ Six(1, 0, 0, 0, 0, 0, 1) /\ Six(0, 1, 0, 0, 0, 0, 1) /\ Six(0, 0, 1, 0, 0, 0, 1)
    /\ Six(0, 0, 0, 1, 0, 0, 1) /\ Six(0, 0, 0, 0, 1, 0, 1) /\ Six(0, 0, 0, 0, 0, 1, 1)
    /\ Six(0, 0, 0, 0, 0, 0, 0)
  BY DEF Six

\* A step of a connection on which nothing is sent.
LEMMA LifeStep ==
    ASSUME TypeOKConnection, NEW c \in Connections, LifeOf(c), ConnectionStepOf(c), c \notin wrote'
    PROVE  /\ LifeOf(c)'
           /\ \/ UNCHANGED undefined
              \/ Use(c) /\ link_key[c] # "deleted"
<1> DEFINE k == Total(connects, c)
           r == Total(reads, c)
           y == retrying[c]
           l == LockedOnce(c)
           e == events[c]
           s == StrandedOnce(c)
<1>a. /\ Life(c) /\ \A n \in 1..MaxSockets : writes[<<c, n>>] = 0
      /\ link_key[c] = "deleted" => e > 0
  BY DEF LifeOf
<1>b. caller = [x \in Connections |-> caller[x]]
      /\ link_key = [x \in Connections |-> link_key[x]]
      /\ retrying \in [Connections -> Nat]
      /\ connects \in [Sockets -> Nat] /\ reads \in [Sockets -> Nat]
      /\ \A n : n \in 1..MaxSockets => <<c, n>> \in Sockets
  BY DEF TypeOKConnection, Sockets
<1>c. /\ \A n \in 1..MaxSockets : connects[<<c, n>>] > 0 => k = 1 /\ Rest(0, r, y, l, e, s)
      /\ \A n \in 1..MaxSockets : reads[<<c, n>>] > 0 => r = 1 /\ Rest(k, 0, y, l, e, s)
      /\ y > 0 => y = 1 /\ Rest(k, r, 0, l, e, s)
      /\ c \in locked => l = 1 /\ Rest(k, r, y, 0, e, s)
      /\ caller[c] # "done" => Rest(k, r, y, l, e, s)
      /\ (\E n \in 1..MaxSockets : connects[<<c, n>>] > 0 \/ reads[<<c, n>>] > 0)
           \/ y > 0 \/ c \in locked => caller[c] = "done"
  BY <1>a, LifeIs
<1>d. e = 0 => link_key[c] # "deleted" BY <1>a
<1>e. ASSUME Six(Total(connects', c), Total(reads', c), retrying'[c], LockedOnce(c)', events'[c],
                 StrandedOnce(c)', Made(c)'),
             UNCHANGED writes, link_key'[c] = "deleted" => events'[c] > 0
      PROVE  LifeOf(c)'
  <2>1. Life(c)' BY <1>e DEF Six, Life
  <2> QED BY <1>a, <1>e, <2>1 DEF LifeOf
<1>f. caller'[c] = "done" => Made(c)' = 1 BY DEF Made
<1>g. caller'[c] # "done" => Made(c)' = 0 BY DEF Made
<1> HIDE DEF k, r, y, l, e, s
<1>1. CASE PendingTcpConnection(c) \/ CreateTcpConnection(c)
  <2>1. /\ caller[c] = "idle" /\ link_key'[c] = "live"
        /\ UNCHANGED <<connects, reads, writes, retrying, locked, events, stranded, undefined>>
    BY <1>1, <1>b DEF PendingTcpConnection, CreateTcpConnection, Enter, operation_vars
  <2>2. caller'[c] # "done" BY <1>1, <1>b DEF PendingTcpConnection, CreateTcpConnection
  <2>3. /\ Total(connects', c) = 0 /\ Total(reads', c) = 0 /\ retrying'[c] = 0
        /\ LockedOnce(c)' = 0 /\ events'[c] = 0 /\ StrandedOnce(c)' = 0
    BY <1>c, <2>1 DEF Rest, k, r, y, l, e, s, LockedOnce, StrandedOnce
  <2>4. Made(c)' = 0 BY <1>g, <2>2
  <2> QED BY <1>e, <2>1, <2>3, <2>4, SixFacts
<1>2. CASE FirstConnect(c)
  <2>1. /\ caller[c] = "pending" /\ caller'[c] = "done"
        /\ UNCHANGED <<reads, writes, link_key, retrying, locked, events, undefined>>
        /\ ConnectEx(c) \/ ConnectExFails(c)
    BY <1>2, <1>b DEF FirstConnect
  <2>2. Rest(k, r, y, l, e, s) BY <1>c, <2>1
  <2>3. \/ Total(connects', c) = 1 /\ StrandedOnce(c)' = 0
        \/ Total(connects', c) = 0 /\ StrandedOnce(c)' = 1
    BY <2>1, <2>2, ConnectLife DEF Rest, k, s
  <2>4. /\ Total(reads', c) = 0 /\ retrying'[c] = 0 /\ LockedOnce(c)' = 0 /\ events'[c] = 0
    BY <2>1, <2>2 DEF Rest, r, y, l, e, LockedOnce
  <2>5. link_key'[c] # "deleted" BY <1>d, <2>1, <2>2 DEF Rest
  <2>6. Made(c)' = 1 BY <1>f, <2>1
  <2> QED BY <1>e, <2>1, <2>3, <2>4, <2>5, <2>6, SixFacts
<1>3. CASE FirstRead(c)
  <2>1. /\ caller[c] = "created" /\ caller'[c] = "done"
        /\ UNCHANGED <<connects, writes, link_key, retrying, locked, events, undefined>>
        /\ FirstReadIssued(c)
    BY <1>3, <1>b DEF FirstRead
  <2>2. Rest(k, r, y, l, e, s) BY <1>c, <2>1
  <2>3. \/ Total(reads', c) = 1 /\ StrandedOnce(c)' = 0
        \/ Total(reads', c) = 0 /\ StrandedOnce(c)' = 1
    BY <2>1, <2>2, FirstReadLife DEF Rest, r, s
  <2>4. /\ Total(connects', c) = 0 /\ retrying'[c] = 0 /\ LockedOnce(c)' = 0 /\ events'[c] = 0
    BY <2>1, <2>2 DEF Rest, k, y, l, e, LockedOnce
  <2>5. link_key'[c] # "deleted" BY <1>d, <2>1, <2>2 DEF Rest
  <2>6. Made(c)' = 1 BY <1>f, <2>1
  <2> QED BY <1>e, <2>1, <2>3, <2>4, <2>5, <2>6, SixFacts
<1>4. CASE Reconnect(c)
  <2>1. /\ \/ c \in locked /\ locked' = locked \ {c} /\ UNCHANGED retrying
           \/ y > 0 /\ retrying' = Sub(retrying, c) /\ UNCHANGED locked
        /\ UNCHANGED <<caller, reads, writes, link_key, events>> /\ Use(c)
    BY <1>4 DEF Reconnect, y
  <2>2. k = 0 /\ r = 0 /\ e = 0 /\ s = 0 /\ caller[c] = "done" BY <1>c, <2>1 DEF Rest
  <2>3. retrying'[c] = 0 /\ LockedOnce(c)' = 0
    <3>1. CASE c \in locked /\ locked' = locked \ {c} /\ UNCHANGED retrying
      BY <1>c, <3>1 DEF Rest, y, LockedOnce
    <3>2. CASE y > 0 /\ retrying' = Sub(retrying, c) /\ UNCHANGED locked
      <4>1. y = 1 /\ l = 0 BY <1>c, <3>2 DEF Rest
      <4>2. Sub(retrying, c)[c] = y - 1 BY <1>b, <3>2, SubFacts DEF y
      <4>3. LockedOnce(c)' = l BY <3>2 DEF LockedOnce, l
      <4> QED BY <3>2, <4>1, <4>2, <4>3
    <3> QED BY <2>1, <3>1, <3>2
  <2>4. \/ Total(connects', c) = 1 /\ StrandedOnce(c)' = 0
        \/ Total(connects', c) = 0 /\ StrandedOnce(c)' = 1
    <3>1. CASE /\ sockets[c] < MaxSockets /\ connects' = Add(connects, <<c, sockets[c] + 1>>)
               /\ UNCHANGED stranded
      <4>1. sockets[c] + 1 \in 1..MaxSockets
        <5>1. sockets[c] \in 0..MaxSockets /\ MaxSockets \in Nat
          BY MaxSocketsAssumption DEF TypeOKConnection
        <5> QED BY <3>1, <5>1
      <4>2. Total(Add(connects, <<c, sockets[c] + 1>>), c) = Total(connects, c) + 1
        BY <1>b, <4>1, TotalFacts
      <4>3. Total(connects', c) = 1 BY <2>2, <3>1, <4>2 DEF k
      <4>4. StrandedOnce(c)' = 0 BY <2>2, <3>1 DEF StrandedOnce, s
      <4> QED BY <4>3, <4>4
    <3>2. CASE stranded' = stranded \union {c} /\ UNCHANGED connects
      <4>1. StrandedOnce(c)' = 1 BY <3>2 DEF StrandedOnce
      <4>2. Total(connects', c) = 0 BY <2>2, <3>2 DEF k
      <4> QED BY <4>1, <4>2
    <3>3. CASE ConnectEx(c) \/ ConnectExFails(c)
      BY <2>2, <3>3, ConnectLife DEF k, s
    <3> QED BY <1>4, <3>1, <3>2, <3>3 DEF Reconnect
  <2>5. Total(reads', c) = 0 /\ events'[c] = 0 BY <2>1, <2>2 DEF r, e
  <2>6. link_key'[c] # "deleted" /\ link_key[c] # "deleted" BY <1>d, <2>1, <2>2
  <2>7. Made(c)' = 1 BY <1>f, <2>1, <2>2
  <2> QED BY <1>e, <2>1, <2>3, <2>4, <2>5, <2>6, <2>7, SixFacts
<1>5. ASSUME NEW n \in 1..MaxSockets, Connected(c, n)
      PROVE  LifeOf(c)' /\ Use(c) /\ link_key[c] # "deleted"
  <2>1. /\ connects[<<c, n>>] > 0 /\ connects' = Sub(connects, <<c, n>>) /\ FirstReadIssued(c)
        /\ UNCHANGED <<caller, writes, link_key, retrying, locked, events>> /\ Use(c)
    BY <1>5 DEF Connected
  <2>2. k = 1 /\ Rest(0, r, y, l, e, s) /\ caller[c] = "done" BY <1>c, <2>1
  <2>3. \/ Total(reads', c) = 1 /\ StrandedOnce(c)' = 0
        \/ Total(reads', c) = 0 /\ StrandedOnce(c)' = 1
    BY <2>1, <2>2, FirstReadLife DEF Rest, r, s
  <2>4. Total(connects', c) = 0
    <3>1. Total(Sub(connects, <<c, n>>), c) = k - 1 BY <1>b, <2>1, TotalFacts DEF k
    <3> QED BY <2>1, <2>2, <3>1
  <2>5. retrying'[c] = 0 /\ LockedOnce(c)' = 0 /\ events'[c] = 0
    BY <2>1, <2>2 DEF Rest, y, l, e, LockedOnce
  <2>6. link_key'[c] # "deleted" /\ link_key[c] # "deleted" BY <1>d, <2>1, <2>2 DEF Rest
  <2>7. Made(c)' = 1 BY <1>f, <2>1, <2>2
  <2> QED BY <1>e, <2>1, <2>3, <2>4, <2>5, <2>6, <2>7, SixFacts
<1>6. ASSUME NEW n \in 1..MaxSockets, NEW reusable \in BOOLEAN, NEW lock \in BOOLEAN,
             NEW gone, NEW up, PreTcpDisconnect(c, reusable, lock, gone, up),
             \/ connects[<<c, n>>] > 0 /\ connects' = Sub(connects, <<c, n>>) /\ reads' = reads
             \/ reads[<<c, n>>] > 0 /\ reads' = Sub(reads, <<c, n>>) /\ connects' = connects,
             UNCHANGED <<caller, writes, stranded>>, Use(c)
      PROVE  LifeOf(c)' /\ Use(c) /\ link_key[c] # "deleted"
  <2>2. y = 0 /\ l = 0 /\ e = 0 /\ s = 0 /\ caller[c] = "done" BY <1>6, <1>c DEF Rest
  <2>3. link_key[c] # "deleted" BY <1>d, <2>2
  <2>4. /\ \/ retrying'[c] = 1 /\ LockedOnce(c)' = 0 /\ events'[c] = 0
           \/ retrying'[c] = 0 /\ LockedOnce(c)' = 1 /\ events'[c] = 0
           \/ retrying'[c] = 0 /\ LockedOnce(c)' = 0 /\ events'[c] = 1
        /\ link_key'[c] = "deleted" => events'[c] > 0
    BY <1>6, <2>2, <2>3, LostLife DEF y, l, e
  <2>5. Total(connects', c) = 0 /\ Total(reads', c) = 0
    <3>1. CASE connects[<<c, n>>] > 0 /\ connects' = Sub(connects, <<c, n>>) /\ reads' = reads
      <4>1. k = 1 /\ r = 0 BY <1>c, <3>1 DEF Rest
      <4>2. Total(Sub(connects, <<c, n>>), c) = k - 1 BY <1>b, <3>1, TotalFacts DEF k
      <4> QED BY <3>1, <4>1, <4>2 DEF r
    <3>2. CASE reads[<<c, n>>] > 0 /\ reads' = Sub(reads, <<c, n>>) /\ connects' = connects
      <4>1. k = 0 /\ r = 1 BY <1>c, <3>2 DEF Rest
      <4>2. Total(Sub(reads, <<c, n>>), c) = r - 1 BY <1>b, <3>2, TotalFacts DEF r
      <4> QED BY <3>2, <4>1, <4>2 DEF k
    <3> QED BY <1>6, <3>1, <3>2
  <2>6. StrandedOnce(c)' = 0 BY <1>6, <2>2 DEF s, StrandedOnce
  <2>7. Made(c)' = 1 BY <1>6, <1>f, <2>2
  <2> QED BY <1>6, <1>e, <2>3, <2>4, <2>5, <2>6, <2>7, SixFacts
<1>7. ASSUME NEW n \in 1..MaxSockets, ConnectFails(c, n)
      PROVE  LifeOf(c)' /\ Use(c) /\ link_key[c] # "deleted"
  <2>1. /\ connects[<<c, n>>] > 0 /\ connects' = Sub(connects, <<c, n>>) /\ reads' = reads
        /\ UNCHANGED <<caller, writes, stranded>> /\ Use(c)
    BY <1>7 DEF ConnectFails
  <2>2. PICK reusable \in {FALSE, <<c, n>> \in open} :
           PreTcpDisconnect(c, reusable, TRUE, {}, c \in linked)
    BY <1>7, Zenon DEF ConnectFails
  <2>3. reusable \in BOOLEAN /\ TRUE \in BOOLEAN
    <3>1. (<<c, n>> \in open) \in BOOLEAN /\ FALSE \in BOOLEAN OBVIOUS
    <3> QED BY <2>2, <3>1, Zenon
  <2> QED BY <1>6, <2>1, <2>2, <2>3
<1>8. ASSUME NEW n \in 1..MaxSockets, Received(c, n)
      PROVE  LifeOf(c)' /\ Use(c) /\ link_key[c] # "deleted"
  <2>1. /\ reads[<<c, n>>] > 0 /\ Use(c) /\ UNCHANGED <<caller, connects, writes>>
    BY <1>8 DEF Received
  <2>2. CASE /\ reads' = Sub(reads, <<c, n>>)
             /\ PreTcpDisconnect(c, FALSE, FALSE, {}, c \in linked)
             /\ UNCHANGED stranded
    BY <1>6, <2>1, <2>2
  <2>3. CASE /\ CanRead(c)
             /\ \/ reads' = Add(Sub(reads, <<c, n>>), Newest(c)) /\ UNCHANGED stranded
                \/ stranded' = stranded \union {c} /\ reads' = Sub(reads, <<c, n>>)
             /\ UNCHANGED <<link_key, retrying, locked, events>>
    <3>1. r = 1 /\ Rest(k, 0, y, l, e, s) /\ caller[c] = "done" BY <1>c, <2>1
    <3>2. Sub(reads, <<c, n>>) \in [Sockets -> Nat] /\ Total(Sub(reads, <<c, n>>), c) = 0
      <4>1. Sub(reads, <<c, n>>) \in [Sockets -> Nat]
            /\ Total(Sub(reads, <<c, n>>), c) = r - 1
        BY <1>b, <2>1, TotalFacts DEF r
      <4> QED BY <3>1, <4>1
    <3>3. \/ Total(reads', c) = 1 /\ StrandedOnce(c)' = 0
          \/ Total(reads', c) = 0 /\ StrandedOnce(c)' = 1
      <4>1. CASE reads' = Add(Sub(reads, <<c, n>>), Newest(c)) /\ UNCHANGED stranded
        <5>1. Newest(c) \in Sockets BY <2>3, NewestFacts
        <5>2. sockets[c] \in 1..MaxSockets /\ Newest(c) = <<c, sockets[c]>>
          BY <5>1 DEF Newest, Sockets
        <5> DEFINE f == Sub(reads, <<c, n>>)
        <5> HIDE DEF f
        <5>3. Total(Add(f, <<c, sockets[c]>>), c) = Total(f, c) + 1
          BY <3>2, <5>2, TotalFacts DEF f
        <5>4. Total(reads', c) = 1 BY <3>2, <4>1, <5>2, <5>3 DEF f
        <5>5. StrandedOnce(c)' = 0 BY <3>1, <4>1 DEF Rest, s, StrandedOnce
        <5> QED BY <5>4, <5>5
      <4>2. CASE stranded' = stranded \union {c} /\ reads' = Sub(reads, <<c, n>>)
        <5>1. StrandedOnce(c)' = 1 BY <4>2 DEF StrandedOnce
        <5>2. Total(reads', c) = 0 BY <3>2, <4>2
        <5> QED BY <5>1, <5>2
      <4> QED BY <2>3, <4>1, <4>2
    <3>4. Total(connects', c) = 0 /\ retrying'[c] = 0 /\ LockedOnce(c)' = 0 /\ events'[c] = 0
      BY <2>1, <2>3, <3>1 DEF Rest, k, y, l, e, LockedOnce
    <3>5. link_key'[c] # "deleted" /\ link_key[c] # "deleted" BY <1>d, <2>3, <3>1 DEF Rest
    <3>6. Made(c)' = 1 BY <1>f, <2>1, <3>1
    <3> QED BY <1>e, <2>1, <3>3, <3>4, <3>5, <3>6, SixFacts
  <2> QED BY <1>8, <2>2, <2>3, Zenon DEF Received
<1>9. ASSUME NEW n \in 1..MaxSockets, ReadsNothing(c, n)
      PROVE  LifeOf(c)' /\ Use(c) /\ link_key[c] # "deleted"
  <2>1. /\ reads[<<c, n>>] > 0 /\ reads' = Sub(reads, <<c, n>>) /\ connects' = connects
        /\ UNCHANGED <<caller, writes, stranded>> /\ Use(c)
        /\ PreTcpDisconnect(c, FALSE, FALSE, {Newest(c)}, FALSE)
    BY <1>9 DEF ReadsNothing, TornDown
  <2> QED BY <1>6, <2>1
<1>10. ASSUME NEW n \in 1..MaxSockets, WritesNothing(c, n) \/ Sent(c, n) PROVE FALSE
  <2>1. writes[<<c, n>>] > 0 BY <1>10 DEF WritesNothing, Sent
  <2>2. writes[<<c, n>>] = 0 BY <1>a
  <2> QED BY <2>1, <2>2
<1>11. CASE SendTcpData(c)
  <2>1. wrote' = wrote \union {c} BY <1>11 DEF SendTcpData
  <2> QED BY <2>1
<1>12. CASE Disconnect(c)
  <2>1. UNCHANGED <<caller, connects, reads, writes, link_key, retrying, locked, events,
                    stranded, undefined>>
    BY <1>12 DEF Disconnect, operation_vars, server_vars
  <2>2. /\ Total(connects', c) = Total(connects, c) /\ Total(reads', c) = Total(reads, c)
        /\ LockedOnce(c)' = LockedOnce(c) /\ StrandedOnce(c)' = StrandedOnce(c)
        /\ Made(c)' = Made(c)
    BY <2>1 DEF LockedOnce, StrandedOnce, Made
  <2>3. LifeOf(c)' BY <1>a, <2>1, <2>2 DEF LifeOf, Life, e
  <2> QED BY <2>1, <2>3
<1> QED
  BY <1>1, <1>2, <1>3, <1>4, <1>5, <1>7, <1>8, <1>9, <1>10, <1>11, <1>12, Zenon
     DEF ConnectionStepOf

LEMMA LifeNext ==
    ASSUME ConnectionTypes, LifeInv, undefined = {}, ConnectionStep
    PROVE  LifeInv' /\ (undefined' = {} \/ (undefined' = {"connection"} /\ wrote' # {}))
<1>a. TypeOKConnection /\ \A c \in Connections : Unborn(c) BY DEF ConnectionTypes
<1>b. /\ connects \in [Sockets -> Nat] /\ reads \in [Sockets -> Nat]
  BY <1>a DEF TypeOKConnection
<1>1. ASSUME NEW c \in Connections, ConnectionStepOf(c)
      PROVE  LifeInv' /\ (undefined' = {} \/ (undefined' = {"connection"} /\ wrote' # {}))
  <2>1. wrote \subseteq wrote'
    BY <1>1, Zenon DEF ConnectionStepOf, PendingTcpConnection, CreateTcpConnection, Enter, FirstConnect,
           FirstRead, Reconnect, SendTcpData, Disconnect, Connected, ConnectFails, Received,
           ReadsNothing, WritesNothing, TornDown, Sent
  <2>2. ASSUME NEW d \in Connections, d # c, d \notin wrote' PROVE LifeOf(d)'
    <3>1. Untouched(d) BY <1>1, <1>a, <2>2, Elsewhere
    <3>2. LifeOf(d) BY <2>1, <2>2 DEF LifeInv
    <3>3. Total(connects', d) = Total(connects, d) /\ Total(reads', d) = Total(reads, d)
      <4>1. \A n \in 1..MaxSockets : connects'[<<d, n>>] = connects[<<d, n>>]
                                      /\ reads'[<<d, n>>] = reads[<<d, n>>]
        BY <3>1 DEF Untouched
      <4> QED BY <1>b, <4>1, TotalSame
    <3>4. /\ LockedOnce(d)' = LockedOnce(d) /\ StrandedOnce(d)' = StrandedOnce(d)
          /\ Made(d)' = Made(d) /\ retrying'[d] = retrying[d] /\ events'[d] = events[d]
          /\ link_key'[d] = link_key[d]
          /\ \A n \in 1..MaxSockets : writes'[<<d, n>>] = writes[<<d, n>>]
      BY <3>1 DEF Untouched, LockedOnce, StrandedOnce, Made
    <3> QED BY <3>2, <3>3, <3>4 DEF LifeOf, Life
  <2>3. CASE c \notin wrote'
    <3>1. LifeOf(c) BY <2>1, <2>3 DEF LifeInv
    <3>2. LifeOf(c)' /\ (UNCHANGED undefined \/ (Use(c) /\ link_key[c] # "deleted"))
      BY <1>1, <1>a, <2>3, <3>1, LifeStep
    <3>3. undefined' = {} BY <3>2 DEF Use
    <3> QED BY <2>2, <3>2, <3>3 DEF LifeInv
  <2>4. CASE c \in wrote'
    <3>1. LifeInv' BY <2>2, <2>4 DEF LifeInv
    <3>2. UNCHANGED undefined \/ Use(c)
      <4>1. CASE PendingTcpConnection(c) \/ CreateTcpConnection(c) \/ FirstConnect(c)
                 \/ FirstRead(c) \/ SendTcpData(c) \/ Disconnect(c)
        BY <4>1 DEF PendingTcpConnection, CreateTcpConnection, Enter, FirstConnect, FirstRead,
                    SendTcpData, Disconnect, server_vars
      <4>2. CASE Reconnect(c) BY <4>2, Zenon DEF Reconnect
      <4>3. ASSUME NEW n \in 1..MaxSockets,
                   \/ Connected(c, n) \/ ConnectFails(c, n) \/ Received(c, n)
                   \/ ReadsNothing(c, n) \/ WritesNothing(c, n) \/ Sent(c, n)
            PROVE  Use(c)
        BY <4>3, Zenon DEF Connected, ConnectFails, Received, ReadsNothing, WritesNothing, TornDown, Sent
      <4> QED BY <1>1, <4>1, <4>2, <4>3, Zenon DEF ConnectionStepOf
    <3>3. undefined' = {} \/ undefined' = {"connection"} BY <3>2 DEF Use, Undefined
    <3> QED BY <2>4, <3>1, <3>3
  <2> QED BY <2>3, <2>4
<1>2. ASSUME NEW s \in Sockets, Establish(s)
      PROVE  LifeInv' /\ undefined' = {}
  <2>1. UNCHANGED <<caller, connects, reads, writes, link_key, retrying, locked, events,
                    stranded, wrote, undefined>>
    BY <1>2 DEF Establish, operation_vars, server_vars
  <2> QED BY <2>1 DEF LifeInv, LifeOf, Life, LockedOnce, StrandedOnce, Made
<1>3. (\E c \in Connections : ConnectionStepOf(c)) \/ \E s \in Sockets : Establish(s)
  BY Zenon DEF ConnectionStep, ConnectionStepOf
<1> QED BY <1>1, <1>2, <1>3

LEMMA LifeFrame ==
    ASSUME LifeInv, UNCHANGED <<caller, connects, reads, writes, link_key, retrying, locked,
                                events, stranded, wrote>>
    PROVE  LifeInv'
  BY DEF LifeInv, LifeOf, Life, LockedOnce, StrandedOnce, Made
-----------------------------------------------------------------------------
(* Memory that was freed.                                                  *)

\* The key of a UDP server that sent nothing is freed by the last READ.
UdpRace ==
    ~udp_wrote => /\ emptied = 0 /\ \A f \in Families : udp_writes[f] = 0
                  /\ udp_key = "deleted" => Reading = {}

LEMMA UdpRaceNext ==
    ASSUME UdpInv, UdpRace, undefined = {}, TypeOKUdp, UdpStep
    PROVE  UdpRace' /\ (undefined' = {} \/ (undefined' = {"udp"} /\ (udp_wrote' \/ ~udp_known')))
<1>a. UdpTypes /\ UdpDisjoint /\ UdpAccounting BY DEF UdpInv
<1>b. /\ udp_wrote \in BOOLEAN /\ udp_known \in BOOLEAN
      /\ udp_writes = [f \in Families |-> udp_writes[f]]
  BY <1>a DEF TypeOKUdp, UdpTypes
<1>c. undefined' = undefined => undefined' = {} OBVIOUS
<1>d. UseUdp => undefined' = {} \/ undefined' = {"udp"} BY DEF UseUdp, Undefined
<1>e. UseUdp /\ udp_key # "deleted" => undefined' = {} BY DEF UseUdp
<1>1. CASE BeginUdpServer
  <2>1. udp_key' = "live" /\ UNCHANGED <<udp_writes, emptied, udp_wrote, undefined>>
    BY <1>1 DEF BeginUdpServer
  <2> QED BY <1>c, <2>1 DEF UdpRace
<1>2. CASE UdpDelivered
  <2>1. /\ UNCHANGED <<udp_writes, emptied, udp_wrote, udp_key, udp_to_read, udp_reads, silent,
                       udp_known>>
        /\ IF ~udp_known THEN UseUdp ELSE UNCHANGED undefined
    BY <1>2 DEF UdpDelivered
  <2>2. UdpRace' BY <2>1 DEF UdpRace, Reading
  <2> QED BY <1>c, <1>d, <2>1, <2>2
<1>3. CASE KillUdpServer
  <2>1. UNCHANGED <<udp_writes, emptied, udp_wrote, udp_key, udp_to_read, udp_reads, silent,
                    undefined>>
    BY <1>3 DEF KillUdpServer, server_vars
  <2> QED BY <1>c, <2>1 DEF UdpRace, Reading
<1>4. ASSUME NEW f \in Families, FirstUdpRead(f)
      PROVE  UdpRace' /\ undefined' = {}
  <2>1. f \in udp_to_read /\ UNCHANGED <<udp_writes, emptied, udp_wrote, udp_key, undefined>>
    BY <1>4 DEF FirstUdpRead
  <2>2. f \in Reading BY <2>1 DEF Reading
  <2> QED BY <2>1, <2>2 DEF UdpRace
<1>5. ASSUME NEW f \in Families, UdpReceived(f)
      PROVE  UdpRace' /\ (undefined' = {} \/ (undefined' = {"udp"} /\ udp_wrote'))
  <2>1. f \in udp_reads /\ UNCHANGED <<udp_writes, emptied, udp_wrote, udp_key>> /\ UseUdp
    BY <1>5 DEF UdpReceived
  <2>2. f \in Reading BY <2>1 DEF Reading
  <2>3. UdpRace' BY <2>1, <2>2 DEF UdpRace
  <2>4. udp_wrote \/ udp_key # "deleted" BY <2>2 DEF UdpRace
  <2> QED BY <1>d, <1>e, <2>1, <2>3, <2>4
<1>6. ASSUME NEW f \in Families, UdpReadEmpty(f)
      PROVE  UdpRace' /\ (undefined' = {} \/ (undefined' = {"udp"} /\ udp_wrote'))
  <2>1. /\ f \in udp_reads /\ udp_reads' = udp_reads \ {f}
        /\ UNCHANGED <<udp_to_read, udp_writes, silent, emptied, udp_wrote>>
        /\ udp_key' = IF udp_pending = 1 THEN "deleted" ELSE udp_key
        /\ UseUdp
    BY <1>6 DEF UdpReadEmpty, UdpEmpty
  <2>2. f \in Reading BY <2>1 DEF Reading
  <2>3. udp_wrote \/ udp_key # "deleted" BY <2>2 DEF UdpRace
  <2>4. CASE udp_wrote BY <1>d, <2>1, <2>4 DEF UdpRace
  <2>5. CASE ~udp_wrote
    <3>1. emptied = 0 /\ (\A g \in Families : udp_writes[g] = 0) /\ udp_key # "deleted"
      BY <2>3, <2>5 DEF UdpRace
    <3>2. udp_pending = 1 => Reading' = {}
      <4>1. Reading' = Reading \ {f}
        BY <1>a, <2>1 DEF UdpDisjoint, Reading
      <4>2. IsFiniteSet(Reading) /\ udp_pending + emptied = Cardinality(Reading)
        <5>1. Reading \subseteq Families BY <1>a DEF UdpTypes, Reading
        <5> QED BY <1>a, <5>1, FamiliesFinite, FS_Subset DEF UdpAccounting, Reading
      <4>3. udp_pending \in Int BY <1>a DEF UdpTypes
      <4>4. udp_pending = 1 => Cardinality(Reading) = 1 BY <3>1, <4>2, <4>3
      <4>5. udp_pending = 1 => Cardinality(Reading \ {f}) = 0 /\ IsFiniteSet(Reading \ {f})
        BY <2>2, <4>2, <4>4, FS_RemoveElement
      <4>6. udp_pending = 1 => Reading \ {f} = {} BY <4>5, FS_EmptySet
      <4> QED BY <4>1, <4>6
    <3>3. UdpRace' BY <2>1, <3>1, <3>2 DEF UdpRace
    <3> QED BY <1>e, <2>1, <3>1, <3>3
  <2> QED BY <1>b, <2>4, <2>5
<1>7. ASSUME NEW f \in Families,
             UdpWriteEmpty(f) \/ UdpSent(f)
      PROVE  UdpRace' /\ (undefined' = {} \/ (undefined' = {"udp"} /\ udp_wrote'))
  <2>1. udp_writes[f] > 0 /\ udp_wrote' = udp_wrote /\ UseUdp
    BY <1>7 DEF UdpWriteEmpty, UdpSent, UdpEmpty
  <2>2. udp_wrote BY <2>1 DEF UdpRace
  <2>3. udp_wrote' BY <2>1, <2>2
  <2> QED BY <1>d, <2>1, <2>3 DEF UdpRace
<1>8. ASSUME NEW f \in Families, SendUdpData(f) PROVE UdpRace' /\ undefined' = {}
  <2>1. udp_wrote' = TRUE /\ UNCHANGED undefined BY <1>8 DEF SendUdpData, server_vars
  <2> QED BY <2>1 DEF UdpRace
<1>9. ASSUME NEW f \in Families, SendUdpDataFails(f) PROVE UdpRace' /\ undefined' = {}
  <2>1. UNCHANGED <<udp_writes, emptied, udp_wrote, udp_key, udp_to_read, udp_reads, silent,
                    undefined>>
    BY <1>9 DEF SendUdpDataFails
  <2> QED BY <2>1 DEF UdpRace, Reading
<1> QED BY <1>1, <1>2, <1>3, <1>4, <1>5, <1>6, <1>7, <1>8, <1>9, Zenon DEF UdpStep

\* A thread that stops the server has closed the folders.
FoldersStopped == \E t \in callers : stopping[t] \in After("folders")

\* A folder that is in the set of handles and not in the map was overtaken, or stopped.
FolderRace ==
    /\ folder_call = "issued" /\ ~in_map => overtaken
    /\ in_set /\ ~in_map => overtaken \/ FoldersStopped
    /\ folder_closed => FoldersStopped
    /\ "terminate" \in status => FoldersStopped

\* Run frees the key of a folder when no worker is left.
NoticeRace == folder_key = "deleted" => workers = 0

ListenerRace == \A l \in Listeners : key[l] = "deleted" => killed # {} \/ status # {}

LEMMA FolderRaceNext ==
    ASSUME TypeOKServer, TypeOKFolder, FolderShape, FolderRace, NoticeRace, undefined = {},
           UNCHANGED <<setup, stopping, status, workers>>, FolderStep
    PROVE  FolderRace' /\ NoticeRace' /\ undefined' = {}
<1>a. /\ in_map \in BOOLEAN /\ in_set \in BOOLEAN /\ overtaken \in BOOLEAN
      /\ folder_closed \in BOOLEAN /\ folder_open \in BOOLEAN
      /\ workers \in Nat /\ busy \in Nat
  BY DEF TypeOKFolder, TypeOKServer
<1>b. FoldersStopped' = FoldersStopped BY DEF FoldersStopped, callers
<1>c. Unwatch => /\ folder_key' = folder_key
                 /\ overtaken => overtaken'
                 /\ folder_call = "issued" => overtaken'
  BY DEF Unwatch
<1>d. ASSUME folder_call' = folder_call, folder_closed' = folder_closed, overtaken => overtaken',
             folder_call = "issued" /\ ~in_map' => overtaken',
             in_set' /\ ~in_map' => overtaken' \/ FoldersStopped,
             folder_key' = folder_key, undefined' = undefined
      PROVE  FolderRace' /\ NoticeRace' /\ undefined' = {}
  BY <1>a, <1>b, <1>d DEF FolderRace, NoticeRace
<1>1. CASE MonitorFolder
  <2>1. /\ in_map' = TRUE /\ folder_key' = "live" /\ UNCHANGED <<folder_closed, undefined>>
    BY <1>1 DEF MonitorFolder, server_vars
  <2> QED BY <1>b, <2>1 DEF FolderRace, NoticeRace
<1>2. CASE Record
  <2>1. /\ folder_call = "issued" /\ folder_call' = "done"
        /\ UNCHANGED <<folder_closed, in_map, folder_key, overtaken, undefined>>
    BY <1>2 DEF Record
  <2> QED BY <1>a, <1>b, <2>1 DEF FolderRace, NoticeRace
<1>3. CASE Nothing
  <2>1. UNCHANGED <<folder_call, folder_closed, undefined>> BY <1>3 DEF Nothing
  <2>2. CASE "preterminate" \in status
    <3>1. Unwatch /\ in_set' = (in_set /\ folder_closed) /\ in_map' = (in_map /\ folder_closed)
      BY <1>3, <2>2 DEF Nothing
    <3>2. in_set' /\ ~in_map' => overtaken' \/ FoldersStopped
      BY <1>a, <3>1 DEF FolderRace
    <3> QED BY <1>c, <1>d, <2>1, <3>1, <3>2
  <2>3. CASE "preterminate" \notin status
    <3>1. UNCHANGED <<overtaken, in_set, in_map, folder_key>> BY <1>3, <2>3 DEF Nothing
    <3> QED BY <1>a, <1>d, <2>1, <3>1 DEF FolderRace
  <2> QED BY <2>2, <2>3
<1>4. CASE Changes
  <2>1. UNCHANGED <<folder_call, folder_closed, in_set, undefined>> BY <1>4 DEF Changes
  <2>2. CASE folder_closed \/ "terminate" \in status
    <3>1. Unwatch /\ in_map' = FALSE BY <1>4, <2>2 DEF Changes
    <3>2. FoldersStopped BY <2>2 DEF FolderRace
    <3> QED BY <1>c, <1>d, <2>1, <3>1, <3>2
  <2>3. CASE ~(folder_closed \/ "terminate" \in status)
    <3>1. UNCHANGED <<overtaken, in_map, folder_key>> BY <1>4, <2>3 DEF Changes
    <3> QED BY <1>a, <1>d, <2>1, <3>1 DEF FolderRace
  <2> QED BY <2>2, <2>3
<1>5. CASE Rewatch
  <2>1. UNCHANGED <<folder_call, folder_closed, in_set, in_map, folder_key, overtaken, undefined>>
    BY <1>5 DEF Rewatch
  <2> QED BY <1>a, <1>d, <2>1 DEF FolderRace
<1>6. CASE RewatchFails
  <2>1. UNCHANGED <<folder_call, folder_closed, undefined>> /\ Unwatch
    BY <1>6 DEF RewatchFails
  <2>2. \/ folder_closed \/ in_set' = FALSE
    BY <1>6, Zenon DEF RewatchFails
  <2>3. in_set' /\ ~in_map' => overtaken' \/ FoldersStopped BY <2>2 DEF FolderRace
  <2> QED BY <1>c, <1>d, <2>1, <2>3
<1>7. CASE Notice
  <2>1. /\ busy < workers
        /\ IF folder_key = "deleted" THEN Undefined("notice") ELSE UNCHANGED undefined
        /\ UNCHANGED <<folder_call, folder_closed, in_set, in_map, folder_key, overtaken>>
    BY <1>7 DEF Notice, Idle
  <2>2. folder_key # "deleted" BY <1>a, <2>1 DEF NoticeRace
  <2> QED BY <1>a, <1>d, <2>1, <2>2 DEF FolderRace
<1> QED BY <1>1, <1>2, <1>3, <1>4, <1>5, <1>6, <1>7 DEF FolderStep

\* A listener that somebody uses after its end was killed, or the server stops.
LEMMA ListenerRaceNext ==
    ASSUME TypeOKListener, ListenerRace, undefined = {}, UNCHANGED status, ListenerStep
    PROVE  /\ ListenerRace'
           /\ undefined' = {} \/ (undefined' = {"listener"} /\ (killed' # {} \/ status' # {}))
<1>a. key = [l \in Listeners |-> key[l]] BY DEF TypeOKListener
<1>1. ASSUME UNCHANGED <<key, killed>>,
             UNCHANGED undefined \/ \E l \in Listeners : UseKey(l)
      PROVE  /\ ListenerRace'
             /\ undefined' = {} \/ (undefined' = {"listener"} /\ (killed' # {} \/ status' # {}))
  <2>1. ListenerRace' BY <1>1 DEF ListenerRace
  <2>2. ASSUME NEW l \in Listeners, UseKey(l)
        PROVE  undefined' = {} \/ (undefined' = {"listener"} /\ (killed' # {} \/ status' # {}))
    BY <1>1, <2>2 DEF UseKey, Undefined, ListenerRace
  <2> QED BY <1>1, <2>1, <2>2
<1>2. ASSUME NEW l \in Listeners,
             BeginTcpServer(l) \/ ListenFails(l)
      PROVE  UNCHANGED <<key, killed, undefined>>
  BY <1>2, Zenon DEF BeginTcpServer, ListenFails, server_vars
<1>3. ASSUME NEW l \in Listeners,
             \/ BeginPosts(l) \/ BeginCounts(l) \/ Repost(l) \/ Count(l) \/ AcceptAgain(l)
             \/ \E p \in Peers : AcceptCompletes(l, p)
      PROVE  UNCHANGED <<key, killed>> /\ UseKey(l)
  BY <1>3, Zenon DEF BeginPosts, BeginCounts, Repost, Count, AcceptAgain, AcceptFails, AcceptCompletes
<1>4. ASSUME NEW p \in Peers,
             Refuse(p) \/ Admit(p) \/ ClientData(p) \/ ClientDataDone(p) \/ ClientLeaves(p)
      PROVE  UNCHANGED <<key, killed, undefined>>
  BY <1>4, Zenon DEF Refuse, Admit, ClientData, ClientDataDone, ClientLeaves, Client, server_vars
<1>5. ASSUME NEW l \in Listeners, Listen(l)
      PROVE  ListenerRace' /\ undefined' = {}
  <2>1. key' = [key EXCEPT ![l] = "live"] /\ UNCHANGED <<killed, undefined>> BY <1>5 DEF Listen
  <2>2. \A m \in Listeners : key'[m] = "deleted" => key[m] = "deleted" BY <1>a, <2>1
  <2> QED BY <2>1, <2>2 DEF ListenerRace
<1>6. ASSUME NEW l \in Listeners, KillTcpServer(l)
      PROVE  ListenerRace' /\ undefined' = {}
  <2>1. killed' = killed \union {l} /\ UNCHANGED <<key, undefined>>
    BY <1>6 DEF KillTcpServer, server_vars
  <2> QED BY <2>1 DEF ListenerRace
<1>7. ASSUME NEW l \in Listeners, AcceptAborted(l)
      PROVE  /\ ListenerRace'
             /\ undefined' = {} \/ (undefined' = {"listener"} /\ (killed' # {} \/ status' # {}))
  <2>1. killed # {} \/ status # {} BY <1>7 DEF AcceptAborted
  <2>2. UNCHANGED killed /\ UseKey(l) BY <1>7 DEF AcceptAborted, AcceptFails
  <2>3. killed' # {} \/ status' # {} BY <2>1, <2>2
  <2> QED BY <2>2, <2>3 DEF ListenerRace, UseKey, Undefined
<1> QED BY <1>1, <1>2, <1>3, <1>4, <1>5, <1>6, <1>7, Zenon DEF ListenerStep

RaceInv == LifeInv /\ UdpRace /\ FolderRace /\ ListenerRace /\ NoticeRace /\ UndefinedOnlyByRace

LEMMA PartRace ==
    ASSUME TypeInv, Accepted, UdpInv, RaceInv, undefined = {}, PartStep, UNCHANGED setup
    PROVE  RaceInv'
<1>a. /\ TypeOKServer /\ TypeOKListener /\ TypeOKConnection /\ TypeOKUdp /\ TypeOKFolder
      /\ FolderShape /\ \A c \in Connections : Unborn(c)
  BY DEF TypeInv, TypeOK
<1>b. LifeInv /\ UdpRace /\ FolderRace /\ ListenerRace /\ NoticeRace BY DEF RaceInv
<1>c. UNCHANGED <<status, stopping, workers>> BY PartLeavesPool
<1>d. callers' = callers BY DEF callers
<1>1. UNCHANGED listener_vars => ListenerRace'
  BY <1>b, <1>c DEF listener_vars, ListenerRace
<1>2. UNCHANGED connection_vars => LifeInv'
  BY <1>b, LifeFrame DEF connection_vars, operation_vars
<1>3. UNCHANGED udp_vars => UdpRace' BY <1>b DEF udp_vars, UdpRace, Reading
<1>4. UNCHANGED folder_vars => FolderRace' /\ NoticeRace'
  <2>1. UNCHANGED folder_vars
        => UNCHANGED <<folder_call, folder_closed, in_set, in_map, folder_key, overtaken>>
    BY DEF folder_vars
  <2>2. FoldersStopped' = FoldersStopped BY <1>c, <1>d DEF FoldersStopped
  <2> QED BY <1>b, <1>c, <2>1, <2>2 DEF FolderRace, NoticeRace
<1>5. CASE ListenerStep /\ UNCHANGED <<connection_vars, udp_vars, folder_vars>>
  <2>1. /\ ListenerRace'
        /\ undefined' = {} \/ (undefined' = {"listener"} /\ (killed' # {} \/ status' # {}))
    BY <1>5, <1>a, <1>b, <1>c, ListenerRaceNext
  <2>2. UndefinedOnlyByRace' BY <2>1 DEF UndefinedOnlyByRace
  <2> QED BY <1>2, <1>3, <1>4, <1>5, <2>1, <2>2 DEF RaceInv
<1>6. CASE ConnectionStep /\ UNCHANGED <<listener_vars, udp_vars, folder_vars>>
  <2>1. LifeInv' /\ (undefined' = {} \/ (undefined' = {"connection"} /\ wrote' # {}))
    BY <1>6, <1>a, <1>b, LifeNext DEF ConnectionTypes
  <2>2. UndefinedOnlyByRace' BY <2>1 DEF UndefinedOnlyByRace
  <2> QED BY <1>1, <1>3, <1>4, <1>6, <2>1, <2>2 DEF RaceInv
<1>7. CASE UdpStep /\ UNCHANGED <<listener_vars, connection_vars, folder_vars>>
  <2>1. UdpRace' /\ (undefined' = {} \/ (undefined' = {"udp"} /\ (udp_wrote' \/ ~udp_known')))
    BY <1>7, <1>a, <1>b, UdpRaceNext
  <2>2. UndefinedOnlyByRace' BY <2>1 DEF UndefinedOnlyByRace
  <2> QED BY <1>1, <1>2, <1>4, <1>7, <2>1, <2>2 DEF RaceInv
<1>8. CASE FolderStep /\ UNCHANGED <<listener_vars, connection_vars, udp_vars>>
  <2>1. FolderRace' /\ NoticeRace' /\ undefined' = {}
    BY <1>8, <1>a, <1>b, <1>c, FolderRaceNext
  <2>2. UndefinedOnlyByRace' BY <2>1 DEF UndefinedOnlyByRace
  <2> QED BY <1>1, <1>2, <1>3, <1>8, <2>1, <2>2 DEF RaceInv
<1> QED BY <1>5, <1>6, <1>7, <1>8 DEF PartStep

LEMMA StopRace ==
    ASSUME TypeInv, RaceInv, undefined = {}, NEW t \in callers, t \in Terminators, StopStep(t)
    PROVE  RaceInv'
<1>a. TypeOKServer /\ TypeOKFolder BY DEF TypeInv, TypeOK
<1>b. LifeInv /\ UdpRace /\ FolderRace /\ ListenerRace /\ NoticeRace BY DEF RaceInv
<1>c. UNCHANGED <<setup, workers>> /\ callers' = callers
  <2>1. UNCHANGED <<setup, workers>>
    BY Zenon DEF StopStep, Terminate, SetPreterminate, SetTerminate, WaitForServerUnlock,
           CloseAllMonitoredFolder, KillAllServers, KillAllClient, KillAllConnections, Advance,
           part_vars, pool_vars
  <2> QED BY <2>1 DEF callers
<1>1. \/ Stage(t, "idle", "entering") \/ Stage(t, "entering", "folders")
      \/ Stage(t, "folders", "servers") \/ Stage(t, "servers", "clients")
      \/ Stage(t, "clients", "connections") \/ Stage(t, "connections", "flag")
      \/ Stage(t, "flag", "waiting") \/ Stage(t, "waiting", "returned")
  BY Zenon DEF StopStep, Terminate, SetPreterminate, SetTerminate, WaitForServerUnlock,
         CloseAllMonitoredFolder, KillAllServers, KillAllClient, KillAllConnections, Advance
<1>2. ASSUME NEW from, NEW to, Stage(t, from, to)
      PROVE  /\ stopping[t] = from /\ stopping'[t] = to
             /\ \A u \in Terminators \ {t} : stopping'[u] = stopping[u]
  BY <1>2, <1>a DEF Stage, TypeOKServer
<1>0. callers \subseteq Terminators
  BY ConfigurationsAssumption DEF TypeInv, TypeOK, callers
<1>3. FoldersStopped => FoldersStopped'
  <2> SUFFICES ASSUME FoldersStopped PROVE FoldersStopped' OBVIOUS
  <2>1. PICK u \in callers : stopping[u] \in After("folders") BY DEF FoldersStopped
  <2>2. u # t => stopping'[u] = stopping[u] BY <1>0, <1>1, <1>2
  <2>3. u = t => stopping'[u] \in After("folders")
    BY <1>1, <1>2, <2>1, AfterEach DEF Stages
  <2>4. stopping'[u] \in After("folders") BY <2>1, <2>2, <2>3
  <2> QED BY <1>c, <2>1, <2>4 DEF FoldersStopped
<1>4. LifeInv'
  <2>1. UNCHANGED <<caller, connects, reads, writes, link_key, retrying, locked, events,
                    stranded, wrote>>
    BY Zenon DEF StopStep, CloseAllMonitoredFolder, KillAllServers, KillAllClient,
           KillAllConnections, CloseConnections, part_vars, connection_vars, operation_vars
  <2> QED BY <1>b, <2>1, LifeFrame
<1>5. UdpRace'
  <2>1. UNCHANGED <<udp_wrote, emptied, udp_writes, udp_key, udp_to_read, udp_reads, silent>>
    BY Zenon DEF StopStep, CloseAllMonitoredFolder, KillAllServers, KillAllClient,
           KillAllConnections, CloseUdp, part_vars, udp_vars
  <2> QED BY <1>b, <2>1 DEF UdpRace, Reading
<1>6. ListenerRace'
  <2>1. key' = key
    BY Zenon DEF StopStep, CloseAllMonitoredFolder, KillAllServers, KillAllClient,
           KillAllConnections, CloseListeners, CloseClients, part_vars, listener_vars
  <2>2. killed \subseteq killed'
    <3>1. CASE KillAllServers(t)
      BY <3>1 DEF KillAllServers, CloseListeners
    <3>2. CASE ~KillAllServers(t)
      <4>1. killed' = killed
        BY <3>2, Zenon DEF StopStep, CloseAllMonitoredFolder, KillAllClient,
               KillAllConnections, CloseClients, part_vars, listener_vars
      <4> QED BY <4>1
    <3> QED BY <3>1, <3>2
  <2>3. status' = status \/ status' = {"preterminate"} \/ status' = status \union {"terminate"}
    BY Zenon DEF StopStep, Terminate, SetPreterminate, SetTerminate, WaitForServerUnlock,
           CloseAllMonitoredFolder, KillAllServers, KillAllClient, KillAllConnections, Advance
  <2>4. status # {} => status' # {} BY <2>3
  <2> QED BY <1>b, <2>1, <2>2, <2>4 DEF ListenerRace
<1>7. NoticeRace'
  <2>1. folder_key' = folder_key
    BY Zenon DEF StopStep, CloseAllMonitoredFolder, KillAllServers, KillAllClient,
           KillAllConnections, CloseFolders, part_vars, folder_vars
  <2> QED BY <1>b, <1>c, <2>1 DEF NoticeRace
<1>8. FolderRace'
  <2>1. UNCHANGED <<folder_call, in_set, in_map, overtaken>>
    BY Zenon DEF StopStep, CloseAllMonitoredFolder, KillAllServers, KillAllClient,
           KillAllConnections, CloseFolders, part_vars, folder_vars
  <2>2. folder_closed' => FoldersStopped'
    <3>1. CASE CloseAllMonitoredFolder(t)
      <4>1. Stage(t, "folders", "servers") BY <3>1 DEF CloseAllMonitoredFolder, Advance
      <4>2. stopping'[t] \in After("folders") BY <1>2, <4>1, AfterEach DEF Stages
      <4> QED BY <1>c, <4>2 DEF FoldersStopped
    <3>2. CASE ~CloseAllMonitoredFolder(t)
      <4>1. folder_closed' = folder_closed
        BY <3>2, Zenon DEF StopStep, KillAllServers, KillAllClient, KillAllConnections, part_vars,
               folder_vars
      <4> QED BY <1>b, <1>3, <4>1 DEF FolderRace
    <3> QED BY <3>1, <3>2
  <2>3. "terminate" \in status' => FoldersStopped'
    <3>1. CASE SetTerminate(t)
      <4>1. Stage(t, "flag", "waiting") BY <3>1 DEF SetTerminate
      <4>2. stopping'[t] \in After("folders") BY <1>2, <4>1, AfterEach DEF Stages
      <4> QED BY <1>c, <4>2 DEF FoldersStopped
    <3>2. CASE SetPreterminate(t)
      BY <3>2 DEF SetPreterminate
    <3>3. CASE ~SetTerminate(t) /\ ~SetPreterminate(t)
      <4>1. status' = status
        BY <3>3, Zenon DEF StopStep, Terminate, WaitForServerUnlock,
               CloseAllMonitoredFolder, KillAllServers, KillAllClient, KillAllConnections, Advance
      <4> QED BY <1>b, <1>3, <4>1 DEF FolderRace
    <3> QED BY <3>1, <3>2, <3>3
  <2> QED BY <1>b, <1>3, <2>1, <2>2, <2>3 DEF FolderRace
<1>9. UndefinedOnlyByRace'
  <2>1. CASE CloseAllMonitoredFolder(t)
    <3>1. /\ Stage(t, "folders", "servers")
          /\ IF in_set /\ ~in_map THEN Undefined("folder") ELSE UNCHANGED undefined
          /\ UNCHANGED overtaken
      BY <2>1 DEF CloseAllMonitoredFolder, Advance, CloseFolders
    <3>2. CASE in_set /\ ~in_map
      <4>1. undefined' = {"folder"} BY <3>1, <3>2 DEF Undefined
      <4>2. CASE overtaken BY <3>1, <4>1, <4>2 DEF UndefinedOnlyByRace
      <4>3. CASE FoldersStopped
        <5>1. PICK u \in callers : stopping[u] \in After("folders") BY <4>3 DEF FoldersStopped
        <5>2. stopping[t] = "folders" /\ stopping'[t] = "servers"
              /\ \A v \in Terminators \ {t} : stopping'[v] = stopping[v]
          BY <1>2, <3>1
        <5>3. u # t /\ stopping[u] # "idle" BY <5>1, <5>2, AfterEach DEF Stages
        <5>4. stopping'[u] # "idle" /\ stopping'[t] # "idle" BY <1>0, <5>2, <5>3
        <5>5. \E v, w \in callers' : v # w /\ "idle" \notin {stopping'[v], stopping'[w]}
          BY <1>c, <5>3, <5>4
        <5> QED BY <4>1, <5>5 DEF UndefinedOnlyByRace
      <4> QED BY <1>b, <3>2, <4>2, <4>3 DEF FolderRace
    <3>3. CASE ~(in_set /\ ~in_map)
      <4>1. undefined' = {} BY <3>1, <3>3
      <4> QED BY <4>1 DEF UndefinedOnlyByRace
    <3> QED BY <3>2, <3>3
  <2>2. CASE ~CloseAllMonitoredFolder(t)
    <3>1. undefined' = undefined
      BY <2>2, Zenon DEF StopStep, Terminate, SetPreterminate, SetTerminate, WaitForServerUnlock,
             KillAllServers, KillAllClient, KillAllConnections
    <3>2. undefined' = {} BY <3>1
    <3> QED BY <3>2 DEF UndefinedOnlyByRace
  <2> QED BY <2>1, <2>2
<1> QED BY <1>4, <1>5, <1>6, <1>7, <1>8, <1>9 DEF RaceInv

LEMMA RaceInit == Init => RaceInv
<1> SUFFICES ASSUME Init PROVE RaceInv OBVIOUS
<1>1. status = {} /\ undefined = {} BY DEF Init, InitServer
<1>2. key = [l \in Listeners |-> "none"] BY DEF Init, InitListener
<1>3. /\ caller = [c \in Connections |-> "idle"]
      /\ connects = [s \in Sockets |-> 0] /\ reads = [s \in Sockets |-> 0]
      /\ writes = [s \in Sockets |-> 0]
      /\ link_key = [c \in Connections |-> "none"]
      /\ retrying = [c \in Connections |-> 0] /\ events = [c \in Connections |-> 0]
      /\ locked = {} /\ stranded = {}
  BY DEF Init, InitConnection
<1>4. emptied = 0 /\ udp_writes = [f \in Families |-> 0] /\ udp_key = "none"
  BY DEF Init, InitUdp
<1>5. folder_call = "idle" /\ ~in_set /\ ~folder_closed /\ folder_key = "none"
  BY DEF Init, InitFolder
<1>6. LifeInv
  <2> SUFFICES ASSUME NEW c \in Connections PROVE LifeOf(c) BY DEF LifeInv
  <2>1. IsFiniteSet({c} \X (1..MaxSockets)) /\ {c} \X (1..MaxSockets) \subseteq Sockets
    BY SocketsFinite
  <2>2. Total(connects, c) = 0 /\ Total(reads, c) = 0 BY <1>3, <2>1, SumZero DEF Total
  <2>3. /\ LockedOnce(c) = 0 /\ StrandedOnce(c) = 0 /\ Made(c) = 0
        /\ retrying[c] = 0 /\ events[c] = 0 /\ link_key[c] = "none"
    BY <1>3 DEF LockedOnce, StrandedOnce, Made
  <2>4. \A n \in 1..MaxSockets : writes[<<c, n>>] = 0 BY <1>3 DEF Sockets
  <2>5. Life(c) BY <2>2, <2>3 DEF Life
  <2> QED BY <2>3, <2>4, <2>5 DEF LifeOf
<1>7. UdpRace BY <1>4 DEF UdpRace
<1>8. FolderRace BY <1>1, <1>5 DEF FolderRace
<1>9. ListenerRace BY <1>2 DEF ListenerRace
<1>10. NoticeRace BY <1>5 DEF NoticeRace
<1>11. UndefinedOnlyByRace BY <1>1 DEF UndefinedOnlyByRace
<1> QED BY <1>6, <1>7, <1>8, <1>9, <1>10, <1>11 DEF RaceInv

LEMMA RaceNext == TypeInv /\ PostInv /\ UdpInv /\ RaceInv /\ [Next]_vars => RaceInv'
<1> SUFFICES ASSUME TypeInv, PostInv, UdpInv, RaceInv, [Next]_vars PROVE RaceInv' OBVIOUS
<1>a. /\ LifeInv /\ UdpRace /\ FolderRace /\ ListenerRace /\ NoticeRace
      /\ UndefinedOnlyByRace
  BY DEF RaceInv
<1>b. setup \in Configurations /\ workers \in 0 .. Workers /\ busy \in 0 .. workers
  BY DEF TypeInv, TypeOK, TypeOKServer
<1>c. Accepted BY DEF PostInv
<1>0. callers \subseteq Terminators BY <1>b, ConfigurationsAssumption DEF callers
<1>1. CASE undefined = {} /\ PartStep /\ UNCHANGED setup BY <1>1, <1>c, PartRace
<1>2. ASSUME undefined = {}, NEW t \in callers, StopStep(t) PROVE RaceInv'
  BY <1>0, <1>2, StopRace
<1>3. ASSUME UNCHANGED <<setup, status, stopping, undefined>>,
             UNCHANGED <<killed, key>>,
             UNCHANGED <<caller, connects, reads, writes, link_key, retrying, locked, events,
                         stranded, wrote>>,
             UNCHANGED <<udp_wrote, emptied, udp_writes, udp_key, udp_to_read, udp_reads, silent>>,
             UNCHANGED <<folder_call, folder_closed, in_set, in_map, overtaken>>,
             NoticeRace', udp_known' => udp_known, udp_known' \in BOOLEAN
      PROVE  RaceInv'
  <2>1. LifeInv' BY <1>a, <1>3, LifeFrame
  <2>2. UdpRace' BY <1>a, <1>3 DEF UdpRace, Reading
  <2>3. callers' = callers BY <1>3 DEF callers
  <2>4. FoldersStopped' = FoldersStopped BY <1>3, <2>3 DEF FoldersStopped
  <2>5. FolderRace' BY <1>a, <1>3, <2>4 DEF FolderRace
  <2>6. ListenerRace' BY <1>a, <1>3 DEF ListenerRace
  <2>7. UndefinedOnlyByRace' BY <1>a, <1>3, <2>3 DEF UndefinedOnlyByRace
  <2> QED BY <1>3, <2>1, <2>2, <2>5, <2>6, <2>7 DEF RaceInv
<1>u. udp_known \in BOOLEAN BY DEF TypeInv, TypeOK, TypeOKUdp
<1>p. UNCHANGED part_vars =>
         /\ UNCHANGED setup /\ UNCHANGED <<killed, key>>
         /\ UNCHANGED <<caller, connects, reads, writes, link_key, retrying, locked, events,
                        stranded, wrote>>
         /\ UNCHANGED <<udp_wrote, emptied, udp_writes, udp_key, udp_to_read, udp_reads, silent,
                        udp_known>>
         /\ UNCHANGED <<folder_call, folder_closed, in_set, in_map, overtaken, folder_key>>
  BY DEF part_vars, listener_vars, connection_vars, operation_vars, udp_vars, folder_vars
<1>4. CASE (StartServer \/ WorkerLeaves) /\ UNCHANGED part_vars
  <2>1. UNCHANGED <<status, stopping, undefined>>
    BY <1>4, Zenon DEF StartServer, WorkerLeaves, status_vars
  <2>2. NoticeRace'
    <3>1. CASE StartServer BY <1>4, <1>a, <1>p, <3>1 DEF StartServer, pool_vars, NoticeRace
    <3>2. CASE WorkerLeaves
      <4>1. busy < workers BY <3>2 DEF WorkerLeaves, Idle
      <4>2. workers # 0 BY <1>b, <4>1
      <4>3. folder_key' # "deleted" BY <1>4, <1>a, <1>p, <4>2 DEF NoticeRace
      <4> QED BY <4>3 DEF NoticeRace
    <3> QED BY <1>4, <3>1, <3>2
  <2>3. udp_known' = udp_known BY <1>4, <1>p
  <2> QED BY <1>3, <1>4, <1>p, <1>u, <2>1, <2>2, <2>3
<1>5. CASE Shutdown
  <2>1. /\ workers = 0 /\ workers' = workers /\ UNCHANGED <<setup, status, stopping, undefined>>
        /\ udp_known' = FALSE
    BY <1>5 DEF Shutdown, Run, pool_vars
  <2>2. UNCHANGED <<killed, key>> /\ UNCHANGED connection_vars
        /\ UNCHANGED <<udp_wrote, emptied, udp_writes, udp_key, udp_to_read, udp_reads, silent>>
    BY <1>5 DEF Shutdown
  <2>3. UNCHANGED <<folder_call, folder_closed, in_set, in_map, overtaken>>
    BY <1>5 DEF Shutdown, ClearFolders
  <2>4. NoticeRace' BY <2>1 DEF NoticeRace
  <2>5. UNCHANGED <<caller, connects, reads, writes, link_key, retrying, locked, events,
                    stranded, wrote>>
    BY <2>2 DEF connection_vars, operation_vars
  <2> QED BY <1>3, <2>1, <2>2, <2>3, <2>4, <2>5
<1>6. CASE UNCHANGED vars
  <2>1. UNCHANGED part_vars /\ UNCHANGED <<status, stopping, undefined, workers>>
    BY <1>6 DEF vars, server_vars, status_vars, pool_vars
  <2>2. NoticeRace' BY <1>a, <1>p, <2>1 DEF NoticeRace
  <2>3. udp_known' = udp_known BY <1>p, <2>1
  <2> QED BY <1>3, <1>p, <1>u, <2>1, <2>2, <2>3
<1> QED BY <1>1, <1>2, <1>4, <1>5, <1>6, Zenon DEF Next

LEMMA RaceInvariant == Spec => []RaceInv
<1>1. Spec => []UdpInv BY UdpInit, UdpNext, PTL DEF Spec
<1> QED BY <1>1, TypeInvariant, RaceInit, RaceNext, PTL DEF Spec

\* An outgoing connection on which nothing is sent hangs by exactly one thread: a CONNECT
\* or READ that is outstanding, a worker that reconnects it, the event OnTcpDisconnected, or
\* it was given up (PendingTcpConnection, WTProcessTcpConnection, PreTcpDisconnect).
THEOREM OneThread == Spec => []OneLifeline
<1>1. LifeInv => OneLifeline
  BY DEF LifeInv, LifeOf, Life, LockedOnce, StrandedOnce, Made, OneLifeline
<1> QED BY <1>1, RaceInvariant, PTL DEF RaceInv

\* Freed memory is used only in the races that the property names: sending on a connection
\* or a UDP server, killing a listener, and stopping twice, or faster than MonitorFolder, with
\* folders; and the notice of a folder always finds its key (WTProcessTcpConnection,
\* WTProcessUdpServer, WTProcessTcpServer, CloseAllMonitoredFolder).
THEOREM OnlyRacesUseFreed == Spec => []UndefinedOnlyByRace
  BY RaceInvariant, PTL DEF RaceInv
=============================================================================
