---------------------------- MODULE Server_proofs ----------------------------
(***************************************************************************)
(* The books of the listener and of the UDP server, for every number of    *)
(* listeners, peers, accepts, threads and workers, with all parts of the   *)
(* server at work at once.                                                 *)
(***************************************************************************)
EXTENDS Server, FiniteSetTheorems, TLAPS

-----------------------------------------------------------------------------
(* What the parts do leaves the status of the server alone.                *)

LEMMA ListenerLeavesStatus == ListenerStep => UNCHANGED status_vars
<1> SUFFICES ASSUME ListenerStep PROVE UNCHANGED status_vars
  OBVIOUS
<1>1. ASSUME NEW l \in Listeners,
             \/ BeginTcpServer(l) \/ Listen(l) \/ ListenFails(l) \/ BeginPosts(l)
             \/ BeginCounts(l) \/ Repost(l) \/ Count(l) \/ AcceptAgain(l) \/ AcceptAborted(l)
             \/ KillTcpServer(l) \/ \E p \in Peers : AcceptCompletes(l, p)
      PROVE  UNCHANGED status_vars
  BY <1>1, Zenon DEF BeginTcpServer, Listen, ListenFails, BeginPosts, BeginCounts, Repost, Count,
              AcceptAgain, AcceptAborted, AcceptFails, KillTcpServer, AcceptCompletes, server_vars
<1>2. ASSUME NEW p \in Peers,
             Refuse(p) \/ Admit(p) \/ ClientData(p) \/ ClientDataDone(p) \/ ClientLeaves(p)
      PROVE  UNCHANGED status_vars
  BY <1>2, Zenon DEF Refuse, Admit, ClientData, ClientDataDone, ClientLeaves, Client, server_vars
<1> QED
  BY <1>1, <1>2, Zenon DEF ListenerStep

LEMMA ConnectionLeavesStatus == ConnectionStep => UNCHANGED status_vars
<1> SUFFICES ASSUME ConnectionStep PROVE UNCHANGED status_vars
  OBVIOUS
<1>1. ASSUME NEW c \in Connections,
             \/ PendingTcpConnection(c) \/ CreateTcpConnection(c) \/ FirstConnect(c)
             \/ FirstRead(c) \/ Reconnect(c) \/ SendTcpData(c) \/ Disconnect(c)
      PROVE  UNCHANGED status_vars
  BY <1>1, Zenon DEF PendingTcpConnection, CreateTcpConnection, Enter, FirstConnect, FirstRead,
              Reconnect, SendTcpData, Disconnect, server_vars
<1>2. ASSUME NEW c \in Connections, NEW n \in 1..MaxSockets,
             \/ Connected(c, n) \/ ConnectFails(c, n) \/ Received(c, n)
             \/ ReadsNothing(c, n) \/ WritesNothing(c, n) \/ Sent(c, n)
      PROVE  UNCHANGED status_vars
  BY <1>2, Zenon DEF Connected, ConnectFails, Received, ReadsNothing, WritesNothing, TornDown, Sent
<1>3. ASSUME NEW s \in Sockets, Establish(s) PROVE UNCHANGED status_vars
  BY <1>3, Zenon DEF Establish, server_vars
<1> QED
  BY <1>1, <1>2, <1>3, Zenon DEF ConnectionStep

LEMMA UdpLeavesStatus == UdpStep => UNCHANGED status_vars
<1> SUFFICES ASSUME UdpStep PROVE UNCHANGED status_vars
  OBVIOUS
<1>1. CASE BeginUdpServer \/ UdpDelivered \/ KillUdpServer
  BY <1>1, Zenon DEF BeginUdpServer, UdpDelivered, KillUdpServer, server_vars
<1>2. ASSUME NEW f \in Families,
             \/ FirstUdpRead(f) \/ UdpReceived(f) \/ UdpReadEmpty(f) \/ UdpWriteEmpty(f)
             \/ UdpSent(f) \/ SendUdpData(f) \/ SendUdpDataFails(f)
      PROVE  UNCHANGED status_vars
  BY <1>2, Zenon DEF FirstUdpRead, UdpReceived, UdpReadEmpty, UdpWriteEmpty, UdpSent, SendUdpData,
              SendUdpDataFails, server_vars
<1> QED
  BY <1>1, <1>2, Zenon DEF UdpStep

LEMMA FolderLeavesStatus == FolderStep => UNCHANGED status_vars
  BY Zenon DEF FolderStep, MonitorFolder, Record, Nothing, Changes, Rewatch, RewatchFails, Notice,
         server_vars

LEMMA PartsLeaveStatus == PartStep => UNCHANGED status_vars
  BY ListenerLeavesStatus, ConnectionLeavesStatus, UdpLeavesStatus, FolderLeavesStatus, Zenon
     DEF PartStep

-----------------------------------------------------------------------------
(* nAcceptPending.                                                         *)

accounting_vars == <<begin, pending, counting, accepts, failed, key>>

AcceptTypes ==
    /\ begin = [l \in Listeners |-> begin[l]]
    /\ key = [l \in Listeners |-> key[l]]
    /\ pending \in [Listeners -> Int]
    /\ counting \in [Listeners -> Nat]
    /\ accepts \in [Listeners -> Nat]
    /\ failed \in [Listeners -> Nat]

AcceptInv == AcceptTypes /\ AcceptAccounting

LEMMA AcceptInit == Init => AcceptInv
  BY DEF Init, InitListener, AcceptInv, AcceptTypes, AcceptAccounting, Uncounted

LEMMA AcceptStep ==
    ASSUME AcceptInv, NEW l \in Listeners,
           \/ BeginTcpServer(l) \/ Listen(l) \/ ListenFails(l) \/ BeginPosts(l)
           \/ BeginCounts(l) \/ Repost(l) \/ Count(l) \/ AcceptAgain(l) \/ AcceptAborted(l)
           \/ KillTcpServer(l) \/ \E p \in Peers : AcceptCompletes(l, p)
    PROVE  AcceptInv'
<1> USE DEF AcceptInv, AcceptTypes, AcceptAccounting, Uncounted, Inc, Dec
<1>1. CASE BeginTcpServer(l) \/ Listen(l) \/ ListenFails(l)
  BY <1>1 DEF BeginTcpServer, Listen, ListenFails, accept_vars
<1>2. CASE BeginPosts(l)
  <2>1. CASE accepts' = Inc(accepts, l) /\ begin' = [begin EXCEPT ![l] = "counting"]
    <3>1. begin[l] # "counting" /\ UNCHANGED <<pending, counting, failed, key>>
      BY <1>2 DEF BeginPosts
    <3> QED
      BY <2>1, <3>1
  <2>2. CASE UNCHANGED <<accepts, begin>>
    <3>1. UNCHANGED <<pending, counting, failed, key>>
      BY <1>2 DEF BeginPosts
    <3> QED
      BY <2>2, <3>1
  <2> QED
    BY <1>2, <2>1, <2>2 DEF BeginPosts, Posted, NotPosted
<1>3. CASE BeginCounts(l)
  BY <1>3 DEF BeginCounts
<1>4. CASE Repost(l)
  BY <1>4 DEF Repost, Posted, NotPosted
<1>5. CASE Count(l)
  BY <1>5 DEF Count
<1>6. CASE AcceptAgain(l)
  BY <1>6 DEF AcceptAgain, AcceptFails
<1>7. CASE AcceptAborted(l)
  <2>1. /\ accepts[l] > 0 /\ accepts' = Dec(accepts, l) /\ pending' = Dec(pending, l)
        /\ UNCHANGED <<begin, counting, failed>>
    BY <1>7 DEF AcceptAborted, AcceptFails
  <2>2. key' = key \/ key' = [key EXCEPT ![l] = "deleted"]
    BY <1>7 DEF AcceptAborted
  <2>3. key' = [k \in Listeners |-> key'[k]]
    BY <2>2
  <2>4. /\ accepts' \in [Listeners -> Nat] /\ pending' \in [Listeners -> Int]
        /\ accepts'[l] = accepts[l] - 1 /\ pending'[l] = pending[l] - 1
        /\ \A m \in Listeners \ {l} : accepts'[m] = accepts[m] /\ pending'[m] = pending[m]
    BY <2>1
  <2>5. AcceptTypes'
    BY <2>1, <2>3, <2>4
  <2>6. AcceptAccounting'
    <3> SUFFICES ASSUME NEW m \in Listeners
                 PROVE  pending'[m] + Uncounted(m)' = accepts'[m] + failed'[m]
      BY DEF AcceptAccounting
    <3>1. pending[m] + Uncounted(m) = accepts[m] + failed[m] /\ Uncounted(m)' = Uncounted(m)
      BY <2>1
    <3>2. pending[m] \in Int /\ accepts[m] \in Nat /\ failed[m] \in Nat /\ Uncounted(m) \in Nat
      OBVIOUS
    <3>3. CASE m = l
      BY <2>1, <2>4, <3>1, <3>2, <3>3
    <3>4. CASE m # l
      BY <2>1, <2>4, <3>1, <3>4
    <3> QED
      BY <3>3, <3>4
  <2> QED
    BY <2>5, <2>6
<1>8. CASE KillTcpServer(l)
  BY <1>8 DEF KillTcpServer, accept_vars
<1>9. CASE \E p \in Peers : AcceptCompletes(l, p)
  BY <1>9 DEF AcceptCompletes
<1> QED
  BY <1>1, <1>2, <1>3, <1>4, <1>5, <1>6, <1>7, <1>8, <1>9

\* Everything else leaves the books of the listeners alone.
LEMMA OthersLeaveAccepts ==
    [Next]_vars =>
        \/ UNCHANGED accounting_vars
        \/ \E l \in Listeners :
              \/ BeginTcpServer(l) \/ Listen(l) \/ ListenFails(l) \/ BeginPosts(l)
              \/ BeginCounts(l) \/ Repost(l) \/ Count(l) \/ AcceptAgain(l) \/ AcceptAborted(l)
              \/ KillTcpServer(l) \/ \E p \in Peers : AcceptCompletes(l, p)
<1> SUFFICES ASSUME [Next]_vars
             PROVE  \/ UNCHANGED accounting_vars
                    \/ \E l \in Listeners :
                          \/ BeginTcpServer(l) \/ Listen(l) \/ ListenFails(l) \/ BeginPosts(l)
                          \/ BeginCounts(l) \/ Repost(l) \/ Count(l) \/ AcceptAgain(l)
                          \/ AcceptAborted(l) \/ KillTcpServer(l)
                          \/ \E p \in Peers : AcceptCompletes(l, p)
  OBVIOUS
<1> USE DEF accounting_vars, accept_vars
<1>1. CASE UNCHANGED listener_vars
  BY <1>1 DEF listener_vars
<1>2. ASSUME NEW p \in Peers,
             Refuse(p) \/ Admit(p) \/ ClientData(p) \/ ClientDataDone(p) \/ ClientLeaves(p)
      PROVE  UNCHANGED accounting_vars
  BY <1>2, Zenon DEF Refuse, Admit, ClientData, ClientDataDone, ClientLeaves, Client
<1>3. CASE PartStep
  BY <1>1, <1>2, <1>3, Zenon DEF PartStep, ListenerStep
<1>4. ASSUME NEW t \in callers, StopStep(t) PROVE UNCHANGED accounting_vars
  BY <1>1, <1>4, Zenon DEF StopStep, CloseAllMonitoredFolder, KillAllServers, KillAllClient,
         KillAllConnections, CloseListeners, CloseClients, part_vars, listener_vars
<1>5. CASE Shutdown
  BY <1>5, Zenon DEF Shutdown
<1> QED
  BY <1>1, <1>3, <1>4, <1>5, Zenon DEF Next, vars, part_vars

LEMMA AcceptNext == AcceptInv /\ [Next]_vars => AcceptInv'
<1> SUFFICES ASSUME AcceptInv, [Next]_vars PROVE AcceptInv'
  OBVIOUS
<1>1. CASE UNCHANGED accounting_vars
  BY <1>1 DEF accounting_vars, AcceptInv, AcceptTypes, AcceptAccounting, Uncounted
<1> QED
  BY <1>1, AcceptStep, OthersLeaveAccepts

LEMMA AcceptInvariant == Spec => []AcceptInv
  BY AcceptInit, AcceptNext, PTL DEF Spec

\* nAcceptPending is the number of accepts outstanding up to the threads that have yet
\* to count theirs and the accepts that failed early (IssueAccept, WTProcessTcpServer).
THEOREM AcceptsAccounted == Spec => []AcceptAccounting
  BY AcceptInvariant, PTL DEF AcceptInv

\* The accept that frees the context key of a listener is the last one that was counted.
THEOREM KeyOutlivesAccepts == Spec => KeyFreedLast
<1> DEFINE A == \A l \in Listeners :
                    key[l] = "live" /\ key'[l] = "deleted" => accepts'[l] <= Uncounted(l)
<1>1. AcceptInv /\ [Next]_vars => [A]_listener_vars
  <2> SUFFICES ASSUME AcceptInv, [Next]_vars, NEW l \in Listeners,
                      key[l] = "live", key'[l] = "deleted"
               PROVE  accepts'[l] <= Uncounted(l)
    BY DEF A
  <2>1. PICK m \in Listeners :
          \/ BeginTcpServer(m) \/ Listen(m) \/ ListenFails(m) \/ BeginPosts(m)
          \/ BeginCounts(m) \/ Repost(m) \/ Count(m) \/ AcceptAgain(m) \/ AcceptAborted(m)
          \/ KillTcpServer(m) \/ \E p \in Peers : AcceptCompletes(m, p)
    BY OthersLeaveAccepts DEF accounting_vars
  <2>2. key' # key /\ key' # [key EXCEPT ![m] = "live"]
    BY DEF AcceptInv, AcceptTypes
  <2>3. AcceptAborted(m)
    BY <2>1, <2>2, Zenon
       DEF BeginTcpServer, Listen, ListenFails, BeginPosts, BeginCounts, Repost, Count,
           AcceptAgain, KillTcpServer, AcceptCompletes
  <2>4. m = l /\ pending[l] = 1
    BY <2>2, <2>3 DEF AcceptAborted, AcceptInv, AcceptTypes
  <2>5. accepts'[l] = accepts[l] - 1
    BY <2>3, <2>4 DEF AcceptAborted, AcceptFails, Dec, AcceptInv, AcceptTypes
  <2>6. 1 + Uncounted(l) = accepts[l] + failed[l] /\ failed[l] \in Nat /\ accepts[l] \in Nat
    BY <2>4 DEF AcceptInv, AcceptTypes, AcceptAccounting
  <2>7. Uncounted(l) \in Nat
    BY DEF Uncounted, AcceptInv, AcceptTypes
  <2> QED
    BY <2>5, <2>6, <2>7
<1>2. KeyFreedLast <=> [][A]_listener_vars
  BY DEF KeyFreedLast
<1> QED
  BY <1>1, <1>2, AcceptInvariant, PTL DEF Spec
-----------------------------------------------------------------------------
(* nUdpServerPending.                                                      *)

\* Families whose socket has a READ, or could have one.
Reading == udp_to_read \union udp_reads \union silent

UdpTypes ==
    /\ udp_pending \in Int /\ emptied \in Nat
    /\ udp_to_read \subseteq Families /\ udp_reads \subseteq Families /\ silent \subseteq Families
    /\ udp_writes = [f \in Families |-> udp_writes[f]]

\* A READ is to be issued, or outstanding, or not issued again; before there is a
\* server, none of these, and no WRITE.
UdpDisjoint ==
    /\ udp_to_read \intersect (udp_reads \union silent) = {}
    /\ udp_reads \intersect silent = {}
    /\ udp_begin = "idle" =>
          /\ Reading = {} /\ ~udp_known /\ emptied = 0
          /\ \A f \in Families : udp_writes[f] = 0

UdpInv == UdpTypes /\ UdpDisjoint /\ UdpAccounting

LEMMA FamiliesFinite == IsFiniteSet(Families)
<1>1. IsFiniteSet({"v4"} \union {"v6"})
  BY FS_Singleton, FS_AddElement
<1> QED
  <2>1. Families \subseteq {"v4"} \union {"v6"}
    BY FamiliesAssumption
  <2> QED
    BY <1>1, <2>1, FS_Subset

LEMMA UdpInit == Init => UdpInv
  BY FS_EmptySet DEF Init, InitUdp, UdpInv, UdpTypes, UdpDisjoint, UdpAccounting, Reading

LEMMA UdpStepKeeps == UdpInv /\ UdpStep => UdpInv'
<1> SUFFICES ASSUME UdpInv, UdpStep PROVE UdpInv'
  OBVIOUS
<1>0. UdpTypes /\ UdpDisjoint /\ udp_pending + emptied = Cardinality(Reading)
  BY DEF UdpInv, UdpAccounting, Reading
<1>g. ASSUME UdpTypes', UdpDisjoint', udp_pending' + emptied' = Cardinality(Reading')
      PROVE  UdpInv'
  BY <1>g DEF UdpInv, UdpAccounting, Reading
<1>1. CASE BeginUdpServer
  <2>1. /\ udp_begin = "idle" /\ udp_begin' = "reading"
        /\ udp_to_read' = Families /\ udp_pending' = Cardinality(Families)
        /\ UNCHANGED <<udp_reads, udp_writes, silent, emptied>>
    BY <1>1 DEF BeginUdpServer
  <2>2. udp_reads = {} /\ silent = {} /\ emptied = 0
    BY <1>0, <2>1 DEF UdpDisjoint, Reading
  <2>3. Cardinality(Families) \in Nat
    BY FamiliesFinite, FS_CardinalityType
  <2>4. Reading' = Families
    BY <2>1, <2>2 DEF Reading
  <2> QED
    BY <1>0, <1>g, <2>1, <2>2, <2>3, <2>4 DEF UdpTypes, UdpDisjoint
<1>2. CASE UdpDelivered
  BY <1>0, <1>2 DEF UdpDelivered, UdpInv, UdpTypes, UdpDisjoint, UdpAccounting, Reading
<1>3. CASE KillUdpServer
  BY <1>0, <1>3 DEF KillUdpServer, UdpInv, UdpTypes, UdpDisjoint, UdpAccounting, Reading
<1>4. ASSUME NEW f \in Families, FirstUdpRead(f) \/ UdpReceived(f) PROVE UdpInv'
  <2>1. /\ UNCHANGED <<udp_begin, udp_writes, udp_pending, emptied, udp_known>>
        /\ \/ f \in udp_to_read /\ udp_to_read' = udp_to_read \ {f}
              /\ \/ udp_reads' = udp_reads \union {f} /\ silent' = silent
                 \/ udp_reads' = udp_reads /\ silent' = silent \union {f}
           \/ f \in udp_reads /\ udp_to_read' = udp_to_read
              /\ \/ udp_reads' = udp_reads /\ silent' = silent
                 \/ udp_reads' = udp_reads \ {f} /\ silent' = silent \union {f}
    BY <1>4, Zenon DEF FirstUdpRead, UdpReceived, ReadsAgain, ReadsNoMore
  <2>2. Reading' = Reading /\ UdpDisjoint'
    BY <1>0, <2>1 DEF Reading, UdpDisjoint
  <2>3. UdpTypes'
    BY <1>0, <2>1 DEF UdpTypes
  <2> QED
    BY <1>0, <1>g, <2>1, <2>2, <2>3
<1>5. ASSUME NEW f \in Families, UdpReadEmpty(f) PROVE UdpInv'
  <2>1. /\ f \in udp_reads /\ udp_reads' = udp_reads \ {f}
        /\ udp_pending' = udp_pending - 1
        /\ UNCHANGED <<udp_begin, udp_known, udp_to_read, udp_writes, silent, emptied>>
    BY <1>5 DEF UdpReadEmpty, UdpEmpty
  <2>2. f \in Reading /\ Reading' = Reading \ {f}
    BY <1>0, <2>1 DEF Reading, UdpDisjoint
  <2>3. IsFiniteSet(Reading)
    BY <1>0, FamiliesFinite, FS_Subset DEF UdpTypes, Reading
  <2>4. Cardinality(Reading \ {f}) = Cardinality(Reading) - 1 /\ Cardinality(Reading) \in Nat
    BY <2>2, <2>3, FS_RemoveElement, FS_CardinalityType
  <2>5. UdpTypes' /\ UdpDisjoint'
    BY <1>0, <2>1, <2>2 DEF UdpTypes, UdpDisjoint
  <2>6. udp_pending \in Int /\ emptied \in Nat
    BY <1>0 DEF UdpTypes
  <2> QED
    BY <1>0, <1>g, <2>1, <2>2, <2>4, <2>5, <2>6
<1>6. ASSUME NEW f \in Families, UdpWriteEmpty(f) PROVE UdpInv'
  <2>1. /\ udp_writes[f] > 0
        /\ udp_writes' = [udp_writes EXCEPT ![f] = @ - 1]
        /\ udp_pending' = udp_pending - 1 /\ emptied' = emptied + 1
        /\ UNCHANGED <<udp_begin, udp_known, udp_to_read, udp_reads, silent>>
    BY <1>6 DEF UdpWriteEmpty, UdpEmpty
  <2>2. udp_begin # "idle"
    BY <1>0, <2>1 DEF UdpDisjoint
  <2>3. Reading' = Reading /\ UdpDisjoint'
    BY <1>0, <2>1, <2>2 DEF Reading, UdpDisjoint
  <2>4. UdpTypes' /\ udp_pending' + emptied' = udp_pending + emptied
    BY <1>0, <2>1 DEF UdpTypes
  <2> QED
    BY <1>0, <1>g, <2>3, <2>4
<1>7. ASSUME NEW f \in Families, UdpSent(f) \/ SendUdpData(f) \/ SendUdpDataFails(f) PROVE UdpInv'
  <2>1. UNCHANGED <<udp_begin, udp_known, udp_to_read, udp_reads, silent, udp_pending, emptied>>
    BY <1>7 DEF UdpSent, SendUdpData, SendUdpDataFails
  <2>2. udp_begin # "idle"
    BY <1>0, <1>7 DEF UdpSent, SendUdpData, SendUdpDataFails, UdpDisjoint
  <2>3. \/ udp_writes' = udp_writes
        \/ \E n : udp_writes' = [udp_writes EXCEPT ![f] = n]
    BY <1>7 DEF UdpSent, SendUdpData, SendUdpDataFails
  <2>4. Reading' = Reading /\ UdpDisjoint' /\ UdpTypes'
    BY <1>0, <2>1, <2>2, <2>3 DEF Reading, UdpDisjoint, UdpTypes
  <2> QED
    BY <1>0, <1>g, <2>1, <2>4
<1> QED
  BY <1>1, <1>2, <1>3, <1>4, <1>5, <1>6, <1>7 DEF UdpStep

LEMMA UdpNext == UdpInv /\ [Next]_vars => UdpInv'
<1> SUFFICES ASSUME UdpInv, [Next]_vars PROVE UdpInv'
  OBVIOUS
<1>1. CASE UNCHANGED <<udp_begin, udp_to_read, udp_reads, udp_writes, udp_pending, silent, emptied>>
           /\ (udp_known' = FALSE \/ udp_known' = udp_known)
  <2>1. ~udp_known => ~udp_known'
    BY <1>1, Zenon
  <2>2. Reading' = Reading /\ UdpTypes' /\ UdpAccounting'
    BY <1>1 DEF UdpInv, UdpTypes, UdpAccounting, Reading
  <2> QED
    BY <1>1, <2>1, <2>2 DEF UdpInv, UdpDisjoint
<1>2. CASE UNCHANGED udp_vars
  BY <1>1, <1>2 DEF udp_vars
<1>3. CASE PartStep
  BY <1>2, <1>3, UdpStepKeeps DEF PartStep
<1>4. ASSUME NEW t \in callers, StopStep(t) PROVE UdpInv'
  <2>1. CASE KillAllServers(t)
    BY <1>1, <2>1 DEF KillAllServers, CloseUdp
  <2>2. CASE ~KillAllServers(t)
    BY <1>2, <1>4, <2>2, Zenon DEF StopStep, CloseAllMonitoredFolder, KillAllClient,
           KillAllConnections, part_vars
  <2> QED
    BY <2>1, <2>2
<1>5. CASE Shutdown
  BY <1>1, <1>5 DEF Shutdown
<1>6. CASE UNCHANGED part_vars
  BY <1>2, <1>6, Zenon DEF part_vars
<1> QED
  BY <1>3, <1>4, <1>5, <1>6, Zenon DEF Next, vars

\* nUdpServerPending counts the sockets that are read, less the WRITEs that were taken
\* for the end of a READ (WTProcessUdpServer): for any number of datagrams.
THEOREM UdpReadsAccounted == Spec => []UdpAccounting
  BY UdpInit, UdpNext, PTL DEF Spec, UdpInv
-----------------------------------------------------------------------------
(* The accepts of an open listener.                                        *)

By(l) == {p \in Peers : acceptor[p] = l}
Begun(l) == begin[l] \in {"posting", "counting"}

PostTypes ==
    /\ begin = [l \in Listeners |-> begin[l]]
    /\ listening \subseteq Listeners
    /\ to_post \in [Listeners -> Nat]
    /\ accepts \in [Listeners -> Nat]
    /\ reposting \in [Listeners -> Nat]
    /\ lost \in [Listeners -> Nat]
    /\ acceptor \in [Peers -> Listeners \union {NoListener}]
    /\ peer = [p \in Peers |-> peer[p]]

\* A listener has accepts, is open, entered or killed only when it has begun.
Fresh(l) ==
    /\ l \in listening \/ l \in killed \/ registered = l => Begun(l)
    /\ l \notin listening \/ l \notin killed
    /\ ~Begun(l) => accepts[l] = 0 /\ reposting[l] = 0 /\ lost[l] = 0 /\ By(l) = {}

\* Where the accepts of a listener are.
Kept(l) ==
    /\ IsFiniteSet(By(l))
    /\ status = {} /\ Begun(l) /\ l \notin killed =>
          to_post[l] + accepts[l] + reposting[l] + lost[l] + Cardinality(By(l)) = Posts

\* A peer whose accept has completed has the listener of its worker.
Accepted == \A p \in Peers : peer[p] = "queued" <=> acceptor[p] # NoListener

PostInv == PostTypes /\ Accepted /\ \A l \in Listeners : Fresh(l) /\ Kept(l)

LEMMA PostInit == Init => PostInv
<1> SUFFICES ASSUME Init PROVE PostInv
  OBVIOUS
<1>1. PostTypes /\ Accepted
  BY DEF Init, InitListener, PostTypes, Accepted
<1>2. ASSUME NEW l \in Listeners PROVE Fresh(l) /\ Kept(l)
  <2>1. By(l) = {} /\ ~Begun(l)
    BY NoListenerAssumption DEF Init, InitListener, By, Begun
  <2> QED
    BY <2>1, FS_EmptySet, NoListenerAssumption DEF Init, InitListener, Fresh, Kept
<1> QED
  BY <1>1, <1>2 DEF PostInv

\* The status is never cleared.
LEMMA StatusStays == [Next]_vars /\ status' = {} => status = {}
<1> SUFFICES ASSUME [Next]_vars, status' = {} PROVE status = {}
  OBVIOUS
<1>1. CASE PartStep
  BY <1>1, PartsLeaveStatus DEF status_vars
<1>2. ASSUME NEW t \in callers, StopStep(t) PROVE status = {}
  <2>1. status' = status \/ status' = {"preterminate"} \/ status' = status \union {"terminate"}
    BY <1>2, Zenon DEF StopStep, Terminate, SetPreterminate, SetTerminate, WaitForServerUnlock,
           CloseAllMonitoredFolder, KillAllServers, KillAllClient, KillAllConnections, Advance
  <2> QED
    BY <2>1
<1>3. CASE StartServer \/ WorkerLeaves \/ Shutdown
  BY <1>3, Zenon DEF StartServer, WorkerLeaves, Shutdown, Run, status_vars
<1>4. CASE UNCHANGED vars
  BY <1>4 DEF vars, server_vars, status_vars
<1> QED
  BY <1>1, <1>2, <1>3, <1>4, Zenon DEF Next

\* What one step does to the accepts of one listener, with a peer that comes or goes.
LEMMA BeginsKept ==
    ASSUME PostInv, UNCHANGED status, NEW l \in Listeners,
           \/ BeginTcpServer(l) \/ Listen(l) \/ ListenFails(l) \/ BeginCounts(l)
           \/ Count(l) \/ KillTcpServer(l)
    PROVE  PostInv'
<1> USE DEF PostTypes
<1>0. UNCHANGED <<accepts, reposting, lost, acceptor, peer>>
  BY DEF BeginTcpServer, Listen, ListenFails, BeginCounts, Count, KillTcpServer, accept_vars,
         client_vars
<1>1. PostTypes' /\ Accepted'
  <2>1. Accepted'
    BY <1>0 DEF PostInv, Accepted
  <2>2. listening' \subseteq Listeners /\ begin' = [m \in Listeners |-> begin'[m]]
    BY DEF PostInv, BeginTcpServer, Listen, ListenFails, BeginCounts, Count, KillTcpServer
  <2>3. to_post' \in [Listeners -> Nat]
    BY PostsAssumption DEF PostInv, BeginTcpServer, Listen, ListenFails, BeginCounts, Count,
           KillTcpServer
  <2> QED
    BY <1>0, <2>1, <2>2, <2>3 DEF PostInv
<1>2. ASSUME NEW m \in Listeners PROVE Fresh(m)' /\ Kept(m)'
  <2>0. By(m)' = By(m) /\ Fresh(m) /\ Kept(m) /\ PostTypes
    BY <1>0 DEF By, PostInv
  <2> USE DEF Fresh, Kept, Begun
  <2>1. CASE BeginTcpServer(l)
    BY <1>0, <2>0, <2>1 DEF BeginTcpServer
  <2>2. CASE Listen(l)
    <3>1. CASE m = l
      <4>1. By(m) = {} /\ accepts[m] = 0 /\ reposting[m] = 0 /\ lost[m] = 0 /\ m \notin killed
        BY <2>0, <2>2, <3>1 DEF Listen
      <4>2. to_post'[m] = Posts /\ begin'[m] = "posting" /\ killed' = killed
        BY <2>0, <2>2, <3>1 DEF Listen
      <4>3. Cardinality(By(m)) = 0
        BY <4>1, FS_EmptySet
      <4> QED
        BY <1>0, <2>0, <4>1, <4>2, <4>3, PostsAssumption
    <3>2. CASE m # l
      BY <1>0, <2>0, <2>2, <3>2 DEF Listen
    <3> QED
      BY <3>1, <3>2
  <2>3. CASE ListenFails(l)
    BY <1>0, <2>0, <2>3 DEF ListenFails
  <2>4. CASE BeginCounts(l)
    BY <1>0, <2>0, <2>4 DEF BeginCounts
  <2>5. CASE Count(l)
    BY <1>0, <2>0, <2>5 DEF Count
  <2>6. CASE KillTcpServer(l)
    BY <1>0, <2>0, <2>6, NoListenerAssumption DEF KillTcpServer
  <2> QED
    BY <2>1, <2>2, <2>3, <2>4, <2>5, <2>6
<1> QED
  BY <1>1, <1>2 DEF PostInv

\* Accepts are posted, posted again, refused, or fail.
LEMMA PostsKept ==
    ASSUME PostInv, UNCHANGED status, NEW l \in Listeners,
           BeginPosts(l) \/ Repost(l) \/ AcceptAgain(l) \/ AcceptAborted(l)
    PROVE  PostInv'
<1> USE DEF PostTypes
<1>0. UNCHANGED <<acceptor, peer, listening, killed, registered>>
  BY DEF BeginPosts, Repost, AcceptAgain, AcceptAborted, AcceptFails, client_vars
<1>1. /\ \/ begin' = begin
         \/ begin[l] = "posting" /\ begin' = [begin EXCEPT ![l] = "counting"]
      /\ \/ /\ to_post[l] > 0 /\ begin[l] = "posting"
            /\ to_post' = Dec(to_post, l) /\ reposting' = reposting
            /\ \/ accepts' = Inc(accepts, l) /\ lost' = lost
               \/ accepts' = accepts /\ lost' = Inc(lost, l)
         \/ /\ reposting[l] > 0
            /\ reposting' = Dec(reposting, l) /\ to_post' = to_post
            /\ \/ accepts' = Inc(accepts, l) /\ lost' = lost
               \/ accepts' = accepts /\ lost' = Inc(lost, l)
         \/ /\ accepts[l] > 0 /\ accepts' = Dec(accepts, l)
            /\ reposting' = Inc(reposting, l) /\ UNCHANGED <<to_post, lost>>
         \/ /\ accepts[l] > 0 /\ accepts' = Dec(accepts, l)
            /\ status # {} \/ l \in killed
            /\ UNCHANGED <<to_post, lost, reposting>>
  BY DEF BeginPosts, Repost, AcceptAgain, AcceptAborted, AcceptFails, Posted, NotPosted
<1>2. PostTypes
  BY DEF PostInv
<1>3. PostTypes' /\ Accepted'
  <2>1. Accepted'
    BY <1>0 DEF PostInv, Accepted
  <2>2. /\ begin' = [m \in Listeners |-> begin'[m]] /\ to_post' \in [Listeners -> Nat]
        /\ accepts' \in [Listeners -> Nat]
        /\ reposting' \in [Listeners -> Nat] /\ lost' \in [Listeners -> Nat]
    BY <1>1, <1>2 DEF Inc, Dec
  <2> QED
    BY <1>0, <1>2, <2>1, <2>2
<1>4. ASSUME NEW m \in Listeners PROVE Fresh(m)' /\ Kept(m)'
  <2>0. By(m)' = By(m) /\ Fresh(m) /\ Kept(m) /\ (Begun(m)' <=> Begun(m))
    BY <1>0, <1>1, <1>2 DEF By, PostInv, Begun
  <2>1. CASE m # l
    <3>1. /\ to_post'[m] = to_post[m] /\ accepts'[m] = accepts[m]
          /\ reposting'[m] = reposting[m] /\ lost'[m] = lost[m]
      BY <1>1, <1>2, <2>1 DEF Inc, Dec
    <3> QED
      BY <1>0, <2>0, <3>1 DEF Fresh, Kept
  <2>2. CASE m = l
    <3>1. Begun(m)
      BY <1>1, <1>2, <2>0, <2>2 DEF Fresh, Begun
    <3>2. \/ to_post'[m] + accepts'[m] + reposting'[m] + lost'[m]
                = to_post[m] + accepts[m] + reposting[m] + lost[m]
          \/ status # {} \/ m \in killed
      BY <1>1, <1>2, <2>2 DEF Inc, Dec
    <3>3. Cardinality(By(m)) \in Nat
      BY <2>0, FS_CardinalityType DEF Kept
    <3>4. /\ to_post'[m] \in Nat /\ accepts'[m] \in Nat
          /\ reposting'[m] \in Nat /\ lost'[m] \in Nat
          /\ to_post[m] \in Nat /\ accepts[m] \in Nat
          /\ reposting[m] \in Nat /\ lost[m] \in Nat
      BY <1>2, <1>3
    <3> QED
      BY <1>0, <2>0, <3>1, <3>2, <3>3, <3>4 DEF Fresh, Kept
  <2> QED
    BY <2>1, <2>2
<1> QED
  BY <1>3, <1>4 DEF PostInv

\* A peer takes the accept of a listener with it, and its worker gives it back.
LEMMA PeersKept ==
    ASSUME PostInv, UNCHANGED status, NEW p \in Peers,
           (\E l \in Listeners : AcceptCompletes(l, p)) \/ Refuse(p) \/ Admit(p)
    PROVE  PostInv'
<1> USE DEF PostTypes
<1>0. UNCHANGED <<begin, to_post, listening, killed, registered, lost>>
  BY DEF AcceptCompletes, Refuse, Admit
<1>1. PostTypes /\ Accepted
  BY DEF PostInv
<1>2. ASSUME NEW m \in Listeners,
             Kept(m) => Kept(m)', By(m)' = By(m) \/ Begun(m),
             (accepts'[m] = accepts[m] /\ reposting'[m] = reposting[m]) \/ Begun(m)
      PROVE  Fresh(m)' /\ Kept(m)'
  BY <1>0, <1>2 DEF PostInv, Fresh, Begun
<1>3. ASSUME NEW l \in Listeners, AcceptCompletes(l, p) PROVE PostInv'
  <2>1. /\ accepts[l] > 0 /\ accepts' = Dec(accepts, l) /\ reposting' = reposting
        /\ peer[p] = "none" /\ peer' = [peer EXCEPT ![p] = "queued"]
        /\ acceptor' = [acceptor EXCEPT ![p] = l]
    BY <1>3 DEF AcceptCompletes
  <2>2. acceptor[p] = NoListener
    BY <1>1, <2>1 DEF Accepted
  <2>3. PostTypes' /\ Accepted'
    BY <1>0, <1>1, <2>1, NoListenerAssumption DEF Accepted, Dec
  <2>4. ASSUME NEW m \in Listeners PROVE Fresh(m)' /\ Kept(m)'
    <3>1. CASE m # l
      <4>1. By(m)' = By(m)
        BY <1>1, <2>1, <2>2, <3>1, NoListenerAssumption DEF By
      <4> QED
        BY <1>0, <1>1, <1>2, <2>1, <3>1, <4>1 DEF Kept, Begun, Dec
    <3>2. CASE m = l
      <4>1. By(m)' = By(m) \union {p} /\ p \notin By(m)
        BY <1>1, <2>1, <2>2, <3>2, NoListenerAssumption DEF By
      <4>2. Kept(m)
        BY DEF PostInv
      <4>3. IsFiniteSet(By(m)') /\ Cardinality(By(m)') = Cardinality(By(m)) + 1
            /\ Cardinality(By(m)) \in Nat
        BY <4>1, <4>2, FS_AddElement, FS_CardinalityType DEF Kept
      <4>4. accepts'[m] = accepts[m] - 1 /\ reposting'[m] = reposting[m] /\ accepts[m] \in Nat
            /\ reposting[m] \in Nat /\ to_post[m] \in Nat /\ lost[m] \in Nat
        BY <1>1, <2>1, <3>2 DEF Dec
      <4>5. Kept(m)'
        <5>1. (Begun(m)' <=> Begun(m)) /\ killed' = killed /\ status' = status
              /\ to_post'[m] = to_post[m] /\ lost'[m] = lost[m]
          BY <1>0 DEF Begun
        <5>2. to_post[m] + (accepts[m] - 1) + reposting[m] + lost[m] + (Cardinality(By(m)) + 1)
                = to_post[m] + accepts[m] + reposting[m] + lost[m] + Cardinality(By(m))
          BY <4>3, <4>4
        <5>3. to_post'[m] + accepts'[m] + reposting'[m] + lost'[m] + Cardinality(By(m)')
                = to_post[m] + accepts[m] + reposting[m] + lost[m] + Cardinality(By(m))
          BY <4>3, <4>4, <5>1, <5>2
        <5> QED
          BY <4>2, <4>3, <5>1, <5>3 DEF Kept
      <4>6. Begun(m)
        BY <2>1, <3>2 DEF PostInv, Fresh
      <4> QED
        BY <1>2, <4>5, <4>6
    <3> QED
      BY <3>1, <3>2
  <2> QED
    BY <2>3, <2>4 DEF PostInv
<1>4. CASE Refuse(p) \/ Admit(p)
  <2> DEFINE l == acceptor[p]
  <2>1. /\ accepts' = accepts /\ reposting' = Inc(reposting, l)
        /\ peer[p] = "queued"
        /\ peer' = [peer EXCEPT ![p] = "gone"] \/ peer' = [peer EXCEPT ![p] = "open"]
        /\ acceptor' = [acceptor EXCEPT ![p] = NoListener]
    BY <1>4 DEF Refuse, Admit
  <2>2. l \in Listeners
    BY <1>1, <2>1 DEF Accepted
  <2>3. PostTypes' /\ Accepted'
    BY <1>0, <1>1, <2>1 DEF Accepted, Inc
  <2>4. ASSUME NEW m \in Listeners PROVE Fresh(m)' /\ Kept(m)'
    <3>1. CASE m # l
      <4>1. By(m)' = By(m)
        BY <1>1, <2>1, <3>1, NoListenerAssumption DEF By
      <4>2. reposting'[m] = reposting[m]
        BY <1>1, <2>1, <2>2, <3>1 DEF Inc
      <4> QED
        BY <1>0, <1>2, <2>1, <4>1, <4>2 DEF Kept, Begun
    <3>2. CASE m = l
      <4>1. By(m)' = By(m) \ {p} /\ p \in By(m)
        BY <1>1, <2>1, <3>2, NoListenerAssumption DEF By
      <4>2. Kept(m)
        BY DEF PostInv
      <4>3. IsFiniteSet(By(m)') /\ Cardinality(By(m)') = Cardinality(By(m)) - 1
            /\ Cardinality(By(m)) \in Nat
        BY <4>1, <4>2, FS_RemoveElement, FS_CardinalityType DEF Kept
      <4>4. reposting'[m] = reposting[m] + 1 /\ accepts[m] \in Nat /\ reposting[m] \in Nat
            /\ to_post[m] \in Nat /\ lost[m] \in Nat
        BY <1>1, <2>1, <2>2, <3>2 DEF Inc
      <4>5. Kept(m)'
        <5>1. (Begun(m)' <=> Begun(m)) /\ killed' = killed /\ status' = status
              /\ to_post'[m] = to_post[m] /\ lost'[m] = lost[m]
          BY <1>0 DEF Begun
        <5> QED
          BY <2>1, <4>2, <4>3, <4>4, <5>1 DEF Kept
      <4>6. Begun(m)
        BY <4>1 DEF PostInv, Fresh
      <4> QED
        BY <1>2, <4>5, <4>6
    <3> QED
      BY <3>1, <3>2
  <2> QED
    BY <2>3, <2>4 DEF PostInv
<1> QED
  BY <1>3, <1>4

\* Everything else: the clients go on, the server is stopped, other parts work.
LEMMA OthersKept ==
    ASSUME PostInv, status' = {} => status = {},
           UNCHANGED <<begin, to_post, accepts, reposting, lost, acceptor>>,
           peer' = [p \in Peers |-> peer'[p]],
           \A p \in Peers : peer'[p] = "queued" <=> peer[p] = "queued",
           registered' \in {registered, NoListener},
           \/ UNCHANGED <<listening, killed>>
           \/ /\ registered \in Listeners
              /\ killed' = killed \union {registered} /\ listening' = listening \ {registered}
    PROVE  PostInv'
<1>1. PostTypes' /\ Accepted'
  BY DEF PostInv, PostTypes, Accepted
<1>2. ASSUME NEW m \in Listeners PROVE Fresh(m)' /\ Kept(m)'
  <2>1. By(m)' = By(m) /\ (Begun(m)' <=> Begun(m)) /\ Fresh(m) /\ Kept(m)
    BY DEF By, Begun, PostInv
  <2>2. Fresh(m)'
    BY <2>1, NoListenerAssumption DEF Fresh
  <2>3. Kept(m)'
    BY <2>1 DEF Kept
  <2> QED
    BY <2>2, <2>3
<1> QED
  BY <1>1, <1>2 DEF PostInv

LEMMA PostNext == PostInv /\ [Next]_vars => PostInv'
<1> SUFFICES ASSUME PostInv, [Next]_vars PROVE PostInv'
  OBVIOUS
<1>0. (status' = {} => status = {}) /\ PostTypes /\ Accepted
  BY StatusStays DEF PostInv
<1>1. CASE UNCHANGED listener_vars
  BY <1>0, <1>1, OthersKept DEF listener_vars, accept_vars, client_vars, PostTypes
<1>2. CASE PartStep
  <2>0. UNCHANGED status
    BY <1>2, PartsLeaveStatus DEF status_vars
  <2>1. CASE ListenerStep
    <3>1. ASSUME NEW l \in Listeners,
                 \/ BeginTcpServer(l) \/ Listen(l) \/ ListenFails(l) \/ BeginPosts(l)
                 \/ BeginCounts(l) \/ Repost(l) \/ Count(l) \/ AcceptAgain(l)
                 \/ AcceptAborted(l) \/ KillTcpServer(l)
                 \/ \E p \in Peers : AcceptCompletes(l, p)
          PROVE  PostInv'
      BY <2>0, <3>1, BeginsKept, PostsKept, PeersKept
    <3>2. ASSUME NEW p \in Peers, Refuse(p) \/ Admit(p) PROVE PostInv'
      BY <2>0, <3>2, PeersKept
    <3>3. ASSUME NEW p \in Peers, ClientData(p) \/ ClientDataDone(p) \/ ClientLeaves(p)
          PROVE  PostInv'
      <4>1. /\ UNCHANGED <<begin, to_post, accepts, reposting, lost, acceptor, registered,
                           listening, killed>>
            /\ peer[p] # "queued"
            /\ \E s \in {"talking", "open", "closing", "gone"} : peer' = [peer EXCEPT ![p] = s]
        BY <3>3 DEF ClientData, ClientDataDone, ClientLeaves, Client, accept_vars
      <4> QED
        BY <1>0, <4>1, OthersKept DEF PostTypes
    <3> QED
      BY <2>1, <3>1, <3>2, <3>3 DEF ListenerStep
  <2> QED
    BY <1>1, <1>2, <2>1 DEF PartStep
<1>3. ASSUME NEW t \in callers, StopStep(t) PROVE PostInv'
  <2>1. CASE KillAllServers(t)
    <3>1. /\ UNCHANGED <<begin, to_post, accepts, reposting, lost, acceptor, registered, peer>>
          /\ \/ UNCHANGED <<listening, killed>>
             \/ /\ registered \in Listeners
                /\ killed' = killed \union {registered} /\ listening' = listening \ {registered}
      BY <2>1 DEF KillAllServers, CloseListeners, accept_vars, client_vars
    <3> QED
      BY <1>0, <3>1, OthersKept DEF PostTypes
  <2>2. CASE KillAllClient(t)
    <3>1. /\ UNCHANGED <<begin, to_post, accepts, reposting, lost, acceptor, registered,
                         listening, killed>>
          /\ peer' = [p \in Peers |-> CASE peer[p] = "open" -> "closing"
                                        [] peer[p] = "talking" -> "told"
                                        [] OTHER -> peer[p]]
      BY <2>2 DEF KillAllClient, CloseClients, accept_vars
    <3> QED
      BY <1>0, <3>1, OthersKept DEF PostTypes
  <2>3. CASE ~KillAllServers(t) /\ ~KillAllClient(t)
    BY <1>1, <1>3, <2>3, Zenon DEF StopStep, CloseAllMonitoredFolder, KillAllConnections,
           part_vars
  <2> QED
    BY <2>1, <2>2, <2>3
<1>4. CASE Shutdown
  <2>1. /\ UNCHANGED <<begin, to_post, accepts, reposting, lost, acceptor, peer, listening, killed>>
        /\ registered' = NoListener
    BY <1>4 DEF Shutdown, accept_vars, client_vars
  <2> QED
    BY <1>0, <2>1, OthersKept DEF PostTypes
<1>5. CASE UNCHANGED part_vars
  BY <1>1, <1>5, Zenon DEF part_vars
<1> QED
  BY <1>2, <1>3, <1>4, <1>5, Zenon DEF Next, vars

\* An open listener keeps the accepts it posted while clients come, are refused or give
\* up (WTProcessTcpServer, IssueAccept), for any number of posts and peers.
THEOREM PostsAreKept == Spec => []AcceptsKept
<1>1. PostInv => AcceptsKept
  BY DEF PostInv, PostTypes, Fresh, Kept, By, AcceptsKept
<1> QED
  BY <1>1, PostInit, PostNext, PTL DEF Spec
=============================================================================
