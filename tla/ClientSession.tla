---------------------------- MODULE ClientSession -----------------------------
(***************************************************************************)
(* The life of client connections in CSTXIOCPServer: the completion of an  *)
(* AcceptEx (WTProcessTcpServer, Accept), the READ operations that follow  *)
(* each other on a client (WTProcessClientSocket, IssueClientRead), the    *)
(* disconnection by the server (DisconnectClient, IssueClientDisconnectEx) *)
(* and the tear-down (OnClientDisconnect, ReleaseClient, the destructor).  *)
(*                                                                         *)
(* A client context is reference counted.  It is held by its context key,  *)
(* by m_mapClientContext, whose key is the peer's address and port, and by *)
(* the operations outstanding on it.  _mapClients of the universal server  *)
(* holds it by a plain pointer, from its creation to OnClientDisconnect.   *)
(***************************************************************************)
EXTENDS Integers, FiniteSets

CONSTANTS
    Clients,    \* client contexts; each is used for one connection
    Addresses,  \* peer addresses with port
    Address,    \* the peer of a client
    Limit,      \* _maximumClientCount, 0 for no limit
    Accepts,    \* dwAcceptPost: AcceptEx operations posted on the listener
    Callers,    \* who disconnects clients
    NoClient    \* not a client

ASSUME AddressAssumption == Address \in [Clients -> Addresses]
ASSUME LimitAssumption == Limit \in Nat
ASSUME AcceptsAssumption == Accepts \in Nat \ {0}
ASSUME NoClientAssumption == NoClient \notin Clients

\* Any thread by a client's uid, the timeout timer of its READ operation, the
\* worker that handles its data.
ASSUME CallersAssumption == Callers \subseteq {"uid", "timer", "handler"}

VARIABLES
    conn,         \* the transport connection: none, up, or down (external)
    sock,         \* clients whose m_socket is open
    disconnected, \* clients with m_bDisconnected
    accept,       \* where the worker that accepts the client is
    read,         \* the READ operation of the client
    discs,        \* DISCONNECT operations outstanding on the client
    pc,           \* where a caller of DisconnectClient is
    target,       \* the client it disconnects
    count,        \* _currentClientCount
    live,         \* client contexts that exist
    keys,         \* clients whose context key exists
    byAddress,    \* m_mapClientContext
    byUid,        \* _mapClients
    events,       \* m_nDisconnectEventProcessed
    reused,       \* an address was found taken when it was to be registered
    broken        \* ReleaseClient did not find the address: DebugBreak

vars == <<conn, sock, disconnected, accept, read, discs, pc, target, count, live,
          keys, byAddress, byUid, events, reused, broken>>

Init ==
    /\ conn = [c \in Clients |-> "none"]
    /\ sock = {}
    /\ disconnected = {}
    /\ accept = [c \in Clients |-> "none"]
    /\ read = [c \in Clients |-> "none"]
    /\ discs = [c \in Clients |-> 0]
    /\ pc = [t \in Callers |-> "idle"]
    /\ target = [t \in Callers |-> NoClient]
    /\ count = 0
    /\ live = {}
    /\ keys = {}
    /\ byAddress = [a \in Addresses |-> NoClient]
    /\ byUid = {}
    /\ events = [c \in Clients |-> 0]
    /\ reused = FALSE
    /\ broken = FALSE

calls == <<pc, target>>
contexts == <<count, live>>
maps == <<byAddress, byUid, reused, broken>>

InCall(t, c) == t \in Callers /\ pc[t] # "idle" /\ target[t] = c

Referenced(c) ==
    \/ c \in keys
    \/ byAddress[Address[c]] = c
    \/ read[c] # "none"
    \/ discs[c] > 0
    \/ InCall("timer", c)

\* The last reference deletes the context; its destructor gives the place back.
Reap ==
    /\ live' = {c \in live : Referenced(c)'}
    /\ count' = count - Cardinality({c \in live : ~Referenced(c)'})

\* ReleaseClient removes whatever is registered at the client's address.
Unregister(c) ==
    /\ broken' = (byAddress[Address[c]] = NoClient)
    /\ byAddress' = [byAddress EXCEPT ![Address[c]] = NoClient]
-----------------------------------------------------------------------------
(* Accepting a client.                                                     *)

Accepting == {c \in Clients : accept[c] \in {"completed", "admitted", "created", "bound"}}

\* A peer connects and a posted AcceptEx completes.  The peer may use its port
\* again as soon as its former connection is down.
Connect(c) ==
    /\ accept[c] = "none"
    /\ Cardinality(Accepting) < Accepts
    /\ \A d \in Clients : Address[d] = Address[c] => conn[d] # "up"
    /\ conn' = [conn EXCEPT ![c] = "up"]
    /\ accept' = [accept EXCEPT ![c] = "completed"]
    /\ UNCHANGED <<sock, disconnected, read, discs, calls, contexts, keys, maps, events>>

PeerCloses(c) ==
    /\ conn[c] = "up"
    /\ conn' = [conn EXCEPT ![c] = "down"]
    /\ UNCHANGED <<sock, disconnected, accept, read, discs, calls, contexts, keys, maps, events>>

IsReachedMaximumClient == Limit > 0 /\ count >= Limit

\* Mutation: the limit itself is still let in.
AdmitOneMore(c) ==
    /\ accept[c] = "completed"
    /\ Limit = 0 \/ count <= Limit
    /\ accept' = [accept EXCEPT ![c] = "admitted"]
    /\ UNCHANGED <<conn, sock, disconnected, read, discs, calls, contexts, keys, maps, events>>

\* The limit is tested before the client is counted.
Admit(c) ==
    /\ accept[c] = "completed"
    /\ ~IsReachedMaximumClient
    /\ accept' = [accept EXCEPT ![c] = "admitted"]
    /\ UNCHANGED <<conn, sock, disconnected, read, discs, calls, contexts, keys, maps, events>>

Reject(c) ==
    /\ accept[c] = "completed"
    /\ IsReachedMaximumClient
    /\ accept' = [accept EXCEPT ![c] = "rejected"]
    /\ conn' = [conn EXCEPT ![c] = "down"]
    /\ UNCHANGED <<sock, disconnected, read, discs, calls, contexts, keys, maps, events>>

\* Mutation: the client is not counted.
CreateUncounted(c) ==
    /\ accept[c] = "admitted"
    /\ accept' = [accept EXCEPT ![c] = "created"]
    /\ live' = live \union {c}
    /\ keys' = keys \union {c}
    /\ sock' = sock \union {c}
    /\ byUid' = byUid \union {c}
    /\ UNCHANGED <<conn, disconnected, read, discs, calls, count, byAddress, reused, broken,
                   events>>

\* The client is counted, its context created and given to a new context key.
Create(c) ==
    /\ accept[c] = "admitted"
    /\ accept' = [accept EXCEPT ![c] = "created"]
    /\ count' = count + 1
    /\ live' = live \union {c}
    /\ keys' = keys \union {c}
    /\ sock' = sock \union {c}
    /\ byUid' = byUid \union {c}
    /\ UNCHANGED <<conn, disconnected, read, discs, calls, byAddress, reused, broken, events>>

\* Under the lock of the address: it is registered, if it is not taken, and the
\* socket is bound to the completion port.
Register(c) ==
    /\ accept[c] = "created"
    /\ accept' = [accept EXCEPT ![c] = "bound"]
    /\ IF byAddress[Address[c]] = NoClient
       THEN byAddress' = [byAddress EXCEPT ![Address[c]] = c] /\ UNCHANGED reused
       ELSE reused' = TRUE /\ UNCHANGED byAddress
    /\ UNCHANGED <<conn, sock, disconnected, read, discs, calls, contexts, keys, byUid,
                   broken, events>>

\* Binding fails: the address is removed, the context key is never deleted.
BindFails(c) ==
    /\ accept[c] = "created"
    /\ accept' = [accept EXCEPT ![c] = "unbound"]
    /\ byAddress' = [byAddress EXCEPT ![Address[c]] = NoClient]
    /\ reused' = (reused \/ byAddress[Address[c]] # NoClient)
    /\ UNCHANGED <<conn, sock, disconnected, read, discs, calls, keys, byUid, broken, events>>
    /\ Reap
-----------------------------------------------------------------------------
(* Reading from a client.  A context has at most one READ outstanding.     *)

\* IssueClientRead: WSARecv takes the operation, also on a connection that the
\* peer has closed, unless it reports the loss at once or the socket is closed.
ReadTaken(c) == c \notin disconnected /\ c \in sock
ReadFails(c) == c \in disconnected \/ conn[c] = "down" \/ c \notin sock

\* OnAccepted has returned; the first READ is issued.
FirstRead(c) ==
    /\ accept[c] = "bound"
    /\ ~InCall("handler", c)
    /\ ReadTaken(c)
    /\ accept' = [accept EXCEPT ![c] = "done"]
    /\ read' = [read EXCEPT ![c] = "pending"]
    /\ UNCHANGED <<conn, sock, disconnected, discs, calls, contexts, keys, maps, events>>

\* The buffer pool has no buffer: TRUE is returned, nothing is read.
FirstReadStarved(c) ==
    /\ accept[c] = "bound"
    /\ ~InCall("handler", c)
    /\ c \notin disconnected
    /\ accept' = [accept EXCEPT ![c] = "starved"]
    /\ UNCHANGED <<conn, sock, disconnected, read, discs, calls, contexts, keys, maps, events>>

\* The first READ fails: the client is released without a disconnect event.
FirstReadFails(c) ==
    /\ accept[c] = "bound"
    /\ ~InCall("handler", c)
    /\ ReadFails(c)
    /\ accept' = [accept EXCEPT ![c] = "refused"]
    /\ conn' = [conn EXCEPT ![c] = "down"]
    /\ sock' = sock \ {c}
    /\ keys' = keys \ {c}
    /\ Unregister(c)
    /\ UNCHANGED <<disconnected, read, discs, calls, byUid, reused, events>>
    /\ Reap

ReadData(c) ==
    /\ read[c] = "pending"
    /\ conn[c] = "up"
    /\ read' = [read EXCEPT ![c] = "data"]
    /\ UNCHANGED <<conn, sock, disconnected, accept, discs, calls, contexts, keys, maps, events>>

\* Nothing was read: the connection is gone.
ReadZero(c) ==
    /\ read[c] = "pending"
    /\ conn[c] = "down"
    /\ read' = [read EXCEPT ![c] = "lost"]
    /\ UNCHANGED <<conn, sock, disconnected, accept, discs, calls, contexts, keys, maps, events>>

\* The received data has been handled; the next READ is issued, on the buffer
\* the context already has.
NextRead(c) ==
    /\ read[c] = "data"
    /\ ~InCall("handler", c)
    /\ ReadTaken(c)
    /\ read' = [read EXCEPT ![c] = "pending"]
    /\ UNCHANGED <<conn, sock, disconnected, accept, discs, calls, contexts, keys, maps, events>>

NextReadFails(c) ==
    /\ read[c] = "data"
    /\ ~InCall("handler", c)
    /\ ReadFails(c)
    /\ read' = [read EXCEPT ![c] = "lost"]
    /\ UNCHANGED <<conn, sock, disconnected, accept, discs, calls, contexts, keys, maps, events>>
-----------------------------------------------------------------------------
(* Tear-down, by the worker that found the client lost.                    *)

\* Mutation: the uid is not removed.
DisconnectEventKeepsUid(c) ==
    /\ read[c] = "lost"
    /\ read' = [read EXCEPT ![c] = "leaving"]
    /\ events' = [events EXCEPT ![c] = @ + 1]
    /\ UNCHANGED <<conn, sock, disconnected, accept, discs, calls, contexts, keys, maps>>

\* OnClientDisconnect: the event, and the end of the client's uid, for which a
\* thread inside DisconnectTcpClient holds the lock.
DisconnectEvent(c) ==
    /\ read[c] = "lost"
    /\ ~InCall("uid", c)
    /\ read' = [read EXCEPT ![c] = "leaving"]
    /\ events' = [events EXCEPT ![c] = @ + 1]
    /\ byUid' = byUid \ {c}
    /\ UNCHANGED <<conn, sock, disconnected, accept, discs, calls, contexts, keys,
                   byAddress, reused, broken>>

\* Mutation: the context key is not deleted.
ReleaseClientKeepsKey(c) ==
    /\ read[c] = "leaving"
    /\ read' = [read EXCEPT ![c] = "none"]
    /\ conn' = [conn EXCEPT ![c] = "down"]
    /\ sock' = sock \ {c}
    /\ Unregister(c)
    /\ UNCHANGED <<disconnected, accept, discs, calls, keys, byUid, reused, events>>
    /\ Reap

\* ReleaseClient; the context key and the READ operation are deleted.
ReleaseClient(c) ==
    /\ read[c] = "leaving"
    /\ read' = [read EXCEPT ![c] = "none"]
    /\ conn' = [conn EXCEPT ![c] = "down"]
    /\ sock' = sock \ {c}
    /\ keys' = keys \ {c}
    /\ Unregister(c)
    /\ UNCHANGED <<disconnected, accept, discs, calls, byUid, reused, events>>
    /\ Reap

-----------------------------------------------------------------------------
(* Disconnection by the server: DisconnectClient, DisconnectClientByTimeout *)
(* and IssueClientDisconnectEx.                                            *)

\* Who can find the client: a thread that looks its uid up and keeps the lock of
\* the entry, the timer of its outstanding READ, the worker in its callbacks.
\* The uid is known from OnAccepted on.  Following the pointer of a deleted
\* context is undefined and not modelled.
CanReach(t, c) ==
    CASE t = "uid"     -> c \in byUid /\ c \in live /\ accept[c] # "created"
      [] t = "timer"   -> read[c] = "pending"
      [] t = "handler" -> read[c] = "data" \/ accept[c] = "bound"

Disconnect(t, c) ==
    /\ pc[t] = "idle"
    /\ CanReach(t, c)
    /\ c \notin disconnected
    /\ pc' = [pc EXCEPT ![t] = "issuing"]
    /\ target' = [target EXCEPT ![t] = c]
    /\ UNCHANGED <<conn, sock, disconnected, accept, read, discs, contexts, keys, maps, events>>

Return(t) ==
    /\ pc' = [pc EXCEPT ![t] = "idle"]
    /\ target' = [target EXCEPT ![t] = NoClient]

\* DisconnectEx takes the operation.
DisconnectEx(t) ==
    /\ pc[t] = "issuing"
    /\ LET c == target[t]
       IN  /\ c \in sock
           /\ conn' = [conn EXCEPT ![c] = "down"]
           /\ discs' = [discs EXCEPT ![c] = @ + 1]
    /\ pc' = [pc EXCEPT ![t] = "marking"]
    /\ UNCHANGED <<sock, disconnected, accept, read, target, contexts, keys, maps, events>>

\* DisconnectEx fails on a connection that is down: the client is not marked.
DisconnectExFails(t) ==
    /\ pc[t] = "issuing"
    /\ conn[target[t]] = "down"
    /\ Return(t)
    /\ UNCHANGED <<conn, sock, disconnected, accept, read, discs, keys, maps, events>>
    /\ Reap

\* MarkDisconnected, after the operation has been issued.
MarkDisconnected(t) ==
    /\ pc[t] = "marking"
    /\ disconnected' = disconnected \union {target[t]}
    /\ Return(t)
    /\ UNCHANGED <<conn, sock, accept, read, discs, keys, maps, events>>
    /\ Reap

\* Mutations: the completion runs the disconnect event as well; it removes the
\* client from the map as well.
DisconnectDoneReports(c) ==
    /\ discs[c] > 0
    /\ discs' = [discs EXCEPT ![c] = @ - 1]
    /\ sock' = sock \ {c}
    /\ events' = [events EXCEPT ![c] = @ + 1]
    /\ UNCHANGED <<conn, disconnected, accept, read, calls, keys, maps>>
    /\ Reap

DisconnectDoneUnregisters(c) ==
    /\ discs[c] > 0
    /\ discs' = [discs EXCEPT ![c] = @ - 1]
    /\ sock' = sock \ {c}
    /\ byAddress' = [byAddress EXCEPT ![Address[c]] = NoClient]
    /\ UNCHANGED <<conn, disconnected, accept, read, calls, keys, byUid, reused, broken, events>>
    /\ Reap

\* The completion of a DISCONNECT operation: CloseSocket.
DisconnectDone(c) ==
    /\ discs[c] > 0
    /\ discs' = [discs EXCEPT ![c] = @ - 1]
    /\ sock' = sock \ {c}
    /\ UNCHANGED <<conn, disconnected, accept, read, calls, keys, maps, events>>
    /\ Reap

AcceptStep(c) ==
    \/ Admit(c) \/ Reject(c) \/ Create(c) \/ Register(c) \/ BindFails(c)
    \/ FirstRead(c) \/ FirstReadStarved(c) \/ FirstReadFails(c)

ReadStep(c) ==
    \/ ReadZero(c) \/ NextRead(c) \/ NextReadFails(c)
    \/ DisconnectEvent(c) \/ ReleaseClient(c)

CallStep(t) == DisconnectEx(t) \/ DisconnectExFails(t) \/ MarkDisconnected(t)

Next ==
    /\ ~broken
    /\ \/ \E c \in Clients :
            \/ Connect(c) \/ PeerCloses(c) \/ ReadData(c)
            \/ AcceptStep(c) \/ ReadStep(c) \/ DisconnectDone(c)
       \/ \E t \in Callers : CallStep(t) \/ \E c \in Clients : Disconnect(t, c)

Spec == Init /\ [][Next]_vars

\* Workers take every completion and finish what they began; a READ on a lost
\* connection completes; a worker gets the lock of an entry of _mapClients even if
\* others disconnect its client again and again.  Nothing makes peers send, or
\* anyone disconnect.
Fairness ==
    /\ \A c \in Clients :
           /\ SF_vars(~broken /\ AcceptStep(c))
           /\ SF_vars(~broken /\ ReadStep(c))
           /\ WF_vars(~broken /\ DisconnectDone(c))
    /\ \A t \in Callers : WF_vars(~broken /\ CallStep(t))

FairSpec == Spec /\ Fairness
-----------------------------------------------------------------------------
TypeOK ==
    /\ conn \in [Clients -> {"none", "up", "down"}]
    /\ sock \subseteq Clients
    /\ disconnected \subseteq Clients
    /\ accept \in [Clients -> {"none", "completed", "admitted", "created", "bound", "done",
                               "rejected", "unbound", "starved", "refused"}]
    /\ read \in [Clients -> {"none", "pending", "data", "lost", "leaving"}]
    /\ discs \in [Clients -> Nat]
    /\ pc \in [Callers -> {"idle", "issuing", "marking"}]
    /\ target \in [Callers -> Clients \union {NoClient}]
    /\ count \in Nat
    /\ live \subseteq Clients
    /\ keys \subseteq Clients
    /\ byAddress \in [Addresses -> Clients \union {NoClient}]
    /\ byUid \subseteq Clients
    /\ events \in [Clients -> Nat]
    /\ reused \in BOOLEAN
    /\ broken \in BOOLEAN

Deleted(c) == c \notin live /\ accept[c] \in {"done", "starved", "unbound", "refused"}

\* The client limit is tested before the client is counted, by as many workers
\* as AcceptEx operations are posted: it is exceeded by at most one less.
AdmissionBound ==
    Limit > 0 => count <= Limit + Accepts - 1

\* However a connection ends (a READ of nothing, a failing next READ, any number
\* of disconnections by the server) its disconnect event runs at most once, and
\* a context is only deleted after it, unless its first READ failed.
DisconnectEventOnce ==
    \A c \in Clients :
        /\ events[c] <= 1
        /\ Deleted(c) => events[c] = 1 \/ accept[c] = "refused"

\* The destructor's warning "delete without processing Disconnect Event": a
\* context is deleted only after its disconnect event.
DeletedAfterEvent ==
    \A c \in Clients : Deleted(c) => events[c] = 1

\* The plain pointer in _mapClients, and a thread that works with one, never
\* outlive the context, unless its first READ failed.
UidRefersToLive ==
    \A c \in Clients :
        (c \in byUid \/ InCall("uid", c)) /\ Deleted(c) => accept[c] = "refused"

\* ReleaseClient finds the client's address, or one address was in use by two
\* contexts: a peer reused its port before its former client was released.
BreaksOnlyAfterReuse == broken => reused

\* A lost connection gives its place back: the context is deleted, except where
\* no READ could be issued for want of a buffer or the binding failed.
PlaceIsGivenBack ==
    \A c \in Clients :
        (c \in live /\ conn[c] = "down")
            ~> (c \notin live \/ accept[c] \in {"starved", "unbound"} \/ broken)

=============================================================================
