---------------------------- MODULE TcpConnection ----------------------------
(***************************************************************************)
(* Outgoing TCP connections: CreateTcpConnection and PendingTcpConnection, *)
(* the completions of WTProcessTcpConnection, the automatic reconnect of   *)
(* PreTcpDisconnect, SendTcpData and Disconnect.  A connection lives       *)
(* through several sockets, numbered 1, 2, ...; operations belong to the   *)
(* socket they were issued on.  The context key knows the newest socket;   *)
(* m_socket is the newest one or INVALID_SOCKET.                           *)
(***************************************************************************)
EXTENDS ServerStatus, Functions

CONSTANTS
    Connections,
    MaxSockets,  \* bound: sockets of one connection; no more can be had
    MaxSends     \* bound: writes of one connection

ASSUME MaxSocketsAssumption == MaxSockets \in Nat \ {0}
ASSUME MaxSendsAssumption == MaxSends \in Nat

VARIABLES
    caller,      \* where the call that makes the connection is
    known,       \* m_mapConnections
    keep,        \* connections with KEEPCONNECT
    linked,      \* connections with m_bConnected
    sockets,     \* sockets the connection has had
    valid,       \* connections whose m_socket is not INVALID_SOCKET
    open,        \* sockets that are not closed
    established, \* sockets the target has accepted
    connects,    \* CONNECT operations outstanding on a socket
    reads,       \* READ operations
    writes,      \* WRITE operations
    link_key,    \* the context key of the connection
    retrying,    \* workers inside PreTcpDisconnect that are about to reconnect
    locked,      \* the one of these that holds m_csKillAllConnectionsLock
    events,      \* OnTcpDisconnected
    stranded,    \* connections that were given up without that event
    wrote        \* connections on which something was sent

operation_vars == <<connects, reads, writes>>
socket_vars == <<sockets, valid, open, established>>
connection_vars ==
    <<caller, known, keep, linked, socket_vars, operation_vars, link_key, retrying, locked,
      events, stranded, wrote>>

Sockets == Connections \X (1..MaxSockets)

InitConnection ==
    /\ caller = [c \in Connections |-> "idle"]
    /\ known = {} /\ keep = {} /\ linked = {}
    /\ sockets = [c \in Connections |-> 0]
    /\ valid = {} /\ open = {} /\ established = {}
    /\ connects = [s \in Sockets |-> 0]
    /\ reads = [s \in Sockets |-> 0]
    /\ writes = [s \in Sockets |-> 0]
    /\ link_key = [c \in Connections |-> "none"]
    /\ retrying = [c \in Connections |-> 0]
    /\ locked = {}
    /\ events = [c \in Connections |-> 0]
    /\ stranded = {}
    /\ wrote = {}

Newest(c) == <<c, sockets[c]>>

\* m_socket, as a set: closing INVALID_SOCKET does nothing.
Current(c) == IF c \in valid THEN {Newest(c)} ELSE {}

\* The context key and the context it holds are freed together.
Use(c) == IF link_key[c] = "deleted" THEN Undefined("connection") ELSE UNCHANGED undefined

Add(f, s) == [f EXCEPT ![s] = @ + 1]
Sub(f, s) == [f EXCEPT ![s] = @ - 1]

NewSocket(c) ==
    /\ sockets' = [sockets EXCEPT ![c] = @ + 1]
    /\ valid' = valid \union {c}
    /\ open' = open \union {<<c, sockets[c] + 1>>}
    /\ Arrives("connections", c)
-----------------------------------------------------------------------------
(* PendingTcpConnection and CreateTcpConnection for a new connection: in    *)
(* the map first, and then the CONNECT, or the first READ.                  *)

Enter(c) ==
    /\ caller[c] = "idle"
    /\ NewSocket(c)
    /\ known' = known \union {c}
    /\ keep' \in {keep, keep \union {c}}
    /\ link_key' = [link_key EXCEPT ![c] = "live"]
    /\ UNCHANGED <<operation_vars, retrying, locked, events, stranded, wrote, status_vars,
                   pool_vars, faults, undefined>>

PendingTcpConnection(c) ==
    /\ Enter(c)
    /\ caller' = [caller EXCEPT ![c] = "pending"]
    /\ UNCHANGED <<linked, established>>

CreateTcpConnection(c) ==
    /\ Enter(c)
    /\ caller' = [caller EXCEPT ![c] = "created"]
    /\ linked' = linked \union {c}
    /\ established' = established \union {<<c, 1>>}

\* ConnectEx on m_socket.
ConnectEx(c) ==
    /\ Newest(c) \in open \ established
    /\ connects[Newest(c)] = 0
    /\ connects' = Add(connects, Newest(c))
    /\ UNCHANGED <<open, stranded, faults>>

\* It fails: the socket is closed, the connection stays in the map.
ConnectExFails(c) ==
    /\ IF Newest(c) \in open \ established /\ connects[Newest(c)] = 0
       THEN Fault ELSE UNCHANGED faults
    /\ open' = open \ {Newest(c)}
    /\ stranded' = stranded \union {c}
    /\ UNCHANGED connects

FirstConnect(c) ==
    /\ caller[c] = "pending"
    /\ caller' = [caller EXCEPT ![c] = "done"]
    /\ ConnectEx(c) \/ ConnectExFails(c)
    /\ UNCHANGED <<known, keep, linked, sockets, valid, established, reads, writes, link_key,
                   retrying, locked, events, wrote, status_vars, pool_vars, late, undefined>>

\* IssueTcpConnectionRead: WSARecv takes the operation,
CanRead(c) == Current(c) \subseteq open \intersect established /\ c \in valid

\* or there is no buffer: TRUE is returned, nothing is read.
ReadIssued(c) ==
    /\ CanRead(c)
    /\ \/ reads' = Add(reads, Newest(c)) /\ UNCHANGED <<stranded, faults>>
       \/ Fault /\ stranded' = stranded \union {c} /\ UNCHANGED reads

\* Its result is not looked at after a connect.
FirstReadIssued(c) ==
    \/ ReadIssued(c)
    \/ ~CanRead(c) /\ stranded' = stranded \union {c} /\ UNCHANGED <<reads, faults>>

FirstRead(c) ==
    /\ caller[c] = "created"
    /\ caller' = [caller EXCEPT ![c] = "done"]
    /\ FirstReadIssued(c)
    /\ UNCHANGED <<known, keep, linked, socket_vars, connects, writes, link_key, retrying,
                   locked, events, wrote, status_vars, pool_vars, late, undefined>>

\* The target accepts (external).
Establish(s) ==
    /\ connects[s] > 0
    /\ s \in open \ established
    /\ established' = established \union {s}
    /\ UNCHANGED <<caller, known, keep, linked, sockets, valid, open, operation_vars,
                   link_key, retrying, locked, events, stranded, wrote, server_vars>>
-----------------------------------------------------------------------------
(* PreTcpDisconnect: a kept connection gets a new socket, or keeps the one  *)
(* it has when the target refused it; another one is reported and removed.  *)

\* gone: what the caller closes first; up: m_bConnected when it is called.
PreTcpDisconnect(c, reusable, lock, gone, up) ==
    IF "terminate" \notin status /\ c \in keep
    THEN /\ IF reusable
            THEN open' = open \ gone /\ UNCHANGED valid
            ELSE open' = open \ (gone \union Current(c)) /\ valid' = valid \ {c}
         /\ IF lock
            THEN locked' = locked \union {c} /\ UNCHANGED retrying
            ELSE retrying' = Add(retrying, c) /\ UNCHANGED locked
         /\ Take
         /\ UNCHANGED <<known, link_key, events>>
    ELSE /\ open' = open \ gone
         /\ events' = Add(events, c)
         /\ known' = known \ {c}
         /\ link_key' = IF c \in known /\ ~up THEN [link_key EXCEPT ![c] = "deleted"]
                                              ELSE link_key
         /\ Idle
         /\ UNCHANGED <<valid, retrying, locked, pool_vars>>

\* PendingTcpConnection for a connection that is kept.  A new socket is needed
\* unless it has one; the result is not looked at.
Reconnect(c) ==
    /\ \/ c \in locked /\ locked' = locked \ {c} /\ UNCHANGED retrying
       \/ retrying[c] > 0 /\ retrying' = Sub(retrying, c) /\ UNCHANGED locked
    /\ \/ /\ c \notin valid
          /\ sockets[c] < MaxSockets
          /\ NewSocket(c)
          /\ connects' = Add(connects, <<c, sockets[c] + 1>>)
          /\ UNCHANGED <<stranded, faults>>
       \/ /\ c \notin valid
          /\ IF sockets[c] < MaxSockets THEN Fault ELSE UNCHANGED faults
          /\ stranded' = stranded \union {c}
          /\ UNCHANGED <<sockets, valid, open, connects, late>>
       \/ /\ c \in valid
          /\ ConnectEx(c) \/ ConnectExFails(c)
          /\ UNCHANGED <<sockets, valid, late>>
    /\ Finish
    /\ Use(c)
    /\ UNCHANGED <<caller, known, keep, linked, established, reads, writes, link_key,
                   events, wrote, status_vars>>
-----------------------------------------------------------------------------
(* WTProcessTcpConnection.                                                 *)

Connected(c, n) ==
    /\ connects[<<c, n>>] > 0
    /\ <<c, n>> \in established
    /\ Idle
    /\ connects' = Sub(connects, <<c, n>>)
    /\ linked' = linked \union {c}
    /\ FirstReadIssued(c)
    /\ Use(c)
    /\ UNCHANGED <<caller, known, keep, socket_vars, writes, link_key, retrying, locked,
                   events, wrote, status_vars, pool_vars, late>>

\* Under m_csKillAllConnectionsLock.  A socket that is still open was refused, and
\* may be used again, or failed otherwise.
ConnectFails(c, n) ==
    /\ connects[<<c, n>>] > 0
    /\ <<c, n>> \notin established
    /\ locked = {}
    /\ connects' = Sub(connects, <<c, n>>)
    /\ \E reusable \in {FALSE, <<c, n>> \in open} :
          PreTcpDisconnect(c, reusable, TRUE, {}, c \in linked)
    /\ Use(c)
    /\ UNCHANGED <<caller, keep, linked, sockets, established, reads, writes, stranded,
                   wrote, status_vars, faults, late>>

\* Data is handled, and the next READ issued; if it fails, the connection is over
\* but not marked so.
Received(c, n) ==
    /\ reads[<<c, n>>] > 0
    /\ Use(c)
    /\ \/ /\ CanRead(c)
          /\ Idle
          /\ \/ /\ reads' = Add(Sub(reads, <<c, n>>), Newest(c))
                /\ UNCHANGED <<stranded, faults>>
             \/ /\ Fault
                /\ stranded' = stranded \union {c}
                /\ reads' = Sub(reads, <<c, n>>)
          /\ UNCHANGED <<known, valid, open, link_key, retrying, locked, events, pool_vars>>
       \/ /\ ~CanRead(c)
          /\ reads' = Sub(reads, <<c, n>>)
          /\ PreTcpDisconnect(c, FALSE, FALSE, {}, c \in linked)
          /\ UNCHANGED <<stranded, faults>>
    /\ UNCHANGED <<caller, keep, linked, sockets, established, connects, writes, wrote,
                   status_vars, late>>

\* A READ or a WRITE that transferred nothing: the socket of the key is closed.
TornDown(c) ==
    /\ linked' = linked \ {c}
    /\ PreTcpDisconnect(c, FALSE, FALSE, {Newest(c)}, FALSE)
    /\ Use(c)
    /\ UNCHANGED <<caller, keep, sockets, established, connects, stranded, wrote,
                   status_vars, faults, late>>

ReadsNothing(c, n) ==
    /\ reads[<<c, n>>] > 0
    /\ reads' = Sub(reads, <<c, n>>)
    /\ TornDown(c)
    /\ UNCHANGED writes

WritesNothing(c, n) ==
    /\ writes[<<c, n>>] > 0
    /\ writes' = Sub(writes, <<c, n>>)
    /\ TornDown(c)
    /\ UNCHANGED reads

Sent(c, n) ==
    /\ writes[<<c, n>>] > 0
    /\ writes' = Sub(writes, <<c, n>>)
    /\ Idle
    /\ Use(c)
    /\ UNCHANGED <<caller, known, keep, linked, socket_vars, connects, reads, link_key,
                   retrying, locked, events, stranded, wrote, status_vars, pool_vars, faults,
                   late>>
-----------------------------------------------------------------------------
(* The application: SendTcpData and Disconnect; and KillAllConnections.     *)

SendTcpData(c) ==
    /\ c \in known /\ c \in linked
    /\ CanRead(c)
    /\ writes[Newest(c)] < MaxSends
    /\ writes' = Add(writes, Newest(c))
    /\ wrote' = wrote \union {c}
    /\ UNCHANGED <<caller, known, keep, linked, socket_vars, connects, reads, link_key,
                   retrying, locked, events, stranded, server_vars>>

\* Mutation: Disconnect reports the connection at once.
DisconnectReports(c) ==
    /\ c \in known
    /\ keep' \in {keep, keep \ {c}}
    /\ open' = open \ Current(c)
    /\ events' = Add(events, c)
    /\ UNCHANGED <<caller, known, linked, sockets, valid, established, operation_vars,
                   link_key, retrying, locked, stranded, wrote, server_vars>>

Disconnect(c) ==
    /\ c \in known
    /\ keep' \in {keep, keep \ {c}}
    /\ open' = open \ Current(c)
    /\ UNCHANGED <<caller, known, linked, sockets, valid, established, operation_vars,
                   link_key, retrying, locked, events, stranded, wrote, server_vars>>

ConnectionStep ==
    \/ \E c \in Connections :
          \/ PendingTcpConnection(c) \/ CreateTcpConnection(c) \/ FirstConnect(c)
          \/ FirstRead(c) \/ Reconnect(c) \/ SendTcpData(c) \/ Disconnect(c)
          \/ \E n \in 1..MaxSockets :
                \/ Connected(c, n) \/ ConnectFails(c, n) \/ Received(c, n)
                \/ ReadsNothing(c, n) \/ WritesNothing(c, n) \/ Sent(c, n)
    \/ \E s \in Sockets : Establish(s)

\* KillAllConnections, when no worker is in its lock.
CloseConnections ==
    /\ locked = {}
    /\ open' = open \ UNION {Current(c) : c \in known}
    /\ keep' = keep \ known
    /\ UNCHANGED <<caller, known, linked, sockets, valid, established, operation_vars,
                   link_key, retrying, locked, events, stranded, wrote>>
-----------------------------------------------------------------------------
TypeOKConnection ==
    /\ caller \in [Connections -> {"idle", "pending", "created", "done"}]
    /\ known \subseteq Connections /\ keep \subseteq Connections
    /\ linked \subseteq Connections
    /\ sockets \in [Connections -> 0..MaxSockets]
    /\ valid \subseteq Connections
    /\ open \subseteq Sockets /\ established \subseteq Sockets
    /\ connects \in [Sockets -> Nat]
    /\ reads \in [Sockets -> Nat]
    /\ writes \in [Sockets -> Nat]
    /\ link_key \in [Connections -> {"none", "live", "deleted"}]
    /\ retrying \in [Connections -> Nat]
    /\ locked \subseteq Connections
    /\ events \in [Connections -> Nat]
    /\ stranded \subseteq Connections /\ wrote \subseteq Connections

\* Operations of this kind outstanding on any socket of the connection.
Total(f, c) == SumFunctionOnSet(f, {c} \X (1..MaxSockets))

\* A connection hangs by one thread: exactly one CONNECT or READ is outstanding
\* on it, or one worker reconnects it, or it has been reported as disconnected
\* once, or it was given up.  Sending breaks this: a failing WRITE tears the
\* connection down a second time.
OneLifeline ==
    \A c \in Connections :
        caller[c] = "done" /\ c \notin wrote =>
            Total(connects, c) + Total(reads, c) + retrying[c]
                + (IF c \in locked THEN 1 ELSE 0) + events[c]
                + (IF c \in stranded THEN 1 ELSE 0) = 1
=============================================================================
