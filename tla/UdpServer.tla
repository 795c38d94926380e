------------------------------ MODULE UdpServer ------------------------------
(***************************************************************************)
(* A UDP sub server with a socket for each address family: BeginUdpServer, *)
(* the one READ that is kept outstanding on each socket, SendUdpData and   *)
(* KillUdpServer.  nUdpServerPending counts the sockets; each operation    *)
(* that transfers nothing counts it down, and the one that brings it to    *)
(* zero frees the context key.                                             *)
(***************************************************************************)
EXTENDS ServerStatus

CONSTANTS
    Families,     \* address families in use: "v4", and "v6" with STXSF_IPV6
    MaxDatagrams  \* bound: WRITE operations outstanding on a socket

ASSUME FamiliesAssumption == Families \subseteq {"v4", "v6"}
ASSUME MaxDatagramsAssumption == MaxDatagrams \in Nat

VARIABLES
    udp_begin,   \* where BeginUdpServer is
    udp_known,   \* the server is in m_mapUdpServers
    udp_open,    \* families whose socket is not closed
    udp_valid,   \* families whose socket is not INVALID_SOCKET to the context
    udp_marked,  \* families with m_bSocketClosed
    udp_to_read, \* families whose first READ BeginUdpServer has yet to issue
    udp_reads,   \* families with a READ outstanding
    udp_writes,  \* WRITE operations outstanding
    udp_pending, \* nUdpServerPending
    udp_key,     \* the context key
    delivering,  \* workers in OnUdpServerReceived
    silent,      \* families whose READ was not issued again
    emptied,     \* WRITEs that transferred nothing
    udp_wrote    \* a datagram was sent

udp_socket_vars == <<udp_open, udp_valid, udp_marked>>
udp_vars ==
    <<udp_begin, udp_known, udp_socket_vars, udp_to_read, udp_reads, udp_writes,
      udp_pending, udp_key, delivering, silent, emptied, udp_wrote>>

InitUdp ==
    /\ udp_begin = "idle"
    /\ udp_known = FALSE
    /\ udp_open = {} /\ udp_valid = {} /\ udp_marked = {}
    /\ udp_to_read = {} /\ udp_reads = {}
    /\ udp_writes = [f \in Families |-> 0]
    /\ udp_pending = 0
    /\ udp_key = "none"
    /\ delivering = 0
    /\ silent = {}
    /\ emptied = 0
    /\ udp_wrote = FALSE

UseUdp == IF udp_key = "deleted" THEN Undefined("udp") ELSE UNCHANGED undefined

\* Entered in the map, before anything is read.
BeginUdpServer ==
    /\ udp_begin = "idle"
    /\ udp_begin' = "reading"
    /\ udp_known' = TRUE
    /\ udp_open' = Families /\ udp_valid' = Families
    /\ udp_to_read' = Families
    /\ udp_pending' = Cardinality(Families)
    /\ udp_key' = "live"
    /\ Arrives("servers", "udp")
    /\ UNCHANGED <<udp_marked, udp_reads, udp_writes, delivering, silent, emptied, udp_wrote,
                   status_vars, pool_vars, faults, undefined>>

\* IssueUdpRead: no buffer, or the socket is closed; nobody looks at the result.
ReadsAgain(f) == f \in udp_open \intersect udp_valid /\ UNCHANGED <<silent, faults>>
ReadsNoMore(f) ==
    /\ silent' = silent \union {f}
    /\ IF f \in udp_open \intersect udp_valid THEN Fault ELSE UNCHANGED faults

FirstUdpRead(f) ==
    /\ udp_begin = "reading"
    /\ f \in udp_to_read
    /\ f = "v6" => "v4" \notin udp_to_read
    /\ udp_to_read' = udp_to_read \ {f}
    /\ \/ ReadsAgain(f) /\ udp_reads' = udp_reads \union {f}
       \/ ReadsNoMore(f) /\ UNCHANGED udp_reads
    /\ UNCHANGED <<udp_begin, udp_known, udp_socket_vars, udp_writes, udp_pending, udp_key,
                   delivering, emptied, udp_wrote, status_vars, pool_vars, late, undefined>>

\* The next READ is issued before the datagram is handed to the application.
UdpReceived(f) ==
    /\ f \in udp_reads
    /\ \/ ReadsAgain(f) /\ UNCHANGED udp_reads
       \/ ReadsNoMore(f) /\ udp_reads' = udp_reads \ {f}
    /\ delivering' = delivering + 1
    /\ Take
    /\ UseUdp
    /\ UNCHANGED <<udp_begin, udp_known, udp_socket_vars, udp_to_read, udp_writes,
                   udp_pending, udp_key, emptied, udp_wrote, status_vars, late>>

\* The application was given the plain pointer to the context, which the key and
\* the map held.
UdpDelivered ==
    /\ delivering > 0
    /\ delivering' = delivering - 1
    /\ Finish
    /\ IF ~udp_known THEN UseUdp ELSE UNCHANGED undefined
    /\ UNCHANGED <<udp_begin, udp_known, udp_socket_vars, udp_to_read, udp_reads, udp_writes,
                   udp_pending, udp_key, silent, emptied, udp_wrote, status_vars, faults, late>>

\* Which socket a completion on family f closes: when the IPv4 socket has gone
\* already, it is the other one.
Closes(f) == IF f = "v4" /\ "v4" \in udp_valid THEN "v4" ELSE "v6"

\* Mutation: only a READ counts down.
UdpEmptyOfReads(f, kind) ==
    /\ LET g == Closes(f)
       IN  /\ udp_open' = IF g \in udp_marked THEN udp_open ELSE udp_open \ {g}
           /\ udp_marked' = udp_marked \union {g}
           /\ udp_valid' = udp_valid \ {g}
    /\ udp_pending' = IF kind = "read" THEN udp_pending - 1 ELSE udp_pending
    /\ udp_key' = IF udp_pending = 1 THEN "deleted" ELSE udp_key
    /\ Idle
    /\ UseUdp

\* An operation that transferred nothing: a failure, a datagram of no length.
UdpEmpty(f, kind) ==
    /\ LET g == Closes(f)
       IN  /\ udp_open' = IF g \in udp_marked THEN udp_open ELSE udp_open \ {g}
           /\ udp_marked' = udp_marked \union {g}
           /\ udp_valid' = udp_valid \ {g}
    /\ udp_pending' = udp_pending - 1
    /\ udp_key' = IF udp_pending = 1 THEN "deleted" ELSE udp_key
    /\ Idle
    /\ UseUdp

UdpReadEmpty(f) ==
    /\ f \in udp_reads
    /\ udp_reads' = udp_reads \ {f}
    /\ UdpEmpty(f, "read")
    /\ UNCHANGED <<udp_begin, udp_known, udp_to_read, udp_writes, delivering, silent,
                   emptied, udp_wrote, status_vars, pool_vars, faults, late>>

UdpWriteEmpty(f) ==
    /\ udp_writes[f] > 0
    /\ udp_writes' = [udp_writes EXCEPT ![f] = @ - 1]
    /\ emptied' = emptied + 1
    /\ UdpEmpty(f, "write")
    /\ UNCHANGED <<udp_begin, udp_known, udp_to_read, udp_reads, delivering, silent,
                   udp_wrote, status_vars, pool_vars, faults, late>>

UdpSent(f) ==
    /\ udp_writes[f] > 0
    /\ udp_writes' = [udp_writes EXCEPT ![f] = @ - 1]
    /\ Idle
    /\ UseUdp
    /\ UNCHANGED <<udp_begin, udp_known, udp_socket_vars, udp_to_read, udp_reads,
                   udp_pending, udp_key, delivering, silent, emptied, udp_wrote, status_vars, pool_vars,
                   faults, late>>

SendUdpData(f) ==
    /\ udp_known
    /\ f \in udp_open \intersect udp_valid
    /\ udp_writes[f] < MaxDatagrams
    /\ udp_writes' = [udp_writes EXCEPT ![f] = @ + 1]
    /\ udp_wrote' = TRUE
    /\ UNCHANGED <<udp_begin, udp_known, udp_socket_vars, udp_to_read, udp_reads,
                   udp_pending, udp_key, delivering, silent, emptied, server_vars>>

\* WSASendTo fails: the socket is closed, also the one everybody reads from.
SendUdpDataFails(f) ==
    /\ udp_known
    /\ f \in udp_open \intersect udp_valid
    /\ Fault
    /\ udp_open' = udp_open \ {f}
    /\ UNCHANGED <<udp_begin, udp_known, udp_valid, udp_marked, udp_to_read, udp_reads,
                   udp_writes, udp_pending, udp_key, delivering, silent, emptied, udp_wrote,
                   status_vars, pool_vars, late, undefined>>

KillUdpServer ==
    /\ udp_known
    /\ udp_known' = FALSE
    /\ udp_open' = udp_open \ udp_valid
    /\ UNCHANGED <<udp_begin, udp_valid, udp_marked, udp_to_read, udp_reads, udp_writes,
                   udp_pending, udp_key, delivering, silent, emptied, udp_wrote, server_vars>>

UdpStep ==
    \/ BeginUdpServer \/ UdpDelivered \/ KillUdpServer
    \/ \E f \in Families :
          \/ FirstUdpRead(f) \/ UdpReceived(f) \/ UdpReadEmpty(f) \/ UdpWriteEmpty(f)
          \/ UdpSent(f) \/ SendUdpData(f) \/ SendUdpDataFails(f)

\* KillAllServers: the server stays in the map.
CloseUdp ==
    /\ udp_open' = IF udp_known THEN udp_open \ udp_valid ELSE udp_open
    /\ udp_marked' = IF udp_known THEN udp_marked \union Families ELSE udp_marked
    /\ UNCHANGED <<udp_begin, udp_known, udp_valid, udp_to_read, udp_reads, udp_writes,
                   udp_pending, udp_key, delivering, silent, emptied, udp_wrote>>
-----------------------------------------------------------------------------
TypeOKUdp ==
    /\ udp_begin \in {"idle", "reading"}
    /\ udp_known \in BOOLEAN
    /\ udp_open \subseteq Families
    /\ udp_valid \subseteq Families
    /\ udp_marked \subseteq {"v4", "v6"}
    /\ udp_to_read \subseteq Families /\ udp_reads \subseteq Families
    /\ udp_writes \in [Families -> Nat]
    /\ udp_pending \in Int
    /\ udp_key \in {"none", "live", "deleted"}
    /\ delivering \in Nat
    /\ silent \subseteq Families
    /\ emptied \in Nat
    /\ udp_wrote \in BOOLEAN

\* nUdpServerPending is the number of sockets on which a READ is outstanding, or
\* could be; but a WRITE that transfers nothing is taken for the end of a READ.
UdpAccounting ==
    udp_pending + emptied = Cardinality(udp_to_read \union udp_reads \union silent)
=============================================================================
