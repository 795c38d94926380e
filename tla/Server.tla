------------------------------- MODULE Server --------------------------------
(***************************************************************************)
(* A running CSTXIOCPServer: its listener and clients, outgoing            *)
(* connections, UDP server and monitored folder, while Terminate closes    *)
(* them one kind after the other and the worker threads leave.  Nothing    *)
(* that begins anything looks at PRETERMINATE.                             *)
(***************************************************************************)
EXTENDS TcpListener, TcpConnection, UdpServer, FolderMonitor

CONSTANT
    Configurations  \* which parts a server uses, and which threads stop it

ASSUME ConfigurationsAssumption ==
    Configurations \subseteq
        (SUBSET {"listener", "connection", "udp", "folder"}) \X SUBSET Terminators

VARIABLE setup     \* the configuration of this server

parts == setup[1]
callers == setup[2]

part_vars == <<setup, listener_vars, connection_vars, udp_vars, folder_vars>>
vars == <<server_vars, part_vars>>

Init ==
    /\ InitServer
    /\ setup \in Configurations
    /\ InitListener /\ InitConnection /\ InitUdp /\ InitFolder
-----------------------------------------------------------------------------
(* The stages of Terminate.                                                *)

CloseAllMonitoredFolder(t) ==
    /\ Advance(t, "folders", "servers")
    /\ CloseFolders
    /\ UNCHANGED <<setup, listener_vars, connection_vars, udp_vars>>

\* Mutation: the listeners only.
KillTcpServersOnly(t) ==
    /\ Advance(t, "servers", "clients")
    /\ CloseListeners
    /\ UNCHANGED <<undefined, setup, connection_vars, udp_vars, folder_vars>>

KillAllServers(t) ==
    /\ Advance(t, "servers", "clients")
    /\ CloseListeners /\ CloseUdp
    /\ UNCHANGED <<undefined, setup, connection_vars, folder_vars>>

KillAllClient(t) ==
    /\ Advance(t, "clients", "connections")
    /\ CloseClients
    /\ UNCHANGED <<undefined, setup, connection_vars, udp_vars, folder_vars>>

KillAllConnections(t) ==
    /\ Advance(t, "connections", "flag")
    /\ CloseConnections
    /\ UNCHANGED <<undefined, setup, listener_vars, udp_vars, folder_vars>>

\* Run ends with ClearAllServers and ClearAllFolderMonitor.
Shutdown ==
    /\ Run
    /\ registered' = NoListener
    /\ udp_known' = FALSE
    /\ ClearFolders
    /\ UNCHANGED <<setup, begin, to_post, listening, killed, key, accept_vars, client_vars,
                   connection_vars, udp_begin, udp_socket_vars, udp_to_read, udp_reads,
                   udp_writes, udp_pending, udp_key, delivering, silent, emptied, udp_wrote>>

StopStep(t) ==
    \/ (Terminate(t) \/ SetPreterminate(t) \/ SetTerminate(t) \/ WaitForServerUnlock(t))
          /\ UNCHANGED part_vars
    \/ CloseAllMonitoredFolder(t) \/ KillAllServers(t) \/ KillAllClient(t)
    \/ KillAllConnections(t)

PartStep ==
    \/ "listener" \in parts /\ ListenerStep
          /\ UNCHANGED <<connection_vars, udp_vars, folder_vars>>
    \/ "connection" \in parts /\ ConnectionStep
          /\ UNCHANGED <<listener_vars, udp_vars, folder_vars>>
    \/ "udp" \in parts /\ UdpStep
          /\ UNCHANGED <<listener_vars, connection_vars, folder_vars>>
    \/ "folder" \in parts /\ FolderStep
          /\ UNCHANGED <<listener_vars, connection_vars, udp_vars>>

Next ==
    /\ undefined = {}
    /\ \/ PartStep /\ UNCHANGED setup
       \/ \E t \in callers : StopStep(t)
       \/ (StartServer \/ WorkerLeaves) /\ UNCHANGED part_vars
       \/ Shutdown

Spec == Init /\ [][Next]_vars

\* A thread inside a handler or a call goes on.
ListenerGoesOn ==
    /\ \E l \in Listeners : BeginPosts(l) \/ BeginCounts(l) \/ Repost(l) \/ Count(l)
    /\ UNCHANGED <<setup, connection_vars, udp_vars, folder_vars>>
ClientGoesOn ==
    /\ \E p \in Peers : Refuse(p) \/ Admit(p) \/ ClientDataDone(p)
    /\ UNCHANGED <<setup, connection_vars, udp_vars, folder_vars>>
ConnectionGoesOn ==
    /\ \E c \in Connections : FirstConnect(c) \/ FirstRead(c) \/ Reconnect(c)
    /\ UNCHANGED <<setup, listener_vars, udp_vars, folder_vars>>
UdpGoesOn == UdpDelivered /\ UNCHANGED <<setup, listener_vars, connection_vars, folder_vars>>
FolderGoesOn ==
    /\ Record \/ Rewatch \/ RewatchFails
    /\ UNCHANGED <<setup, listener_vars, connection_vars, udp_vars>>

\* Threads go on, a thread that waits for m_csKillAllConnectionsLock gets it, and a
\* worker that finds nothing to do times out.  Peers, the application and the
\* system are not assumed to do anything.
Fairness ==
    /\ \A t \in Terminators :
          /\ WF_vars(undefined = {} /\ stopping[t] # "idle" /\ StopStep(t))
          /\ SF_vars(undefined = {} /\ KillAllConnections(t))
    /\ WF_vars(undefined = {} /\ WorkerLeaves /\ UNCHANGED part_vars)
    /\ WF_vars(undefined = {} /\ Shutdown)
    /\ WF_vars(undefined = {} /\ ListenerGoesOn)
    /\ WF_vars(undefined = {} /\ ClientGoesOn)
    /\ WF_vars(undefined = {} /\ ConnectionGoesOn)
    /\ WF_vars(undefined = {} /\ UdpGoesOn)
    /\ WF_vars(undefined = {} /\ FolderGoesOn)

FairSpec == Spec /\ Fairness
-----------------------------------------------------------------------------
TypeOK ==
    /\ TypeOKServer /\ TypeOKListener /\ TypeOKConnection /\ TypeOKUdp /\ TypeOKFolder
    /\ setup \in Configurations

\* What is open of each part.
OpenThings ==
    listening
    \union {p \in Peers : peer[p] \in {"open", "talking"}}
    \union {s[1] : s \in open}
    \union (IF udp_open # {} THEN {"udp"} ELSE {})
    \union (IF folder_open THEN {"folder"} ELSE {})

\* What the server has no record of any more: it gave the connection up, or the
\* watch of the folder ended.
Forgotten == (Connections \ known) \union (IF in_set THEN {} ELSE {"folder"})

\* When Run has returned, nothing is open but what Terminate came too early for
\* (what began, was accepted or was reconnected after it had closed its kind) and
\* the handles that were forgotten without being closed.
OnlyLateSurvive == ended => OpenThings \subseteq late \union Forgotten

\* Memory that was freed, or a null pointer, is used only where two threads meet: on
\* a listener that was killed, by its name or by Terminate; on a connection on which
\* something was sent; on a UDP server that sends, or is killed while it delivers; on
\* a folder whose watch ended before it was recorded, or by a second Terminate.  A
\* notice always finds its folder.
UndefinedOnlyByRace ==
    /\ "connection" \in undefined => wrote # {}
    /\ "udp" \in undefined => udp_wrote \/ ~udp_known
    /\ "folder" \in undefined =>
          overtaken \/ \E t, u \in callers : t # u /\ "idle" \notin {stopping[t], stopping[u]}
    /\ "listener" \in undefined => killed # {} \/ status # {}
    /\ "notice" \notin undefined

\* Terminate returns, unless something that is still open keeps the workers busy.
TerminateReturns ==
    (\E t \in Terminators : stopping[t] = "waiting") ~>
        ((\A t \in Terminators : stopping[t] # "waiting") \/ OpenThings # {} \/ undefined # {})
=============================================================================
