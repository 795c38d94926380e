----------------------------- MODULE TcpListener -----------------------------
(***************************************************************************)
(* TCP sub servers on one port: BeginTcpServer, the AcceptEx operations    *)
(* posted on the listening socket (IssueAccept, WTProcessTcpServer) and    *)
(* KillTcpServer.  The context key of a listener is freed by the failing   *)
(* accept that brings nAcceptPending, which is counted up after AcceptEx,  *)
(* to zero.  IPv4 only.  ClientSession has what happens to a client; here  *)
(* it is only open, being closed, or gone.                                 *)
(***************************************************************************)
EXTENDS ServerStatus

CONSTANTS
    Listeners,  \* listener contexts; each serves one call of BeginTcpServer
    Posts,      \* nPostAcceptCount
    Peers,      \* peers that connect once each
    NoListener  \* not a listener

ASSUME PostsAssumption == Posts \in Nat \ {0}
ASSUME NoListenerAssumption == NoListener \notin Listeners

VARIABLES
    begin,      \* where BeginTcpServer is for the listener
    to_post,    \* accepts it still has to post
    listening,  \* listeners whose socket is open
    killed,     \* listeners with m_bClosed
    registered, \* the entry of the port in m_mapTcpServers
    key,        \* the context key of the listener
    pending,    \* nAcceptPending
    accepts,    \* AcceptEx operations outstanding
    reposting,  \* workers on their way from an accept to IssueAccept
    counting,   \* workers between AcceptEx and the increment
    lost,       \* accepts that could not be posted
    failed,     \* accepts that failed while the listener was open
    peer,       \* the connection of a peer
    acceptor    \* the listener whose worker accepts the peer

accept_vars == <<pending, accepts, reposting, counting, lost, failed>>
client_vars == <<peer, acceptor>>
listener_vars == <<begin, to_post, listening, killed, registered, key, accept_vars, client_vars>>

InitListener ==
    /\ begin = [l \in Listeners |-> "idle"]
    /\ to_post = [l \in Listeners |-> 0]
    /\ listening = {}
    /\ killed = {}
    /\ registered = NoListener
    /\ key = [l \in Listeners |-> "none"]
    /\ pending = [l \in Listeners |-> 0]
    /\ accepts = [l \in Listeners |-> 0]
    /\ reposting = [l \in Listeners |-> 0]
    /\ counting = [l \in Listeners |-> 0]
    /\ lost = [l \in Listeners |-> 0]
    /\ failed = [l \in Listeners |-> 0]
    /\ peer = [p \in Peers |-> "none"]
    /\ acceptor = [p \in Peers |-> NoListener]

Inc(f, x) == [f EXCEPT ![x] = @ + 1]
Dec(f, x) == [f EXCEPT ![x] = @ - 1]

\* Whoever uses the key of a listener finds it, or what was freed.
UseKey(l) == IF key[l] = "deleted" THEN Undefined("listener") ELSE UNCHANGED undefined
-----------------------------------------------------------------------------
(* BeginTcpServer.                                                         *)

BeginTcpServer(l) ==
    /\ begin[l] = "idle"
    /\ registered = NoListener
    /\ begin' = [begin EXCEPT ![l] = "creating"]
    /\ UNCHANGED <<to_post, listening, killed, registered, key, accept_vars, client_vars, server_vars>>

\* The port was looked up under the lock; the listener is entered under it again.
\* Nobody else is bound to the port (external).
Listen(l) ==
    /\ begin[l] = "creating"
    /\ listening = {}
    /\ begin' = [begin EXCEPT ![l] = "posting"]
    /\ to_post' = [to_post EXCEPT ![l] = Posts]
    /\ listening' = listening \union {l}
    /\ registered' = l
    /\ key' = [key EXCEPT ![l] = "live"]
    /\ Arrives("servers", l)
    /\ UNCHANGED <<killed, accept_vars, client_vars, status_vars, pool_vars, faults, undefined>>

\* No socket, or the port is taken.
ListenFails(l) ==
    /\ begin[l] = "creating"
    /\ begin' = [begin EXCEPT ![l] = "failed"]
    /\ UNCHANGED <<to_post, listening, killed, registered, key, accept_vars, client_vars, server_vars>>
-----------------------------------------------------------------------------
(* IssueAccept, by BeginTcpServer or by a worker.                          *)

\* AcceptEx takes the operation.
Posted(l) ==
    /\ l \in listening
    /\ accepts' = Inc(accepts, l)
    /\ UNCHANGED <<lost, faults>>

\* The listening socket is closed, or there is no socket to accept on.
NotPosted(l) ==
    /\ IF l \in listening THEN Fault ELSE UNCHANGED faults
    /\ lost' = Inc(lost, l)
    /\ UNCHANGED accepts

BeginPosts(l) ==
    /\ begin[l] = "posting"
    /\ to_post[l] > 0
    /\ to_post' = Dec(to_post, l)
    /\ \/ Posted(l) /\ begin' = [begin EXCEPT ![l] = "counting"]
       \/ NotPosted(l) /\ UNCHANGED begin
    /\ UseKey(l)
    /\ UNCHANGED <<listening, killed, registered, key, pending, reposting, counting, failed,
                   client_vars, status_vars, pool_vars, late>>

\* Mutation: BeginTcpServer does not count what it posts.
BeginCountsNothing(l) ==
    /\ begin[l] = "counting"
    /\ begin' = [begin EXCEPT ![l] = "posting"]
    /\ UseKey(l)
    /\ UNCHANGED <<to_post, listening, killed, registered, key, pending, accepts, reposting,
                   counting, lost, failed, client_vars, status_vars, pool_vars, faults, late>>

BeginCounts(l) ==
    /\ begin[l] = "counting"
    /\ begin' = [begin EXCEPT ![l] = "posting"]
    /\ pending' = Inc(pending, l)
    /\ UseKey(l)
    /\ UNCHANGED <<to_post, listening, killed, registered, key, accepts, reposting, counting,
                   lost, failed, client_vars, status_vars, pool_vars, faults, late>>

Repost(l) ==
    /\ reposting[l] > 0
    /\ reposting' = Dec(reposting, l)
    /\ \/ Posted(l) /\ counting' = Inc(counting, l) /\ UNCHANGED pool_vars
       \/ NotPosted(l) /\ Finish /\ UNCHANGED counting
    /\ UseKey(l)
    /\ UNCHANGED <<begin, to_post, listening, killed, registered, key, pending, failed, client_vars,
                   status_vars, late>>

\* InterlockedIncrement, after the operation has been issued.
Count(l) ==
    /\ counting[l] > 0
    /\ counting' = Dec(counting, l)
    /\ pending' = Inc(pending, l)
    /\ Finish
    /\ UseKey(l)
    /\ UNCHANGED <<begin, to_post, listening, killed, registered, key, accepts, reposting,
                   lost, failed, client_vars, status_vars, faults, late>>
-----------------------------------------------------------------------------
(* WTProcessTcpServer.                                                     *)

\* AcceptEx has a connection, maybe since before the listener was closed.
AcceptCompletes(l, p) ==
    /\ accepts[l] > 0
    /\ peer[p] = "none"
    /\ accepts' = Dec(accepts, l)
    /\ pending' = Dec(pending, l)
    /\ peer' = [peer EXCEPT ![p] = "queued"]
    /\ acceptor' = [acceptor EXCEPT ![p] = l]
    /\ Take
    /\ UseKey(l)
    /\ UNCHANGED <<begin, to_post, listening, killed, registered, key, reposting, counting,
                   lost, failed, status_vars, faults, late>>

\* Mutation: nothing is posted for a client that is refused.
RefuseWithoutRepost(p) ==
    /\ peer[p] = "queued"
    /\ peer' = [peer EXCEPT ![p] = "gone"]
    /\ acceptor' = [acceptor EXCEPT ![p] = NoListener]
    /\ Finish
    /\ UNCHANGED <<begin, to_post, listening, killed, registered, key, accept_vars,
                   status_vars, faults, late, undefined>>

\* The limit is reached, no context can be made, or the first READ fails.
Refuse(p) ==
    /\ peer[p] = "queued"
    /\ peer' = [peer EXCEPT ![p] = "gone"]
    /\ acceptor' = [acceptor EXCEPT ![p] = NoListener]
    /\ reposting' = Inc(reposting, acceptor[p])
    /\ UNCHANGED <<begin, to_post, listening, killed, registered, key, pending, accepts,
                   counting, lost, failed, server_vars>>

\* Accept, OnAccepted and the first READ.
Admit(p) ==
    /\ peer[p] = "queued"
    /\ peer' = [peer EXCEPT ![p] = "open"]
    /\ acceptor' = [acceptor EXCEPT ![p] = NoListener]
    /\ reposting' = Inc(reposting, acceptor[p])
    /\ Arrives("clients", p)
    /\ UNCHANGED <<begin, to_post, listening, killed, registered, key, pending, accepts,
                   counting, lost, failed, status_vars, pool_vars, faults, undefined>>

\* An accept fails: its listening socket was closed, or its peer has gone.
AcceptFails(l) ==
    /\ accepts[l] > 0
    /\ IF l \in listening THEN Fault ELSE UNCHANGED faults
    /\ accepts' = Dec(accepts, l)
    /\ UseKey(l)
    /\ UNCHANGED <<begin, to_post, listening, killed, registered, counting, lost,
                   client_vars, status_vars, late>>

\* It is posted again, and counted again.
AcceptAgain(l) ==
    /\ "preterminate" \notin status /\ l \notin killed
    /\ AcceptFails(l)
    /\ reposting' = Inc(reposting, l)
    /\ failed' = Inc(failed, l)
    /\ Take
    /\ UNCHANGED <<key, pending>>

\* Mutation: the key is freed by the accept before the last one.
AcceptAbortedEarly(l) ==
    /\ "preterminate" \in status \/ l \in killed
    /\ AcceptFails(l)
    /\ Idle
    /\ pending' = Dec(pending, l)
    /\ key' = IF pending[l] <= 2 THEN [key EXCEPT ![l] = "deleted"] ELSE key
    /\ UNCHANGED <<reposting, failed, pool_vars>>

\* The last pending accept of a closed listener frees the key.
AcceptAborted(l) ==
    /\ "preterminate" \in status \/ l \in killed
    /\ AcceptFails(l)
    /\ Idle
    /\ pending' = Dec(pending, l)
    /\ key' = IF pending[l] = 1 THEN [key EXCEPT ![l] = "deleted"] ELSE key
    /\ UNCHANGED <<reposting, failed, pool_vars>>
-----------------------------------------------------------------------------
(* Clients, and the end of a listener.                                     *)

\* What becomes of a client leaves the listener alone.
Client(p, state) ==
    /\ peer' = [peer EXCEPT ![p] = state]
    /\ UNCHANGED <<begin, to_post, listening, killed, registered, key, accept_vars, acceptor,
                   status_vars, faults, late, undefined>>

\* Data of a client: a worker reads it and reads on.
ClientData(p) == peer[p] = "open" /\ Client(p, "talking") /\ Take

ClientDataDone(p) ==
    \/ peer[p] = "talking" /\ Client(p, "open") /\ Finish
    \/ peer[p] = "told" /\ Client(p, "closing") /\ Finish

\* A READ of nothing: the tear-down.
ClientLeaves(p) ==
    peer[p] \in {"open", "closing"} /\ Client(p, "gone") /\ Idle /\ UNCHANGED pool_vars

KillTcpServer(l) ==
    /\ registered = l
    /\ registered' = NoListener
    /\ killed' = killed \union {l}
    /\ listening' = listening \ {l}
    /\ UNCHANGED <<begin, to_post, key, accept_vars, client_vars, server_vars>>

ListenerStep ==
    \/ \E l \in Listeners :
          \/ BeginTcpServer(l) \/ Listen(l) \/ ListenFails(l) \/ BeginPosts(l)
          \/ BeginCounts(l) \/ Repost(l) \/ Count(l) \/ AcceptAgain(l) \/ AcceptAborted(l)
          \/ KillTcpServer(l)
          \/ \E p \in Peers : AcceptCompletes(l, p)
    \/ \E p \in Peers :
          Refuse(p) \/ Admit(p) \/ ClientData(p) \/ ClientDataDone(p) \/ ClientLeaves(p)

\* What KillAllServers does to the listener; it stays in the map.
CloseListeners ==
    /\ IF registered \in Listeners
       THEN killed' = killed \union {registered} /\ listening' = listening \ {registered}
       ELSE UNCHANGED <<killed, listening>>
    /\ UNCHANGED <<begin, to_post, registered, key, accept_vars, client_vars>>

\* KillAllClient: DisconnectClient for each.
CloseClients ==
    /\ peer' = [p \in Peers |-> CASE peer[p] = "open" -> "closing"
                                  [] peer[p] = "talking" -> "told"
                                  [] OTHER -> peer[p]]
    /\ UNCHANGED <<begin, to_post, listening, killed, registered, key, accept_vars, acceptor>>
-----------------------------------------------------------------------------
TypeOKListener ==
    /\ begin \in [Listeners -> {"idle", "creating", "failed", "posting", "counting"}]
    /\ to_post \in [Listeners -> Nat]
    /\ listening \subseteq Listeners /\ killed \subseteq Listeners
    /\ registered \in Listeners \union {NoListener}
    /\ key \in [Listeners -> {"none", "live", "deleted"}]
    /\ pending \in [Listeners -> Int]
    /\ accepts \in [Listeners -> Nat]
    /\ reposting \in [Listeners -> Nat]
    /\ counting \in [Listeners -> Nat]
    /\ lost \in [Listeners -> Nat]
    /\ failed \in [Listeners -> Nat]
    /\ peer \in [Peers -> {"none", "queued", "open", "talking", "told", "closing", "gone"}]
    /\ acceptor \in [Peers -> Listeners \union {NoListener}]

\* Threads that have issued an AcceptEx and not counted it yet.
Uncounted(l) == counting[l] + (IF begin[l] = "counting" THEN 1 ELSE 0)

\* nAcceptPending is the number of accepts outstanding, except that it runs behind
\* in IssueAccept and that each accept that failed on an open listener is counted
\* once more than it ends: such a listener is never freed.
AcceptAccounting ==
    \A l \in Listeners : pending[l] + Uncounted(l) = accepts[l] + failed[l]

\* A listener that is open keeps as many accepts outstanding, or on their way, as
\* BeginTcpServer posted, less the ones the system refused: none gets lost while
\* clients come, are refused or give up.
AcceptsKept ==
    \A l \in listening :
        status = {} =>
            to_post[l] + accepts[l] + reposting[l] + lost[l]
                + Cardinality({p \in Peers : acceptor[p] = l}) = Posts

\* The key of a listener is freed when no accept is outstanding on it but those
\* whose threads have yet to count them.
KeyFreedLast ==
    [][\A l \in Listeners :
          key[l] = "live" /\ key'[l] = "deleted" => accepts'[l] <= Uncounted(l)]_listener_vars
=============================================================================
