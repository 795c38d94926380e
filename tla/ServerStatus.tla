---------------------------- MODULE ServerStatus -----------------------------
(***************************************************************************)
(* The life of a CSTXIOCPServer as its parts see it: the status flags, the *)
(* worker threads, the calls of Terminate and the end of Run.  The modules *)
(* of the parts (TcpListener, TcpConnection, UdpServer, FolderMonitor) say *)
(* what each stage of Terminate does to them; Server composes them.        *)
(***************************************************************************)
EXTENDS Integers, FiniteSets

CONSTANTS
    Terminators, \* threads, not workers, that call Terminate
    Workers,     \* worker threads, OnQueryWorkerThreadCount
    MaxFaults    \* bound: how often the system refuses what is asked of it

ASSUME WorkersAssumption == Workers \in Nat \ {0}
ASSUME MaxFaultsAssumption == MaxFaults \in Nat

VARIABLES
    status,    \* dwStatus
    stopping,  \* where a call of Terminate is
    started,   \* StartServer has been called
    unlocked,  \* m_hServerUnlockEvent is signalled
    workers,   \* worker threads that run
    busy,      \* of these, the ones that handle a completion
    ended,     \* Run has returned
    faults,    \* refusals of the system so far
    late,      \* what came to be after Terminate had closed all of its kind
    undefined  \* what used memory that was freed, or a null pointer

status_vars == <<status, stopping, started, unlocked, ended>>
pool_vars == <<workers, busy>>
server_vars == <<status_vars, pool_vars, faults, late, undefined>>

Flags == {"preterminate", "terminate"}
Stages == {"idle", "entering", "folders", "servers", "clients", "connections", "flag", "waiting",
           "returned"}

\* The stages of a call of Terminate after the one that closes a kind of things.
After(kind) ==
    CASE kind = "folders"     -> Stages \ {"idle", "entering", "folders"}
      [] kind = "servers"     -> Stages \ {"idle", "entering", "folders", "servers"}
      [] kind = "clients"     -> {"connections", "flag", "waiting", "returned"}
      [] kind = "connections" -> {"flag", "waiting", "returned"}

Closed(kind) == \E t \in Terminators : stopping[t] \in After(kind)

\* History: x, of this kind, comes to be now.
Arrives(kind, x) == late' = IF Closed(kind) THEN late \union {x} ELSE late

Undefined(who) == undefined' = undefined \union {who}

Fault == faults < MaxFaults /\ faults' = faults + 1

InitServer ==
    /\ status = {}
    /\ stopping = [t \in Terminators |-> "idle"]
    /\ started = FALSE
    /\ unlocked = TRUE
    /\ workers = Workers
    /\ busy = 0
    /\ ended = FALSE
    /\ faults = 0
    /\ late = {}
    /\ undefined = {}
-----------------------------------------------------------------------------
(* Worker threads.  A handler of one step only needs an idle worker; one of *)
(* several steps keeps it busy.                                            *)

Idle == busy < workers
Take == Idle /\ busy' = busy + 1 /\ UNCHANGED workers
Finish == busy' = busy - 1 /\ UNCHANGED workers
-----------------------------------------------------------------------------
StartServer ==
    /\ ~started
    /\ started' = TRUE
    /\ unlocked' = FALSE
    /\ UNCHANGED <<status, stopping, pool_vars, ended, faults, late, undefined>>

Stage(t, from, to) == stopping[t] = from /\ stopping' = [stopping EXCEPT ![t] = to]

\* A second call also gets past the test while the first has not set TERMINATE.
Terminate(t) ==
    /\ Stage(t, "idle", "entering")
    /\ "terminate" \notin status
    /\ UNCHANGED <<status, started, unlocked, pool_vars, ended, faults, late, undefined>>

\* PRETERMINATE replaces all flags.
SetPreterminate(t) ==
    /\ Stage(t, "entering", "folders")
    /\ status' = {"preterminate"}
    /\ UNCHANGED <<started, unlocked, pool_vars, ended, faults, late, undefined>>

\* The stages between close folders, servers, clients and connections.
Advance(t, from, to) ==
    /\ Stage(t, from, to)
    /\ UNCHANGED <<status, started, unlocked, pool_vars, ended, faults, late>>

SetTerminate(t) ==
    /\ Stage(t, "flag", "waiting")
    /\ status' = status \union {"terminate"}
    /\ UNCHANGED <<started, unlocked, pool_vars, ended, faults, late, undefined>>

WaitForServerUnlock(t) ==
    /\ Stage(t, "waiting", "returned")
    /\ unlocked
    /\ UNCHANGED <<status, started, unlocked, pool_vars, ended, faults, late, undefined>>

\* Mutation: a busy worker leaves as well.
LeaveBusy ==
    /\ workers > 0
    /\ "terminate" \in status
    /\ workers' = workers - 1
    /\ UNCHANGED <<status_vars, busy, faults, late, undefined>>

\* A worker whose wait timed out leaves.  CanTerminateWorkThreads is always true:
\* nothing is ever put in m_setOperation.
WorkerLeaves ==
    /\ Idle
    /\ "terminate" \in status
    /\ workers' = workers - 1
    /\ UNCHANGED <<status_vars, busy, faults, late, undefined>>

\* Mutation: Run returns without a signal.
RunUnsignalled ==
    /\ started /\ ~ended
    /\ workers = 0
    /\ ended' = TRUE
    /\ UNCHANGED <<status, stopping, started, unlocked, pool_vars, faults, late, undefined>>

\* Run: all workers have left.
Run ==
    /\ started /\ ~ended
    /\ workers = 0
    /\ ended' = TRUE
    /\ unlocked' = TRUE
    /\ UNCHANGED <<status, stopping, started, pool_vars, faults, late, undefined>>

TypeOKServer ==
    /\ status \subseteq Flags
    /\ stopping \in [Terminators -> Stages]
    /\ started \in BOOLEAN /\ unlocked \in BOOLEAN /\ ended \in BOOLEAN
    /\ workers \in 0..Workers
    /\ busy \in 0..workers
    /\ faults \in 0..MaxFaults
=============================================================================
