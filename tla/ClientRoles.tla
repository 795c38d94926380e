----------------------------- MODULE ClientRoles -----------------------------
(***************************************************************************)
(* The role of a client, the maps of the clients that monitor the log or   *)
(* the debug output, and the counters that say whether there are any:      *)
(* SetTcpClientRole, which is called by scripts, RPC and the shared tree,  *)
(* and OnClientDisconnect.  Each map has locks of its own.                 *)
(***************************************************************************)
EXTENDS Integers, FiniteSets

CONSTANTS
    Members,   \* clients
    Setters,   \* threads that call SetTcpClientRole
    Nobody     \* not a client

ASSUME MembersAssumption == IsFiniteSet(Members)
ASSUME NobodyAssumption == Nobody \notin Members

\* UniversalTcpClientRole; Admin is like Default here.
Monitors == {"log", "debug"}
Roles == Monitors \union {"default"}

VARIABLES
    member,      \* clients in _mapClients
    role,        \* _role
    monitors,    \* _mapLogMonitorClients and _mapDebugMonitorClients
    count,       \* _logMonitorCount and _debugMonitorCount
    setting,     \* what a thread is setting: [client, new, old], and how far it is
    leaving,     \* where OnClientDisconnect is for the client
    overtaken    \* clients whose role was set by two threads, or as they left

role_vars == <<member, role, monitors, count, setting, leaving, overtaken>>

Free == [client |-> Nobody, new |-> "default", old |-> "default", step |-> "none"]

InitRoles ==
    /\ member = Members
    /\ role = [c \in Members |-> "default"]
    /\ monitors = [m \in Monitors |-> {}]
    /\ count = [m \in Monitors |-> 0]
    /\ setting = [t \in Setters |-> Free]
    /\ leaving = [c \in Members |-> "no"]
    /\ overtaken = {}

Advance(t, from, to) ==
    /\ setting[t].step = from
    /\ setting' = [setting EXCEPT ![t].step = to]

\* The change of the counters from one role to another.
Change(m, old, new) == (IF new = m THEN 1 ELSE 0) - (IF old = m THEN 1 ELSE 0)
-----------------------------------------------------------------------------
(* SetTcpClientRole.                                                       *)

\* Under the lock of the entry of _mapClients.
SetRole(t, c, r) ==
    /\ setting[t] = Free
    /\ c \in member
    /\ setting' = [setting EXCEPT ![t] = [client |-> c, new |-> r, old |-> role[c], step |-> "log"]]
    /\ role' = [role EXCEPT ![c] = r]
    /\ overtaken' = IF leaving[c] # "no" \/ \E u \in Setters : setting[u].client = c
                    THEN overtaken \union {c} ELSE overtaken
    /\ UNCHANGED <<member, monitors, count, leaving>>

SetMonitor(t, m) ==
    LET c == setting[t].client
    IN  monitors' = [monitors EXCEPT ![m] = IF setting[t].new = m THEN @ \union {c} ELSE @ \ {c}]

SetLogMonitor(t) ==
    /\ Advance(t, "log", "debug")
    /\ SetMonitor(t, "log")
    /\ UNCHANGED <<member, role, count, leaving, overtaken>>

SetDebugMonitor(t) ==
    /\ Advance(t, "debug", "count")
    /\ SetMonitor(t, "debug")
    /\ UNCHANGED <<member, role, count, leaving, overtaken>>

\* Mutation: a role that is set again is counted again.
CountAnyRole(t) ==
    /\ setting[t].step = "count"
    /\ count' = [m \in Monitors |-> count[m] + (IF setting[t].new = m THEN 1
                                                ELSE IF setting[t].old = m THEN -1 ELSE 0)]
    /\ setting' = [setting EXCEPT ![t] = Free]
    /\ UNCHANGED <<member, role, monitors, leaving, overtaken>>

CountRole(t) ==
    /\ setting[t].step = "count"
    /\ count' = [m \in Monitors |-> count[m] + Change(m, setting[t].old, setting[t].new)]
    /\ setting' = [setting EXCEPT ![t] = Free]
    /\ UNCHANGED <<member, role, monitors, leaving, overtaken>>
-----------------------------------------------------------------------------
(* OnClientDisconnect.                                                     *)

UncountMonitor(c) ==
    /\ leaving[c] = "no"
    /\ count' = [m \in Monitors |-> count[m] - (IF role[c] = m THEN 1 ELSE 0)]
    /\ leaving' = [leaving EXCEPT ![c] = "uncounted"]
    /\ overtaken' = IF \E t \in Setters : setting[t].client = c
                    THEN overtaken \union {c} ELSE overtaken
    /\ UNCHANGED <<member, role, monitors, setting>>

EraseClient(c) ==
    /\ leaving[c] = "uncounted"
    /\ leaving' = [leaving EXCEPT ![c] = "erased"]
    /\ member' = member \ {c}
    /\ UNCHANGED <<role, monitors, count, setting, overtaken>>

\* The client goes when the handler returns.
EraseMonitors(c) ==
    /\ leaving[c] = "erased"
    /\ leaving' = [leaving EXCEPT ![c] = "gone"]
    /\ monitors' = [m \in Monitors |-> monitors[m] \ {c}]
    /\ UNCHANGED <<member, role, count, setting, overtaken>>

RoleStep ==
    \/ \E t \in Setters :
          \/ SetLogMonitor(t) \/ SetDebugMonitor(t) \/ CountRole(t)
          \/ \E c \in Members, r \in Roles : SetRole(t, c, r)
    \/ \E c \in Members : UncountMonitor(c) \/ EraseClient(c) \/ EraseMonitors(c)
-----------------------------------------------------------------------------
TypeOKRoles ==
    /\ member \subseteq Members
    /\ role \in [Members -> Roles]
    /\ monitors \in [Monitors -> SUBSET Members]
    /\ count \in [Monitors -> Int]
    /\ setting \in [Setters -> [client : Members \union {Nobody}, new : Roles, old : Roles,
                                step : {"none", "log", "debug", "count"}]]
    /\ leaving \in [Members -> {"no", "uncounted", "erased", "gone"}]
    /\ overtaken \subseteq Members

Present == {c \in Members : leaving[c] = "no"}

\* Nothing is being set of the client, and it is not leaving.
Settled(c) == leaving[c] \in {"no", "gone"} /\ \A t \in Setters : setting[t].client # c

\* A client is in the map of monitors that its role says, and in none when it has
\* gone; and while nobody sets a role the counters are the numbers of the monitors
\* present.  Setting the role of a client from two threads, or as it leaves, breaks
\* this for good: a map may then hold a client that is freed.
RolesSettled ==
    /\ \A c \in Members \ overtaken : Settled(c) =>
          \A m \in Monitors : c \in monitors[m] <=> (leaving[c] = "no" /\ role[c] = m)
    /\ (\A t \in Setters : setting[t] = Free) /\ overtaken = {} =>
          \A m \in Monitors : count[m] = Cardinality({c \in Present : role[c] = m})
=============================================================================
