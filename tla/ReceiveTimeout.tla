--------------------------- MODULE ReceiveTimeout ----------------------------
(***************************************************************************)
(* The receive timeout of one client.  Every READ has a timer of its own,  *)
(* which fires once; it is deleted only when the handler of its READ is    *)
(* done, after the next READ was issued.  A timer that fires asks how long *)
(* ago data was received, by the local time, in whole seconds.  Time       *)
(* passes in half seconds.                                                 *)
(***************************************************************************)
EXTENDS Integers, FiniteSets

CONSTANTS
    Timeouts,   \* receive timeouts, in half seconds
    MaxTime,    \* bound: half seconds a run lasts
    MaxReads,   \* bound: READs of the client
    Shifts      \* what somebody may set the local time by, once; without 0

ASSUME TimeoutsAssumption == Timeouts \subseteq Nat \ {0}
ASSUME MaxTimeAssumption == MaxTime \in Nat
ASSUME MaxReadsAssumption == MaxReads \in Nat \ {0}
ASSUME ShiftsAssumption == Shifts \subseteq Int \ {0}

VARIABLES
    timeout,    \* OnGetClientReceiveTimeOut
    now,        \* time
    shift,      \* by how much the local time was set
    read,       \* the READ that was issued last
    phase,      \* what became of it
    armed,      \* READs whose timer has not fired
    issued,     \* when a READ was issued
    received,   \* when data was last received, in time; -1 before
    last,       \* _lastDataReceiveTime, in local time, once data was received
    handling,   \* READs whose handler has not returned
    timed_out   \* the client was disconnected by a timeout

timeout_vars ==
    <<timeout, now, shift, read, phase, armed, issued, received, last, handling, timed_out>>

InitTimeout ==
    /\ timeout \in Timeouts
    /\ now = 0 /\ shift = 0
    /\ read = 1 /\ phase = "pending"
    /\ armed = {1}
    /\ issued = [r \in 1..MaxReads |-> 0]
    /\ received = -1 /\ last = 0
    /\ handling = {}
    /\ timed_out = FALSE

Tick ==
    /\ now < MaxTime
    /\ now' = now + 1
    /\ UNCHANGED <<timeout, shift, read, phase, armed, issued, received, last, handling, timed_out>>

\* Summer time, or somebody sets the clock.
ClockSet ==
    /\ shift = 0
    /\ shift' \in Shifts
    /\ UNCHANGED <<timeout, now, read, phase, armed, issued, received, last, handling, timed_out>>

\* The READ completes; a worker will take it.
DataArrives ==
    /\ phase = "pending" /\ ~timed_out
    /\ phase' = "completed"
    /\ UNCHANGED <<timeout, now, shift, read, armed, issued, received, last, handling, timed_out>>

\* PreClientReceive notes the time.
UpdateLastDataReceiveTime ==
    /\ phase = "completed"
    /\ phase' = "taken"
    /\ received' = now /\ last' = now + shift
    /\ handling' = handling \union {read}
    /\ UNCHANGED <<timeout, now, shift, read, armed, issued, timed_out>>

\* IssueClientRead, with a timer; it refuses a client that was disconnected.
IssueClientRead ==
    /\ phase = "taken" /\ ~timed_out
    /\ read < MaxReads
    /\ read' = read + 1
    /\ phase' = "pending"
    /\ armed' = armed \union {read + 1}
    /\ issued' = [issued EXCEPT ![read + 1] = now]
    /\ UNCHANGED <<timeout, now, shift, received, last, handling, timed_out>>

\* Mutation: the handler deletes the timer of the READ that is outstanding.
DequeueNewest(r) ==
    /\ r \in handling
    /\ r = read => timed_out \/ read = MaxReads
    /\ handling' = handling \ {r}
    /\ armed' = armed \ {read}
    /\ UNCHANGED <<timeout, now, shift, read, phase, issued, received, last, timed_out>>

\* The handler of a READ returns.
DequeueOperation(r) ==
    /\ r \in handling
    /\ r = read => timed_out \/ read = MaxReads
    /\ handling' = handling \ {r}
    /\ armed' = armed \ {r}
    /\ UNCHANGED <<timeout, now, shift, read, phase, issued, received, last, timed_out>>

\* Whole seconds from a to b; a quotient of integers is cut towards zero.
Seconds(a, b) == IF b >= a THEN (b - a) \div 2 ELSE -((a - b) \div 2)

\* DisconnectClientByTimeout: its comparison.  Before anything was received, the time
\* has no month, cannot be converted, and is compared with what was on the stack.
Real == IF received = -1 THEN BOOLEAN ELSE {2 * Seconds(last, now + shift) >= timeout}

Fires(r) ==
    /\ r \in armed
    /\ now >= issued[r] + timeout
    /\ armed' = armed \ {r}
    /\ UNCHANGED <<timeout, now, shift, read, phase, issued, received, last, handling>>

\* Mutation: whatever fires disconnects the client.
OnTimerTimeoutAlways(r) == Fires(r) /\ timed_out' = TRUE

\* OnTimerTimeout.
OnTimerTimeout(r) ==
    /\ Fires(r)
    /\ timed_out' \in (IF timed_out THEN {TRUE} ELSE Real)

TimeoutStep ==
    \/ Tick \/ ClockSet \/ DataArrives \/ UpdateLastDataReceiveTime \/ IssueClientRead
    \/ \E r \in 1..MaxReads : DequeueOperation(r) \/ OnTimerTimeout(r)
-----------------------------------------------------------------------------
TypeOKTimeout ==
    /\ timeout \in Timeouts
    /\ now \in 0..MaxTime
    /\ shift \in Shifts \union {0}
    /\ read \in 1..MaxReads
    /\ phase \in {"pending", "completed", "taken"}
    /\ armed \subseteq 1..read
    /\ issued \in [1..MaxReads -> 0..MaxTime]
    /\ received \in -1..MaxTime /\ last \in Int
    /\ handling \subseteq 1..read
    /\ timed_out \in BOOLEAN

\* No client is disconnected within the timeout of the last data it was read, unless
\* the clock was set forward; data that waits for a worker does not help it, and
\* neither does it help that a worker is still at it.
TimeoutOnlyAfterSilence ==
    [][~timed_out /\ timed_out' /\ shift <= 0 =>
          IF received = -1 THEN now >= timeout ELSE now - received >= timeout]_timeout_vars

\* A READ that waits for data is guarded by its timer, unless the timer has fired and
\* was not believed: which happens to the first READ of a client, for a timeout of a
\* fraction of seconds, and when the clock was set back.  Nothing guards such a client.
IdleClientIsWatched ==
    phase = "pending" /\ ~timed_out /\ read \notin armed =>
        read = 1 \/ timeout % 2 # 0 \/ shift < 0
=============================================================================
