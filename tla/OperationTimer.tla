---------------------------- MODULE OperationTimer ----------------------------
(***************************************************************************)
(* An overlapped operation (STXIOCPOPERATION) and its timeout timer, in    *)
(* STXIOCPServer.cpp and STXServerBase.cpp: EnqueueOperation and           *)
(* AddTimerObject in the thread that submits the operation, OnTimerTimeout *)
(* in the timer thread, DequeueOperation and DeleteTimerObject in the      *)
(* thread that finishes it.                                                *)
(*                                                                         *)
(* Two kinds of locks are involved: the operation's own recursive mutex,   *)
(* and the bucket of m_mapTimerDataAlt that holds its timer.  The timer    *)
(* thread takes the bucket first (ServerBaseTimerCallback), then the       *)
(* operation (OnTimerTimeout); DequeueOperation takes them in the opposite *)
(* order.  The callback runs in the one thread that runs all timers.       *)
(***************************************************************************)
EXTENDS Integers

CONSTANTS
    Network,      \* socket operations with a timeout: the system completes them
    Custom,       \* custom operations: only their timer completes them
    Buckets,      \* buckets of m_mapTimerDataAlt
    Bucket,       \* the bucket of an operation's timer
    NoOperation   \* not an operation

Operations == Network \union Custom

ASSUME KindAssumption == Network \intersect Custom = {}
ASSUME BucketAssumption == Bucket \in [Operations -> Buckets]
ASSUME NoOperationAssumption == NoOperation \notin Operations

VARIABLES
    submit,   \* where the submitting thread is with the operation
    timer,    \* the timer-queue timer of the operation (external)
    entries,  \* operations with an entry in m_mapTimerDataAlt
    handle,   \* hTimerHandle of the operation is not NULL
    refs,     \* m_nRef
    packet,   \* the operation's completion: none, to be taken, or taken
    finish,   \* where the thread that finishes the operation is
    opLock,   \* the holder of the operation's mutex
    bucket,   \* the holder of a bucket across a callback: nobody, or the timer
    tick,     \* where the timer thread is in the callback
    expiring  \* the operation whose timer it runs

vars == <<submit, timer, entries, handle, refs, packet, finish, opLock, bucket,
          tick, expiring>>

Init ==
    /\ submit = [o \in Operations |-> "new"]
    /\ timer = [o \in Operations |-> "none"]
    /\ entries = {}
    /\ handle = [o \in Operations |-> FALSE]
    /\ refs = [o \in Operations |-> 1]
    /\ packet = [o \in Operations |-> "none"]
    /\ finish = [o \in Operations |-> "none"]
    /\ opLock = [o \in Operations |-> "free"]
    /\ bucket = [b \in Buckets |-> "free"]
    /\ tick = "idle"
    /\ expiring = NoOperation

submitter == <<submit>>
finisher == <<finish, packet>>
ticker == <<tick, expiring, bucket>>

Freed(o) == refs[o] = 0
-----------------------------------------------------------------------------
(* The submitting thread: EnqueueOperation, then the system call.          *)

\* Two references, and an entry that the callback will find.
Enqueue(o) ==
    /\ submit[o] = "new"
    /\ submit' = [submit EXCEPT ![o] = "adding"]
    /\ refs' = [refs EXCEPT ![o] = @ + 2]
    /\ entries' = entries \union {o}
    /\ UNCHANGED <<timer, handle, opLock, finisher, ticker>>

\* CreateTimerQueueTimer succeeds: the timer may fire from now on.
CreateTimer(o) ==
    /\ submit[o] = "adding"
    /\ submit' = [submit EXCEPT ![o] = "storing"]
    /\ timer' = [timer EXCEPT ![o] = "armed"]
    /\ UNCHANGED <<entries, handle, refs, opLock, finisher, ticker>>

\* It fails: no entry, no handle.  A custom operation is never completed then.
CreateTimerFails(o) ==
    /\ submit[o] = "adding"
    /\ submit' = [submit EXCEPT ![o] = IF o \in Network THEN "issuing" ELSE "done"]
    /\ entries' = entries \ {o}
    /\ UNCHANGED <<timer, handle, refs, opLock, finisher, ticker>>

\* The handle is stored in the operation after AddTimerObject has returned,
\* without its mutex.
StoreHandle(o) ==
    /\ submit[o] = "storing"
    /\ submit' = [submit EXCEPT ![o] = IF o \in Network THEN "issuing" ELSE "done"]
    /\ handle' = [handle EXCEPT ![o] = TRUE]
    /\ UNCHANGED <<timer, entries, refs, opLock, finisher, ticker>>

\* WSARecv and its like accept the operation.
Issue(o) ==
    /\ submit[o] = "issuing"
    /\ submit' = [submit EXCEPT ![o] = "done"]
    /\ packet' = [packet EXCEPT ![o] = "pending"]
    /\ UNCHANGED <<timer, entries, handle, refs, finish, opLock, ticker>>

\* They refuse it: the submitter itself dequeues and releases the operation.
IssueFails(o) ==
    /\ submit[o] = "issuing"
    /\ submit' = [submit EXCEPT ![o] = "done"]
    /\ finish' = [finish EXCEPT ![o] = "peeking"]
    /\ UNCHANGED <<timer, entries, handle, refs, packet, opLock, ticker>>

\* The system completes a pending operation, with data, an error or aborted.
Complete(o) ==
    /\ packet[o] = "pending"
    /\ packet' = [packet EXCEPT ![o] = "posted"]
    /\ UNCHANGED <<timer, entries, handle, refs, finish, opLock, submitter, ticker>>
-----------------------------------------------------------------------------
(* The finishing thread: a worker that took the completion, or the         *)
(* submitter after a failure.  DequeueOperation and the last Release.      *)

TakePacket(o) ==
    /\ packet[o] = "posted"
    /\ finish[o] = "none"
    /\ packet' = [packet EXCEPT ![o] = "taken"]
    /\ finish' = [finish EXCEPT ![o] = "peeking"]
    /\ UNCHANGED <<timer, entries, handle, refs, opLock, submitter, ticker>>

\* The first test of hTimerHandle, without the mutex.
PeekHandle(o) ==
    /\ finish[o] = "peeking"
    /\ finish' = [finish EXCEPT ![o] = IF handle[o] THEN "locking" ELSE "releasing"]
    /\ UNCHANGED <<timer, entries, handle, refs, packet, opLock, submitter, ticker>>

\* The second test, under the mutex; it is kept while the timer is deleted.
LockToDelete(o) ==
    /\ finish[o] = "locking"
    /\ opLock[o] = "free"
    /\ IF handle[o]
       THEN /\ opLock' = [opLock EXCEPT ![o] = "finisher"]
            /\ finish' = [finish EXCEPT ![o] = "deleting"]
       ELSE /\ finish' = [finish EXCEPT ![o] = "releasing"]
            /\ UNCHANGED opLock
    /\ UNCHANGED <<timer, entries, handle, refs, packet, submitter, ticker>>

\* Mutation: the handle is forgotten, the timer is not deleted.
RemoveTimerForgets(o) ==
    /\ handle' = [handle EXCEPT ![o] = FALSE]
    /\ UNCHANGED <<entries, timer>>

\* DeleteTimerObject removes the entry; a callback already started goes on.
RemoveTimer(o) ==
    /\ entries' = entries \ {o}
    /\ timer' = [timer EXCEPT ![o] = IF @ = "armed" THEN "deleted" ELSE @]
    /\ handle' = [handle EXCEPT ![o] = FALSE]

DeleteTimer(o) ==
    /\ finish[o] = "deleting"
    /\ bucket[Bucket[o]] = "free"
    /\ RemoveTimer(o)
    /\ opLock' = [opLock EXCEPT ![o] = "free"]
    /\ finish' = [finish EXCEPT ![o] = "releasing"]
    /\ UNCHANGED <<refs, packet, submitter, ticker>>

\* Mutation: one release too many.
ReleaseAgain(o) ==
    /\ finish[o] = "releasing"
    /\ finish' = [finish EXCEPT ![o] = "done"]
    /\ refs' = [refs EXCEPT ![o] = @ - 4]
    /\ UNCHANGED <<timer, entries, handle, packet, opLock, submitter, ticker>>

\* The two references of EnqueueOperation, then the one it was created with.
Release(o) ==
    /\ finish[o] = "releasing"
    /\ finish' = [finish EXCEPT ![o] = "done"]
    /\ refs' = [refs EXCEPT ![o] = @ - 3]
    /\ UNCHANGED <<timer, entries, handle, packet, opLock, submitter, ticker>>
-----------------------------------------------------------------------------
(* The timer thread: ServerBaseTimerCallback and OnTimerTimeout.           *)

\* The time of the operation is over; a timer fires once.
Fire(o) ==
    /\ tick = "idle"
    /\ timer[o] = "armed"
    /\ timer' = [timer EXCEPT ![o] = "fired"]
    /\ tick' = "looking"
    /\ expiring' = o
    /\ UNCHANGED <<entries, handle, refs, opLock, bucket, submitter, finisher>>

\* Mutation: the bucket is unlocked before the callback.
LookUpUnlocks(o) ==
    /\ tick = "looking" /\ expiring = o
    /\ bucket[Bucket[o]] = "free"
    /\ tick' = IF o \in entries THEN "locking" ELSE "idle"
    /\ expiring' = IF o \in entries THEN o ELSE NoOperation
    /\ UNCHANGED <<timer, entries, handle, refs, opLock, bucket, submitter, finisher>>

\* The bucket stays locked during the callback if the entry is still there.
LookUp(o) ==
    /\ tick = "looking" /\ expiring = o
    /\ bucket[Bucket[o]] = "free"
    /\ IF o \in entries
       THEN /\ bucket' = [bucket EXCEPT ![Bucket[o]] = "timer"]
            /\ tick' = "locking"
            /\ UNCHANGED expiring
       ELSE /\ tick' = "idle"
            /\ expiring' = NoOperation
            /\ UNCHANGED bucket
    /\ UNCHANGED <<timer, entries, handle, refs, opLock, submitter, finisher>>

LockToExpire(o) ==
    /\ tick = "locking" /\ expiring = o
    /\ opLock[o] = "free"
    /\ opLock' = [opLock EXCEPT ![o] = "timer"]
    /\ tick' = "expiring"
    /\ UNCHANGED <<timer, entries, handle, refs, expiring, bucket, submitter, finisher>>

\* A queued custom operation is completed with TIMEOUT; a socket operation is
\* left to the system, which completes it when the connection goes down.
Expire(o) ==
    /\ tick = "expiring" /\ expiring = o
    /\ packet' = [packet EXCEPT ![o] = IF o \in Custom /\ @ = "none" THEN "posted" ELSE @]
    /\ tick' = "deleting"
    /\ UNCHANGED <<timer, entries, handle, refs, finish, opLock, expiring, bucket, submitter>>

\* The callback deletes its own timer if it sees a handle.  In an operation that
\* has been freed meanwhile it reads whatever the memory holds.
DeleteOwnTimer(o) ==
    /\ tick = "deleting" /\ expiring = o
    /\ \/ (handle[o] \/ Freed(o)) /\ RemoveTimer(o)
       \/ (~handle[o] \/ Freed(o)) /\ UNCHANGED <<entries, handle, timer>>
    /\ tick' = "unlocking"
    /\ UNCHANGED <<refs, opLock, expiring, bucket, submitter, finisher>>

\* Mutation: the mutex of the operation is not unlocked.
LeaveLocked(o) ==
    /\ tick = "unlocking" /\ expiring = o
    /\ bucket' = [bucket EXCEPT ![Bucket[o]] = "free"]
    /\ tick' = "idle"
    /\ expiring' = NoOperation
    /\ UNCHANGED <<timer, entries, handle, refs, opLock, submitter, finisher>>

Leave(o) ==
    /\ tick = "unlocking" /\ expiring = o
    /\ opLock' = [opLock EXCEPT ![o] = "free"]
    /\ bucket' = [bucket EXCEPT ![Bucket[o]] = "free"]
    /\ tick' = "idle"
    /\ expiring' = NoOperation
    /\ UNCHANGED <<timer, entries, handle, refs, submitter, finisher>>

Submitter(o) ==
    \/ CreateTimer(o) \/ CreateTimerFails(o) \/ StoreHandle(o)
    \/ Issue(o) \/ IssueFails(o)

Finisher(o) ==
    \/ TakePacket(o) \/ PeekHandle(o) \/ LockToDelete(o) \/ DeleteTimer(o)
    \/ Release(o)

Callback(o) ==
    \/ LookUp(o) \/ LockToExpire(o) \/ Expire(o) \/ DeleteOwnTimer(o) \/ Leave(o)

Next ==
    \E o \in Operations :
        Enqueue(o) \/ Submitter(o) \/ Complete(o) \/ Finisher(o) \/ Fire(o) \/ Callback(o)

Spec == Init /\ [][Next]_vars

\* Threads run on unless they wait for a lock, some worker takes a posted
\* completion, and a timer whose time is over fires.
Fairness ==
    \A o \in Operations :
        /\ WF_vars(Submitter(o)) /\ WF_vars(Finisher(o))
        /\ SF_vars(Fire(o)) /\ WF_vars(Callback(o))

FairSpec == Spec /\ Fairness
-----------------------------------------------------------------------------
TypeOK ==
    /\ submit \in [Operations -> {"new", "adding", "storing", "issuing", "done"}]
    /\ timer \in [Operations -> {"none", "armed", "fired", "deleted"}]
    /\ entries \subseteq Operations
    /\ handle \in [Operations -> BOOLEAN]
    /\ refs \in [Operations -> 0 .. 3]
    /\ packet \in [Operations -> {"none", "pending", "posted", "taken"}]
    /\ finish \in [Operations -> {"none", "peeking", "locking", "deleting", "releasing", "done"}]
    /\ opLock \in [Operations -> {"free", "finisher", "timer"}]
    /\ bucket \in [Buckets -> {"free", "timer"}]
    /\ tick \in {"idle", "looking", "locking", "expiring", "deleting", "unlocking"}
    /\ expiring \in Operations \union {NoOperation}

\* A timer that has not fired, or whose callback has yet to look its entry up,
\* cannot reach an operation that was freed: DequeueOperation or the callback
\* itself removed the entry before.
LateCallbackFindsNothing ==
    \A o \in Operations :
        Freed(o) => /\ timer[o] # "armed"
                    /\ (expiring = o /\ tick \in {"looking", "locking", "expiring"})
                           => tick = "looking" /\ o \notin entries

\* A socket operation is not freed under the thread that submits it, and the
\* callback that outlives one has nothing left to do but to unlock its mutex.
\* (For a custom operation neither holds: its timer may complete it before the
\* submitter has stored the handle.)
OutlivedOnlyByUnlock ==
    \A o \in Network :
        Freed(o) => /\ submit[o] = "done"
                    /\ expiring = o => tick \in {"looking", "unlocking"}

\* The finishing thread holds the operation and waits for the bucket, while the
\* timer thread holds the bucket and waits for the operation.
Crossed(o) == finish[o] = "deleting" /\ tick = "locking" /\ expiring = o

\* A custom operation whose timer could not be created; EnqueueOperation returns 1
\* as for any other.
Untimed(o) == o \in Custom /\ submit[o] = "done" /\ timer[o] = "none"

\* An operation that was enqueued is completed and released: a custom one by its
\* timer, a socket operation when the system has completed or refused it.  The only
\* ways out are a timer that could not be created and a timer thread caught in
\* crossed locks; nothing else stalls a worker or the timers.
StallsOnlyWhenCrossed ==
    \A o \in Operations :
        (submit[o] # "new")
            ~> (Freed(o) \/ packet[o] = "pending" \/ Untimed(o)
                         \/ \E u \in Operations : Crossed(u))

\* "Within this time new data must arrive, otherwise the connection is
\* disconnected": when the time of a socket operation is over its timeout is
\* handled, unless the operation has been finished before.
TimeoutIsHandled ==
    \A o \in Network :
        (timer[o] = "armed")
            ~> (timer[o] = "deleted" \/ (timer[o] = "fired" /\ expiring # o))

=============================================================================
