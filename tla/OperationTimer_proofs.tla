------------------------ MODULE OperationTimer_proofs -------------------------
(***************************************************************************)
(* Proofs about OperationTimer for every set of socket and custom          *)
(* operations and every assignment of timers to buckets: the reference     *)
(* count is exact, a late callback finds nothing, and a freed socket       *)
(* operation is touched by no thread but the callback that unlocks it.     *)
(***************************************************************************)
EXTENDS OperationTimer, TLAPS

USE KindAssumption, BucketAssumption, NoOperationAssumption

\* Nothing can reach the operation through its timer any more.
LateSafe(o) ==
    /\ timer[o] # "armed"
    /\ expiring = o => \/ tick \in {"deleting", "unlocking"}
                       \/ tick = "looking" /\ o \notin entries

\* And a callback that is past its look-up no longer reads the operation.
Safe(o) == LateSafe(o) /\ (expiring = o => tick # "deleting")

\* m_nRef as a function of where the threads are.
Counted(o) ==
    refs[o] = IF finish[o] = "done" THEN 0 ELSE IF submit[o] = "new" THEN 1 ELSE 3

\* Until the submitter has issued or given up the operation, nobody else finishes
\* it, except a custom one that its timer has completed.
Early(o) ==
    /\ submit[o] \in {"new", "adding"} =>
           /\ timer[o] = "none" /\ ~handle[o]
           /\ packet[o] = "none" /\ finish[o] = "none"
    /\ o \in Network /\ submit[o] # "done" => packet[o] = "none" /\ finish[o] = "none"
    /\ o \in Custom => submit[o] # "issuing"

\* A custom operation is completed by its own callback.
CompletedByTimer(o) ==
    o \in Custom =>
        /\ packet[o] # "none" => /\ timer[o] = "fired"
                                 /\ expiring = o => tick \in {"deleting", "unlocking"}
        /\ packet[o] # "pending"
        /\ finish[o] # "none" => packet[o] = "taken"

\* No handle means no timer: it was never created, or it has been removed.
NoHandleNoTimer(o) ==
    o \in Network /\ submit[o] \in {"issuing", "done"} /\ ~handle[o] => Safe(o)

Finished(o) ==
    finish[o] \in {"releasing", "done"} => LateSafe(o) /\ (o \in Network => Safe(o))

\* The timer thread holds the bucket of the operation it works on.
TimerThread ==
    /\ tick = "idle" <=> expiring = NoOperation
    /\ \A o \in Operations : expiring = o =>
           /\ timer[o] = "fired"
           /\ tick # "looking" => bucket[Bucket[o]] = "timer"

OpInv(o) ==
    /\ Counted(o) /\ Early(o) /\ CompletedByTimer(o)
    /\ NoHandleNoTimer(o) /\ Finished(o)

\* The inductive invariant.
IInv == TypeOK /\ TimerThread /\ \A o \in Operations : OpInv(o)

LEMMA InitIInv == Init => IInv
BY DEF Init, IInv, TypeOK, TimerThread, OpInv, Counted, Early, CompletedByTimer,
       NoHandleNoTimer, Safe, LateSafe, Finished, Operations

LEMMA SubmitterIInv ==
    ASSUME IInv, NEW o \in Operations, Enqueue(o) \/ Submitter(o) \/ Complete(o)
    PROVE  IInv'
<1> USE DEF IInv, TypeOK, TimerThread, OpInv, Counted, Early, CompletedByTimer,
            NoHandleNoTimer, Safe, LateSafe, Finished, Operations,
            submitter, finisher, ticker
<1>1. CASE Enqueue(o)
  BY <1>1 DEF Enqueue
<1>2. CASE CreateTimer(o)
  BY <1>2 DEF CreateTimer
<1>3. CASE CreateTimerFails(o)
  BY <1>3 DEF CreateTimerFails
<1>4. CASE StoreHandle(o)
  BY <1>4 DEF StoreHandle
<1>5. CASE Issue(o)
  BY <1>5 DEF Issue
<1>6. CASE IssueFails(o)
  BY <1>6 DEF IssueFails
<1>7. CASE Complete(o)
  BY <1>7 DEF Complete
<1> QED BY <1>1, <1>2, <1>3, <1>4, <1>5, <1>6, <1>7 DEF Submitter

LEMMA FinisherIInv ==
    ASSUME IInv, NEW o \in Operations, Finisher(o)
    PROVE  IInv'
<1> USE DEF IInv, TypeOK, TimerThread, OpInv, Counted, Early, CompletedByTimer,
            NoHandleNoTimer, Safe, LateSafe, Finished, Operations,
            submitter, finisher, ticker
<1>1. CASE TakePacket(o)
  BY <1>1 DEF TakePacket
<1>2. CASE PeekHandle(o)
  BY <1>2 DEF PeekHandle
<1>3. CASE LockToDelete(o)
  BY <1>3 DEF LockToDelete
<1>4. CASE DeleteTimer(o)
  BY <1>4 DEF DeleteTimer, RemoveTimer
<1>5. CASE Release(o)
  BY <1>5 DEF Release
<1> QED BY <1>1, <1>2, <1>3, <1>4, <1>5 DEF Finisher

LEMMA TimerIInv ==
    ASSUME IInv, NEW o \in Operations, Fire(o) \/ Callback(o)
    PROVE  IInv'
<1> USE DEF IInv, TypeOK, TimerThread, OpInv, Counted, Early, CompletedByTimer,
            NoHandleNoTimer, Safe, LateSafe, Finished, Operations,
            submitter, finisher, ticker
<1>1. CASE Fire(o)
  BY <1>1 DEF Fire
<1>2. CASE LookUp(o)
  BY <1>2 DEF LookUp
<1>3. CASE LockToExpire(o)
  BY <1>3 DEF LockToExpire
<1>4. CASE Expire(o)
  BY <1>4 DEF Expire
<1>5. CASE DeleteOwnTimer(o)
  <2>1. tick = "deleting" /\ expiring = o /\ tick' = "unlocking" /\ timer[o] = "fired"
    BY <1>5 DEF DeleteOwnTimer
  <2>2. UNCHANGED <<refs, opLock, expiring, bucket, submit, finish, packet>>
    BY <1>5 DEF DeleteOwnTimer
  <2>3. CASE RemoveTimer(o)
    <3>1. timer' = timer
      BY <2>1, <2>3 DEF RemoveTimer
    <3> QED BY <2>1, <2>2, <2>3, <3>1 DEF RemoveTimer
  <2>4. CASE UNCHANGED <<entries, handle, timer>>
    BY <2>1, <2>2, <2>4
  <2> QED BY <1>5, <2>3, <2>4 DEF DeleteOwnTimer
<1>6. CASE Leave(o)
  BY <1>6 DEF Leave
<1> QED BY <1>1, <1>2, <1>3, <1>4, <1>5, <1>6 DEF Callback

LEMMA NextIInv == IInv /\ [Next]_vars => IInv'
<1>1. IInv /\ Next => IInv'
  BY SubmitterIInv, FinisherIInv, TimerIInv DEF Next
<1>2. IInv /\ UNCHANGED vars => IInv'
  BY DEF vars, IInv, TypeOK, TimerThread, OpInv, Counted, Early, CompletedByTimer,
         NoHandleNoTimer, Safe, LateSafe, Finished
<1> QED BY <1>1, <1>2

LEMMA Invariance == Spec => []IInv
BY InitIInv, NextIInv, PTL DEF Spec

\* Every variable keeps its type; the reference count is 0, 1 or 3 throughout.
THEOREM TypeCorrect == Spec => []TypeOK
<1>1. IInv => TypeOK
  BY DEF IInv
<1> QED BY <1>1, Invariance, PTL

\* No timer callback finds an operation that has been freed, in any interleaving
\* of the submitter, the workers and the timer thread.
THEOREM LateCallbackIsHarmless == Spec => []LateCallbackFindsNothing
<1>1. IInv => LateCallbackFindsNothing
  BY DEF IInv, OpInv, Counted, Finished, LateSafe, LateCallbackFindsNothing, Freed
<1> QED BY <1>1, Invariance, PTL

\* A freed socket operation is referenced by no thread but, at most, the callback
\* about to unlock its mutex.
THEOREM SocketOperationOutlived == Spec => []OutlivedOnlyByUnlock
<1>1. IInv => OutlivedOnlyByUnlock
  BY DEF IInv, TypeOK, OpInv, Counted, Early, Finished, Safe, LateSafe,
         OutlivedOnlyByUnlock, Freed, Operations
<1> QED BY <1>1, Invariance, PTL

=============================================================================
