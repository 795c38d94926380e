----------------------------- MODULE ClientSend ------------------------------
(***************************************************************************)
(* The send pipeline of one client connection (CSTXIOCPServerClientContext *)
(* and IssueClientWrite, IssueClientWriteForceSend and the WRITE branches  *)
(* of WTProcessClientSocket in STXIOCPServer.cpp).                         *)
(*                                                                         *)
(* Any thread may send on the client.  Under LockSend the sender looks at  *)
(* m_nBufferedSendDataLength: when nothing is outstanding it submits the   *)
(* message to WSASend, otherwise it queues it.  The length of a message    *)
(* submitted directly is added to the counter only AFTER UnlockSend, so    *)
(* its completion may be processed, and other sends may run, before the    *)
(* message has been accounted for.  A worker that processes the completion *)
(* of a write subtracts its length and submits at most one queued message. *)
(***************************************************************************)
EXTENDS Integers, Sequences, FiniteSets, Functions

CONSTANTS
    Threads,    \* threads that send on this client
    Messages,   \* messages; each is sent at most once
    Owner,      \* the thread that sends a message
    Size,       \* the length of a message
    Limit,      \* buffered length from which sends are refused (1 MB)
    NoMessage   \* not a message

ASSUME ThreadsAssumption == IsFiniteSet(Threads)
ASSUME OwnerAssumption == Owner \in [Messages -> Threads]
ASSUME SizeAssumption == Size \in [Messages -> Nat]
ASSUME LimitAssumption == Limit \in Nat \ {0}
ASSUME NoMessageAssumption == NoMessage \notin Messages

VARIABLES
    sock,         \* m_socket is a valid handle
    link,         \* the transport still accepts data (external)
    disconnected, \* m_bDisconnected
    buffered,     \* m_nBufferedSendDataLength
    queue,        \* _queuedSendData: one FIFO per producing thread
    inflight,     \* writes WSASend accepted, completion not yet processed
    pc,           \* where each sending thread is
    current,      \* the message each sending thread is sending
    unsent,       \* messages no thread has sent yet
    lost,         \* messages taken from the queue whose submission failed
    accepted,     \* history: per thread, messages accepted, in call order
    wire          \* history: messages in the order the transport got them

vars == <<sock, link, disconnected, buffered, queue, inflight, pc, current,
          unsent, lost, accepted, wire>>

Init ==
    /\ sock = TRUE
    /\ link = TRUE
    /\ disconnected = FALSE
    /\ buffered = 0
    /\ queue = [t \in Threads |-> <<>>]
    /\ inflight = {}
    /\ pc = [t \in Threads |-> "idle"]
    /\ current = [t \in Threads |-> NoMessage]
    /\ unsent = Messages
    /\ lost = {}
    /\ accepted = [t \in Threads |-> <<>>]
    /\ wire = <<>>

connection == <<sock, link, disconnected>>

Queued(t) == Range(queue[t])
AnyQueued == \E t \in Threads : queue[t] # <<>>
-----------------------------------------------------------------------------
(* The sending threads.                                                    *)

\* IssueClientWrite reads m_socket before it takes LockSend.
CallSend(t, m) ==
    /\ pc[t] = "idle"
    /\ m \in unsent
    /\ Owner[m] = t
    /\ unsent' = unsent \ {m}
    /\ IF sock
       THEN /\ pc' = [pc EXCEPT ![t] = "locking"]
            /\ current' = [current EXCEPT ![t] = m]
       ELSE UNCHANGED <<pc, current>>
    /\ UNCHANGED <<connection, buffered, queue, inflight, lost, accepted, wire>>

\* What the sender does with its message when it leaves IssueClientWrite.
Return(t) ==
    /\ pc' = [pc EXCEPT ![t] = "idle"]
    /\ current' = [current EXCEPT ![t] = NoMessage]

\* Too much is outstanding: the message is discarded, the call returns -1.
Refuse(t) ==
    /\ pc[t] = "locking"
    /\ buffered >= Limit
    /\ Return(t)
    /\ UNCHANGED <<connection, buffered, queue, inflight, unsent, lost, accepted, wire>>

\* Mutations of Enqueue: without the upper limit; returning the length without
\* pushing the buffer; pushing the pointer after it was cleared.
EnqueueUnlimited(t) ==
    /\ pc[t] = "locking" /\ buffered > 0
    /\ queue' = [queue EXCEPT ![t] = Append(@, current[t])]
    /\ buffered' = buffered + Size[current[t]]
    /\ accepted' = [accepted EXCEPT ![t] = Append(@, current[t])]
    /\ Return(t)
    /\ UNCHANGED <<connection, inflight, unsent, lost, wire>>
EnqueueForgets(t) ==
    /\ pc[t] = "locking" /\ buffered > 0 /\ buffered < Limit
    /\ accepted' = [accepted EXCEPT ![t] = Append(@, current[t])]
    /\ Return(t)
    /\ UNCHANGED <<connection, buffered, queue, inflight, unsent, lost, wire>>
EnqueueCleared(t) ==
    /\ pc[t] = "locking" /\ buffered > 0 /\ buffered < Limit
    /\ queue' = [queue EXCEPT ![t] = Append(@, NoMessage)]
    /\ Return(t)
    /\ UNCHANGED <<connection, buffered, inflight, unsent, lost, accepted, wire>>

\* Something is outstanding: the message waits in _queuedSendData.
Enqueue(t) ==
    /\ pc[t] = "locking"
    /\ buffered > 0
    /\ buffered < Limit
    /\ queue' = [queue EXCEPT ![t] = Append(@, current[t])]
    /\ buffered' = buffered + Size[current[t]]
    /\ accepted' = [accepted EXCEPT ![t] = Append(@, current[t])]
    /\ Return(t)
    /\ UNCHANGED <<connection, inflight, unsent, lost, wire>>

\* Nothing is outstanding by the counter and WSASend takes the message; the
\* sender releases LockSend before it adds the length.
SubmitDirect(t) ==
    /\ pc[t] = "locking"
    /\ buffered <= 0
    /\ link
    /\ inflight' = inflight \union {current[t]}
    /\ wire' = Append(wire, current[t])
    /\ accepted' = [accepted EXCEPT ![t] = Append(@, current[t])]
    /\ pc' = [pc EXCEPT ![t] = "accounting"]
    /\ UNCHANGED <<connection, buffered, queue, current, unsent, lost>>

\* WSASend fails: the operation and the buffer are deleted, the call returns -1.
SubmitFails(t) ==
    /\ pc[t] = "locking"
    /\ buffered <= 0
    /\ ~link
    /\ Return(t)
    /\ UNCHANGED <<connection, buffered, queue, inflight, unsent, lost, accepted, wire>>

\* IncreaseBufferedSendLength, outside the lock.
Account(t) ==
    /\ pc[t] = "accounting"
    /\ buffered' = buffered + Size[current[t]]
    /\ Return(t)
    /\ UNCHANGED <<connection, queue, inflight, unsent, lost, accepted, wire>>
-----------------------------------------------------------------------------
(* The worker threads: completion of a write, under LockSend.              *)

\* Mutations of ForceSend: the length is not added back; the message is read
\* without being dequeued; the newest message goes first.
ForceSendUncounted(t, done, n) ==
    /\ queue' = [queue EXCEPT ![t] = Tail(@)]
    /\ inflight' = (inflight \ {done}) \union {Head(queue[t])}
    /\ wire' = Append(wire, Head(queue[t]))
    /\ buffered' = n - Size[Head(queue[t])]
    /\ UNCHANGED lost
ForceSendPeek(t, done, n) ==
    /\ inflight' = (inflight \ {done}) \union {Head(queue[t])}
    /\ wire' = Append(wire, Head(queue[t]))
    /\ buffered' = n
    /\ UNCHANGED <<queue, lost>>
ForceSendNewest(t, done, n) ==
    LET m == queue[t][Len(queue[t])]
    IN  /\ queue' = [queue EXCEPT ![t] = SubSeq(@, 1, Len(@) - 1)]
        /\ inflight' = (inflight \ {done}) \union {m}
        /\ wire' = Append(wire, m)
        /\ buffered' = n
        /\ UNCHANGED lost

\* IssueClientWriteForceSend on the oldest message queued by thread t, whose
\* length leaves the counter and comes back once WSASend has accepted it.
ForceSend(t, done, n) ==
    LET m == Head(queue[t])
    IN  /\ queue' = [queue EXCEPT ![t] = Tail(@)]
        /\ IF sock /\ link
           THEN /\ inflight' = (inflight \ {done}) \union {m}
                /\ wire' = Append(wire, m)
                /\ buffered' = n
                /\ UNCHANGED lost
           ELSE /\ inflight' = inflight \ {done}
                /\ lost' = lost \union {m}
                /\ buffered' = n - Size[m]
                /\ UNCHANGED wire

\* Mutation of SendNext: the completion does not look at the queue.
SendNextNever(done, n, willing) ==
    /\ buffered' = n
    /\ inflight' = inflight \ {done}
    /\ UNCHANGED <<queue, lost, wire>>

\* One queued message is submitted if the counter says that data waits.  The
\* queue is FIFO per producing thread and picks among the threads freely.
SendNext(done, n, willing) ==
    \/ /\ n > 0 /\ willing
       /\ \E t \in Threads : queue[t] # <<>> /\ ForceSend(t, done, n)
    \/ /\ ~(n > 0 /\ willing /\ AnyQueued)
       /\ buffered' = n
       /\ inflight' = inflight \ {done}
       /\ UNCHANGED <<queue, lost, wire>>

\* dwNumReadWrite > 0: the transport took the whole message.
WriteCompleted(m) ==
    /\ m \in inflight
    /\ Size[m] > 0
    /\ SendNext(m, buffered - Size[m], TRUE)
    /\ UNCHANGED <<connection, pc, current, unsent, accepted>>

\* dwNumReadWrite = 0: the write was aborted, or the message was empty.
WriteZero(m) ==
    /\ m \in inflight
    /\ ~link \/ Size[m] = 0
    /\ SendNext(m, buffered - Size[m], sock /\ ~disconnected)
    /\ UNCHANGED <<connection, pc, current, unsent, accepted>>
-----------------------------------------------------------------------------
(* The end of the connection, as far as sending is concerned.              *)

\* The peer resets the connection, or DisconnectEx has been issued.
LinkDown ==
    /\ link
    /\ link' = FALSE
    /\ UNCHANGED <<sock, disconnected, buffered, queue, inflight, pc, current,
                   unsent, lost, accepted, wire>>

\* IssueClientDisconnectEx: DisconnectEx succeeded or is pending.
MarkDisconnected ==
    /\ ~link
    /\ ~disconnected
    /\ disconnected' = TRUE
    /\ UNCHANGED <<sock, link, buffered, queue, inflight, pc, current,
                   unsent, lost, accepted, wire>>

\* CloseSocket, from ReleaseClient or from the completion of DisconnectEx.
CloseSocket ==
    /\ sock
    /\ sock' = FALSE
    /\ link' = FALSE
    /\ UNCHANGED <<disconnected, buffered, queue, inflight, pc, current,
                   unsent, lost, accepted, wire>>

Sender(t) ==
    \/ Refuse(t) \/ Enqueue(t) \/ SubmitDirect(t) \/ SubmitFails(t)
    \/ Account(t)

Completion(m) == WriteCompleted(m) \/ WriteZero(m)

Next ==
    \/ \E t \in Threads : Sender(t) \/ \E m \in Messages : CallSend(t, m)
    \/ \E m \in Messages : Completion(m)
    \/ LinkDown \/ MarkDisconnected \/ CloseSocket

Spec == Init /\ [][Next]_vars

\* A thread inside IssueClientWrite runs on; a submitted write completes, as
\* long as the peer reads, and some worker takes its completion.
Fairness ==
    /\ \A t \in Threads : WF_vars(Sender(t))
    /\ \A m \in Messages : WF_vars(Completion(m))

FairSpec == Spec /\ Fairness
-----------------------------------------------------------------------------
TypeOK ==
    /\ sock \in BOOLEAN
    /\ link \in BOOLEAN
    /\ disconnected \in BOOLEAN
    /\ buffered \in Int
    /\ queue \in [Threads -> Seq(Messages)]
    /\ inflight \subseteq Messages
    /\ pc \in [Threads -> {"idle", "locking", "accounting"}]
    /\ current \in [Threads -> Messages \union {NoMessage}]
    /\ unsent \subseteq Messages
    /\ lost \subseteq Messages
    /\ accepted \in [Threads -> Seq(Messages)]
    /\ wire \in Seq(Messages)

\* The length a sender has submitted and not added to the counter yet.
Owed(t) == IF pc[t] = "accounting" THEN Size[current[t]] ELSE 0

\* The messages submitted or queued, and the bytes the server holds for them.
Held == inflight \union UNION {Queued(t) : t \in Threads}
Outstanding ==
    SumFunctionOnSet(Size, Held)

\* m_nBufferedSendDataLength is the number of bytes submitted or queued, short
\* of what senders past UnlockSend have yet to add: no completion, refusal,
\* failed submission or loss of the connection makes it drift.
Accounting ==
    buffered + SumFunction([t \in Threads |-> Owed(t)]) = Outstanding

\* The 1 MB test in IssueClientWrite bounds the bytes held for one client to
\* the limit and one message per sending thread, although the test precedes
\* the addition and direct sends are added late.
MemoryBound ==
    \A max \in {Size[m] : m \in Messages} :
        (\A m \in Messages : Size[m] <= max)
            => Outstanding < Limit + Cardinality(Threads) * max

\* No message is handed to the transport twice, and none is both queued and
\* already handed over: dequeue, copy and submission move it exactly once.
OnWireOnce ==
    /\ IsInjective(wire)
    /\ \A t \in Threads : IsInjective(queue[t]) /\ Queued(t) \cap Range(wire) = {}

\* A message SendClientData accepted is queued, was handed to the transport, or
\* was dropped by a failed IssueClientWriteForceSend, the last only once the
\* connection is down.
NoSilentLoss ==
    /\ \A t \in Threads : Range(accepted[t]) \subseteq Queued(t) \union Range(wire) \union lost
    /\ lost # {} => ~link

\* A sender submits directly, past non-empty messages still queued, only in
\* the window in which another sender owes its length to the counter.
OvertakesOnlyInWindow ==
    [][\A t \in Threads :
        /\ pc[t] = "locking" /\ pc'[t] = "accounting"
        /\ \E u \in Threads : \E m \in Queued(u) : Size[m] > 0
        => \E u \in Threads : u # t /\ pc[u] = "accounting"]_vars

\* "Data is buffered and will be sent later": a queued message is handed to the
\* transport unless the connection goes down.
QueuedIsSentLater ==
    \A m \in Messages :
        (m \in Queued(Owner[m])) ~> (m \in Range(wire) \/ ~link)

\* The messages of thread t among those of w, in the order of w.
PartOf(w, t) ==
    LET upTo[n \in 0 .. Len(w)] ==
            IF n = 0 THEN <<>>
            ELSE IF Owner[w[n]] = t THEN Append(upTo[n - 1], w[n])
            ELSE upTo[n - 1]
    IN  upTo[Len(w)]

\* A thread that sends alone on the client gets a FIFO channel.
Channel == INSTANCE SendChannel WITH sent <- [t \in Threads |-> PartOf(wire, t)]
IsChannel == Channel!Spec

=============================================================================
