-------------------------- MODULE ClientSend_proofs --------------------------
(***************************************************************************)
(* Proofs about ClientSend for every set of threads and messages, every    *)
(* length function and every limit: the model is well typed, no message    *)
(* reaches the transport twice, no accepted message disappears while the   *)
(* connection is up, the length counter is exact, the bytes held are       *)
(* bounded, overtaking needs the window, and the pipeline implements       *)
(* SendChannel for a thread that sends alone.                              *)
(***************************************************************************)
EXTENDS ClientSend, Induction, SequenceTheorems

(* Sequences seen as injective functions. *)

\* Appending adds one element to the range and keeps a sequence duplicate-free.
LEMMA AppendFacts ==
    ASSUME NEW S, NEW s \in Seq(S), NEW e \in S
    PROVE  /\ Range(Append(s, e)) = Range(s) \union {e}
           /\ IsInjective(s) /\ e \notin Range(s) => IsInjective(Append(s, e))
<1>1. /\ Append(s, e) \in Seq(S)
      /\ DOMAIN Append(s, e) = 1 .. Len(s) + 1
      /\ DOMAIN s = 1 .. Len(s)
      /\ Len(s) \in Nat
  OBVIOUS
<1>2. /\ \A i \in 1 .. Len(s) : Append(s, e)[i] = s[i]
      /\ Append(s, e)[Len(s) + 1] = e
  OBVIOUS
<1>3. Range(Append(s, e)) = Range(s) \union {e}
  <2>1. Range(Append(s, e)) \subseteq Range(s) \union {e}
    BY <1>1, <1>2 DEF Range
  <2>2. Range(s) \subseteq Range(Append(s, e))
    BY <1>1, <1>2 DEF Range
  <2>3. e \in Range(Append(s, e))
    BY <1>1, <1>2 DEF Range
  <2> QED BY <2>1, <2>2, <2>3
<1>4. IsInjective(s) /\ e \notin Range(s) => IsInjective(Append(s, e))
  BY <1>1, <1>2 DEF IsInjective, Range
<1> QED BY <1>3, <1>4

\* Removing the head of a duplicate-free sequence removes exactly that element.
LEMMA TailFacts ==
    ASSUME NEW S, NEW s \in Seq(S), s # <<>>
    PROVE  /\ Head(s) \in S
           /\ Tail(s) \in Seq(S)
           /\ Range(s) = {Head(s)} \union Range(Tail(s))
           /\ IsInjective(s) => IsInjective(Tail(s)) /\ Head(s) \notin Range(Tail(s))
<1>1. /\ Len(s) \in Nat \ {0}
      /\ DOMAIN s = 1 .. Len(s)
      /\ Tail(s) \in Seq(S)
      /\ Len(Tail(s)) = Len(s) - 1
      /\ DOMAIN Tail(s) = 1 .. Len(s) - 1
      /\ Head(s) = s[1]
      /\ Head(s) \in S
  OBVIOUS
<1>2. \A i \in 1 .. Len(s) - 1 : Tail(s)[i] = s[i + 1]
  BY <1>1
<1>3. Range(s) = {Head(s)} \union Range(Tail(s))
  <2>1. ASSUME NEW i \in 1 .. Len(s)
        PROVE  s[i] \in {Head(s)} \union Range(Tail(s))
    <3>1. CASE i = 1
      BY <3>1, <1>1
    <3>2. CASE i # 1
      <4>1. i - 1 \in 1 .. Len(s) - 1 /\ Tail(s)[i - 1] = s[i]
        BY <3>2, <1>1, <1>2
      <4> QED BY <4>1, <1>1 DEF Range
    <3> QED BY <3>1, <3>2
  <2>2. ASSUME NEW i \in 1 .. Len(s) - 1
        PROVE  Tail(s)[i] \in Range(s)
    <3>1. i + 1 \in 1 .. Len(s)
      BY <1>1
    <3> QED BY <3>1, <1>1, <1>2 DEF Range
  <2>3. Head(s) \in Range(s)
    BY <1>1 DEF Range
  <2> QED BY <2>1, <2>2, <2>3, <1>1 DEF Range
<1>4. ASSUME IsInjective(s)
      PROVE  IsInjective(Tail(s)) /\ Head(s) \notin Range(Tail(s))
  <2>1. ASSUME NEW i \in 1 .. Len(s) - 1, NEW j \in 1 .. Len(s) - 1,
               Tail(s)[i] = Tail(s)[j]
        PROVE  i = j
    <3>1. i + 1 \in 1 .. Len(s) /\ j + 1 \in 1 .. Len(s)
      BY <1>1
    <3>2. s[i + 1] = s[j + 1]
      BY <2>1, <1>2
    <3>3. i + 1 = j + 1
      BY <3>1, <3>2, <1>4, <1>1 DEF IsInjective
    <3> QED BY <3>3
  <2>2. ASSUME NEW i \in 1 .. Len(s) - 1
        PROVE  Tail(s)[i] # s[1]
    <3>1. i + 1 \in 1 .. Len(s) /\ 1 \in 1 .. Len(s) /\ i + 1 # 1
      BY <1>1
    <3> QED BY <3>1, <1>1, <1>2, <1>4 DEF IsInjective
  <2> QED BY <2>1, <2>2, <1>1 DEF IsInjective, Range
<1> QED BY <1>1, <1>3, <1>4
-----------------------------------------------------------------------------
USE ThreadsAssumption, OwnerAssumption, SizeAssumption, LimitAssumption, NoMessageAssumption

\* A thread inside IssueClientWrite has a message of its own.
HasMessage ==
    \A t \in Threads : pc[t] # "idle" =>
        /\ current[t] \in Messages
        /\ Owner[current[t]] = t
        /\ current[t] \notin unsent

\* Type correctness needs it: what Enqueue appends is a message.
Typed == TypeOK /\ HasMessage

LEMMA InitTyped == Init => Typed
<1> SUFFICES ASSUME Init PROVE Typed
  OBVIOUS
<1>1. TypeOK
  <2>1. <<>> \in Seq(Messages)
    OBVIOUS
  <2>2. /\ queue \in [Threads -> Seq(Messages)]
        /\ accepted \in [Threads -> Seq(Messages)]
        /\ wire \in Seq(Messages)
    BY <2>1 DEF Init
  <2>3. /\ pc \in [Threads -> {"idle", "locking", "accounting"}]
        /\ current \in [Threads -> Messages \union {NoMessage}]
    BY DEF Init
  <2>4. sock \in BOOLEAN /\ link \in BOOLEAN /\ disconnected \in BOOLEAN
    BY Zenon DEF Init
  <2>5. /\ buffered \in Int
        /\ inflight \subseteq Messages /\ unsent \subseteq Messages /\ lost \subseteq Messages
    BY DEF Init
  <2> QED BY <2>2, <2>3, <2>4, <2>5, Zenon DEF TypeOK
<1>2. HasMessage
  BY DEF Init, HasMessage
<1> QED BY <1>1, <1>2 DEF Typed

\* The two outcomes of a completion, whatever the counter says.
LEMMA SendNextTyped ==
    ASSUME Typed, NEW done \in inflight, NEW n \in Int, NEW willing \in BOOLEAN,
           SendNext(done, n, willing)
    PROVE  /\ buffered' \in Int
           /\ queue' \in [Threads -> Seq(Messages)]
           /\ inflight' \subseteq Messages
           /\ lost' \subseteq Messages
           /\ wire' \in Seq(Messages)
<1> USE DEF Typed, TypeOK
<1>1. CASE \E t \in Threads : queue[t] # <<>> /\ ForceSend(t, done, n)
  <2>1. PICK t \in Threads : queue[t] # <<>> /\ ForceSend(t, done, n)
    BY <1>1
  <2>2. Head(queue[t]) \in Messages /\ Tail(queue[t]) \in Seq(Messages)
    BY <2>1
  <2>3. Size[Head(queue[t])] \in Nat
    BY <2>2
  <2>4. queue' \in [Threads -> Seq(Messages)]
    BY <2>1, <2>2 DEF ForceSend
  <2>5. buffered' \in Int
    BY <2>1, <2>3 DEF ForceSend
  <2>6. inflight' \subseteq Messages /\ lost' \subseteq Messages /\ wire' \in Seq(Messages)
    <3>1. CASE sock /\ link
      <4>1. /\ inflight' = (inflight \ {done}) \union {Head(queue[t])}
            /\ wire' = Append(wire, Head(queue[t]))
            /\ lost' = lost
        BY <3>1, <2>1 DEF ForceSend
      <4> QED BY <4>1, <2>2
    <3>2. CASE ~(sock /\ link)
      BY <3>2, <2>1, <2>2 DEF ForceSend
    <3> QED BY <3>1, <3>2
  <2> QED BY <2>4, <2>5, <2>6
<1>2. CASE ~(n > 0 /\ willing /\ AnyQueued)
  <2>1. UNCHANGED <<queue, lost, wire>> /\ buffered' = n /\ inflight' = inflight \ {done}
    BY <1>2 DEF SendNext, AnyQueued
  <2> QED BY <2>1, <1>1
<1> QED BY <1>1, <1>2 DEF SendNext

LEMMA NextTyped == Typed /\ [Next]_vars => Typed'
<1> SUFFICES ASSUME Typed, [Next]_vars PROVE Typed'
  OBVIOUS
<1> USE DEF Typed, TypeOK, HasMessage, connection
<1>1. ASSUME NEW t \in Threads, NEW m \in Messages, CallSend(t, m)
      PROVE  Typed'
  <2>1. CASE sock
    <3>1. /\ pc' = [pc EXCEPT ![t] = "locking"]
          /\ current' = [current EXCEPT ![t] = m]
          /\ unsent' = unsent \ {m} /\ Owner[m] = t /\ m \in unsent
      BY <1>1, <2>1 DEF CallSend
    <3>2. HasMessage'
      BY <3>1
    <3> QED BY <1>1, <3>1, <3>2 DEF CallSend
  <2>2. CASE ~sock
    <3>1. UNCHANGED <<pc, current>> /\ unsent' = unsent \ {m}
      BY <1>1, <2>2 DEF CallSend
    <3> QED BY <1>1, <3>1 DEF CallSend
  <2> QED BY <2>1, <2>2
<1>2. ASSUME NEW t \in Threads, Refuse(t) PROVE Typed'
  BY <1>2 DEF Refuse, Return
<1>3. ASSUME NEW t \in Threads, Enqueue(t) PROVE Typed'
  <2>1. current[t] \in Messages /\ Size[current[t]] \in Nat
    BY <1>3 DEF Enqueue
  <2> QED BY <1>3, <2>1 DEF Enqueue, Return
<1>4. ASSUME NEW t \in Threads, SubmitDirect(t) PROVE Typed'
  <2>1. current[t] \in Messages
    BY <1>4 DEF SubmitDirect
  <2>2. /\ inflight' \subseteq Messages
        /\ wire' \in Seq(Messages)
        /\ accepted' \in [Threads -> Seq(Messages)]
    BY <1>4, <2>1 DEF SubmitDirect
  <2>3. HasMessage'
    BY <1>4 DEF SubmitDirect
  <2> QED BY <1>4, <2>2, <2>3 DEF SubmitDirect
<1>5. ASSUME NEW t \in Threads, SubmitFails(t) PROVE Typed'
  BY <1>5 DEF SubmitFails, Return
<1>6. ASSUME NEW t \in Threads, Account(t) PROVE Typed'
  <2>1. Size[current[t]] \in Nat
    BY <1>6 DEF Account
  <2> QED BY <1>6, <2>1 DEF Account, Return
<1>7. ASSUME NEW m \in Messages, Completion(m) PROVE Typed'
  <2>1. m \in inflight /\ UNCHANGED <<connection, pc, current, unsent, accepted>>
    BY <1>7 DEF Completion, WriteCompleted, WriteZero
  <2>2. buffered - Size[m] \in Int
    OBVIOUS
  <2>3. PICK willing \in BOOLEAN : SendNext(m, buffered - Size[m], willing)
    BY <1>7 DEF Completion, WriteCompleted, WriteZero
  <2> QED BY <2>1, <2>2, <2>3, SendNextTyped
<1>8. ASSUME LinkDown \/ MarkDisconnected \/ CloseSocket PROVE Typed'
  BY <1>8 DEF LinkDown, MarkDisconnected, CloseSocket
<1>9. CASE UNCHANGED vars
  BY <1>9 DEF vars
<1> QED
  BY <1>1, <1>2, <1>3, <1>4, <1>5, <1>6, <1>7, <1>8, <1>9 DEF Next, Sender

\* The variables of the send pipeline keep their types, for every instance.
THEOREM TypeCorrect == Spec => []TypeOK
<1>1. Spec => []Typed
  BY InitTyped, NextTyped, PTL DEF Spec
<1>2. Typed => TypeOK
  BY DEF Typed
<1> QED BY <1>1, <1>2, PTL
-----------------------------------------------------------------------------
(* A message is in one place.                                              *)

\* What OnWireOnce needs to be inductive: queued messages belong to the thread
\* whose FIFO they are in, and a message about to be queued or submitted is
\* nowhere yet.
Fresh ==
    /\ \A t \in Threads : \A m \in Queued(t) : Owner[m] = t /\ m \notin unsent
    /\ \A m \in Range(wire) : m \notin unsent
    /\ \A t \in Threads : pc[t] = "locking" =>
           current[t] \notin Queued(t) /\ current[t] \notin Range(wire)

\* What NoSilentLoss needs: a submission that fails because the socket is closed
\* fails on a connection that is down.
OpenWhileUp == link => sock

\* The inductive invariant.
IInv == Typed /\ Fresh /\ OpenWhileUp /\ OnWireOnce /\ NoSilentLoss

\* A completion moves the head of one FIFO, or moves nothing.
LEMMA SendNextCases ==
    ASSUME NEW done, NEW n, NEW willing, SendNext(done, n, willing)
    PROVE  \/ \E t \in Threads : queue[t] # <<>> /\ ForceSend(t, done, n)
           \/ UNCHANGED <<queue, lost, wire>>
BY DEF SendNext

LEMMA InitIInv == Init => IInv
<1> SUFFICES ASSUME Init PROVE IInv
  OBVIOUS
<1>1. Range(<<>>) = {} /\ IsInjective(<<>>)
  BY DEF Range, IsInjective
<1>2. \A t \in Threads : queue[t] = <<>> /\ accepted[t] = <<>> /\ pc[t] = "idle"
  BY DEF Init
<1>3. wire = <<>> /\ lost = {}
  BY DEF Init
<1>4. Fresh /\ OnWireOnce /\ NoSilentLoss
  BY <1>1, <1>2, <1>3 DEF Fresh, OnWireOnce, NoSilentLoss, Queued
<1>5. OpenWhileUp
  BY DEF Init, OpenWhileUp
<1> QED BY <1>4, <1>5, InitTyped DEF IInv

\* Sending a new message: it comes from unsent, so it is nowhere.
LEMMA CallSendIInv ==
    ASSUME IInv, NEW t \in Threads, NEW m \in Messages, CallSend(t, m)
    PROVE  Fresh' /\ OnWireOnce' /\ NoSilentLoss'
<1> USE DEF IInv, Typed, TypeOK
<1>1. UNCHANGED <<queue, wire, lost, accepted, link>> /\ unsent' = unsent \ {m}
  BY DEF CallSend, connection
<1>2. m \notin Range(wire) /\ m \notin Queued(t)
  BY DEF CallSend, Fresh
<1>3. \A u \in Threads : pc'[u] = "locking" =>
          \/ pc[u] = "locking" /\ current'[u] = current[u]
          \/ u = t /\ current'[u] = m
  <2>1. CASE sock
    BY <2>1 DEF CallSend
  <2>2. CASE ~sock
    BY <2>2 DEF CallSend
  <2> QED BY <2>1, <2>2
<1>4. Fresh'
  BY <1>1, <1>2, <1>3 DEF Fresh, Queued
<1> QED BY <1>1, <1>4 DEF OnWireOnce, NoSilentLoss, Queued

LEMMA EnqueueIInv ==
    ASSUME IInv, NEW t \in Threads, Enqueue(t)
    PROVE  Fresh' /\ OnWireOnce' /\ NoSilentLoss'
<1> USE DEF IInv, Typed, TypeOK
<1> DEFINE m == current[t]
<1>1. /\ m \in Messages /\ Owner[m] = t /\ m \notin unsent
      /\ m \notin Queued(t) /\ m \notin Range(wire)
  BY DEF Enqueue, HasMessage, Fresh
<1>2. /\ queue' = [queue EXCEPT ![t] = Append(@, m)]
      /\ accepted' = [accepted EXCEPT ![t] = Append(@, m)]
      /\ UNCHANGED <<wire, lost, unsent, link>>
      /\ \A u \in Threads : pc'[u] = "locking" =>
             u # t /\ pc[u] = "locking" /\ current'[u] = current[u]
  BY DEF Enqueue, Return, connection
<1>3. /\ Range(Append(queue[t], m)) = Queued(t) \union {m}
      /\ Range(Append(accepted[t], m)) = Range(accepted[t]) \union {m}
      /\ IsInjective(queue[t]) => IsInjective(Append(queue[t], m))
  BY <1>1, AppendFacts DEF Queued
<1>4. /\ Queued(t)' = Queued(t) \union {m}
      /\ Range(accepted'[t]) = Range(accepted[t]) \union {m}
      /\ \A u \in Threads \ {t} : queue'[u] = queue[u] /\ accepted'[u] = accepted[u]
  BY <1>2, <1>3 DEF Queued
<1>5. \A u \in Threads \ {t} : Queued(u)' = Queued(u)
  BY <1>4 DEF Queued
<1>6. Fresh'
  <2>1. ASSUME NEW u \in Threads, NEW x \in Queued(u)' PROVE Owner[x] = u /\ x \notin unsent'
    <3>1. CASE u = t
      BY <3>1, <2>1, <1>1, <1>2, <1>4 DEF Fresh
    <3>2. CASE u # t
      BY <3>2, <2>1, <1>2, <1>5 DEF Fresh
    <3> QED BY <3>1, <3>2
  <2>2. \A x \in Range(wire)' : x \notin unsent'
    BY <1>2 DEF Fresh
  <2>3. ASSUME NEW u \in Threads, pc'[u] = "locking"
        PROVE  current'[u] \notin Queued(u)' /\ current'[u] \notin Range(wire)'
    BY <2>3, <1>2, <1>5 DEF Fresh
  <2> QED BY <2>1, <2>2, <2>3 DEF Fresh
<1>7. OnWireOnce'
  <2>1. queue'[t] = Append(queue[t], m)
    BY <1>2
  <2>2. ASSUME NEW u \in Threads PROVE IsInjective(queue'[u])
    <3>1. CASE u = t
      BY <3>1, <2>1, <1>3 DEF OnWireOnce
    <3>2. CASE u # t
      BY <3>2, <1>4 DEF OnWireOnce
    <3> QED BY <3>1, <3>2
  <2>3. ASSUME NEW u \in Threads PROVE Queued(u)' \cap Range(wire') = {}
    <3>1. CASE u = t
      BY <3>1, <1>1, <1>2, <1>4 DEF OnWireOnce
    <3>2. CASE u # t
      BY <3>2, <1>2, <1>5 DEF OnWireOnce
    <3> QED BY <3>1, <3>2
  <2> QED BY <1>2, <2>2, <2>3 DEF OnWireOnce
<1>8. NoSilentLoss'
  BY <1>2, <1>4, <1>5 DEF NoSilentLoss
<1> QED BY <1>6, <1>7, <1>8

LEMMA SubmitDirectIInv ==
    ASSUME IInv, NEW t \in Threads, SubmitDirect(t)
    PROVE  Fresh' /\ OnWireOnce' /\ NoSilentLoss'
<1> USE DEF IInv, Typed, TypeOK
<1> DEFINE m == current[t]
<1>1. /\ m \in Messages /\ Owner[m] = t /\ m \notin unsent
      /\ m \notin Queued(t) /\ m \notin Range(wire)
  BY DEF SubmitDirect, HasMessage, Fresh
<1>2. /\ wire' = Append(wire, m)
      /\ accepted' = [accepted EXCEPT ![t] = Append(@, m)]
      /\ UNCHANGED <<queue, lost, unsent, link, current>>
      /\ \A u \in Threads : pc'[u] = "locking" => u # t /\ pc[u] = "locking"
  BY DEF SubmitDirect, connection
<1>3. /\ Range(wire') = Range(wire) \union {m}
      /\ IsInjective(wire) => IsInjective(wire')
      /\ Range(Append(accepted[t], m)) = Range(accepted[t]) \union {m}
  BY <1>1, <1>2, AppendFacts
<1>4. /\ Range(accepted'[t]) = Range(accepted[t]) \union {m}
      /\ \A u \in Threads \ {t} : accepted'[u] = accepted[u]
      /\ \A u \in Threads : Queued(u)' = Queued(u)
  BY <1>2, <1>3 DEF Queued
<1>5. \A u \in Threads : m \notin Queued(u)
  BY <1>1 DEF Fresh
<1>6. \A u \in Threads : pc'[u] = "locking" => current[u] # m
  BY <1>1, <1>2 DEF HasMessage
<1>7. Fresh'
  BY <1>1, <1>2, <1>3, <1>4, <1>6 DEF Fresh
<1>8. OnWireOnce'
  BY <1>2, <1>3, <1>4, <1>5 DEF OnWireOnce
<1>9. NoSilentLoss'
  BY <1>2, <1>3, <1>4 DEF NoSilentLoss
<1> QED BY <1>7, <1>8, <1>9

\* IssueClientWriteForceSend moves the head of one FIFO to the transport or,
\* when the connection is down, drops it.
LEMMA ForceSendIInv ==
    ASSUME IInv, NEW t \in Threads, queue[t] # <<>>,
           NEW done, NEW n, ForceSend(t, done, n),
           UNCHANGED <<connection, pc, current, unsent, accepted>>
    PROVE  Fresh' /\ OnWireOnce' /\ NoSilentLoss'
<1> USE DEF IInv, Typed, TypeOK
<1> DEFINE m == Head(queue[t])
<1>1. /\ m \in Messages
      /\ queue' = [queue EXCEPT ![t] = Tail(@)]
      /\ Queued(t) = {m} \union Range(Tail(queue[t]))
      /\ IsInjective(Tail(queue[t])) /\ m \notin Range(Tail(queue[t]))
  <2>1. queue[t] \in Seq(Messages) /\ IsInjective(queue[t])
    BY DEF OnWireOnce
  <2> QED BY <2>1, TailFacts DEF ForceSend, Queued
<1>2. /\ queue'[t] = Tail(queue[t])
      /\ \A u \in Threads \ {t} : queue'[u] = queue[u]
      /\ Queued(t)' = Queued(t) \ {m}
      /\ \A u \in Threads \ {t} : Queued(u)' = Queued(u)
  BY <1>1 DEF Queued
<1>3. /\ m \in Queued(t) /\ Owner[m] = t /\ m \notin unsent /\ m \notin Range(wire)
      /\ \A u \in Threads : pc[u] = "locking" => current[u] # m
  <2>1. m \in Queued(t) /\ Owner[m] = t /\ m \notin unsent /\ m \notin Range(wire)
    BY <1>1 DEF Fresh, OnWireOnce
  <2>2. ASSUME NEW u \in Threads, pc[u] = "locking" PROVE current[u] # m
    <3>1. Owner[current[u]] = u /\ current[u] \notin Queued(u)
      BY <2>2 DEF Fresh, HasMessage
    <3> QED BY <2>1, <3>1
  <2> QED BY <2>1, <2>2
<1>4. \A u \in Threads : Queued(u)' \subseteq Queued(u) \ {m} /\ IsInjective(queue'[u])
  <2>1. ASSUME NEW u \in Threads, u # t
        PROVE  Queued(u)' \subseteq Queued(u) \ {m} /\ IsInjective(queue'[u])
    BY <2>1, <1>2, <1>3 DEF Fresh, OnWireOnce
  <2>2. Queued(t)' \subseteq Queued(t) \ {m} /\ IsInjective(queue'[t])
    BY <1>1, <1>2
  <2> QED BY <2>1, <2>2
<1>5. \A u \in Threads : Queued(u) \subseteq Queued(u)' \union {m}
  BY <1>2
<1>6. UNCHANGED <<pc, current, unsent, accepted, link>>
  BY DEF connection
<1>7. CASE sock /\ link
  <2>1. wire' = Append(wire, m) /\ lost' = lost
    BY <1>7 DEF ForceSend
  <2>2. Range(wire') = Range(wire) \union {m} /\ IsInjective(wire')
    BY <2>1, <1>1, <1>3, AppendFacts DEF OnWireOnce
  <2>3. Fresh'
    BY <2>2, <1>3, <1>4, <1>6 DEF Fresh
  <2>4. OnWireOnce'
    BY <2>2, <1>4 DEF OnWireOnce
  <2>5. NoSilentLoss'
    BY <2>1, <2>2, <1>5, <1>6 DEF NoSilentLoss
  <2> QED BY <2>3, <2>4, <2>5
<1>8. CASE ~(sock /\ link)
  <2>1. wire' = wire /\ lost' = lost \union {m}
    BY <1>8 DEF ForceSend
  <2>2. Fresh'
    BY <2>1, <1>4, <1>6 DEF Fresh
  <2>3. OnWireOnce'
    BY <2>1, <1>4 DEF OnWireOnce
  <2>4. ~link'
    BY <1>8, <1>6 DEF OpenWhileUp
  <2>5. NoSilentLoss'
    BY <2>1, <2>4, <1>5, <1>6 DEF NoSilentLoss
  <2> QED BY <2>2, <2>3, <2>5
<1> QED BY <1>7, <1>8

\* Steps that move no message.
LEMMA QuietIInv ==
    ASSUME IInv,
           UNCHANGED <<queue, wire, lost, accepted, unsent>>,
           ~link => ~link',
           \A t \in Threads :
               pc'[t] = "locking" => pc[t] = "locking" /\ current'[t] = current[t]
    PROVE  Fresh' /\ OnWireOnce' /\ NoSilentLoss'
<1>1. \A t \in Threads : Queued(t)' = Queued(t)
  BY DEF Queued
<1> QED BY <1>1 DEF IInv, Fresh, OnWireOnce, NoSilentLoss

\* Only CloseSocket closes the socket, and the connection with it.
LEMMA NextOpenWhileUp == OpenWhileUp /\ [Next]_vars => OpenWhileUp'
<1> SUFFICES ASSUME OpenWhileUp, [Next]_vars PROVE OpenWhileUp'
  OBVIOUS
<1>1. \/ UNCHANGED sock /\ (link' => link)
      \/ ~link'
  BY DEF Next, Sender, Completion, CallSend, Refuse, Enqueue, SubmitDirect, SubmitFails,
         Account, WriteCompleted, WriteZero, LinkDown, MarkDisconnected, CloseSocket,
         connection, vars
<1> QED BY <1>1 DEF OpenWhileUp

LEMMA NextIInv == IInv /\ [Next]_vars => IInv'
<1> SUFFICES ASSUME IInv, [Next]_vars PROVE Fresh' /\ OnWireOnce' /\ NoSilentLoss'
  BY NextTyped, NextOpenWhileUp DEF IInv
<1>1. ASSUME NEW t \in Threads, NEW m \in Messages, CallSend(t, m)
      PROVE  Fresh' /\ OnWireOnce' /\ NoSilentLoss'
  BY <1>1, CallSendIInv
<1>2. ASSUME NEW t \in Threads, Refuse(t) \/ SubmitFails(t) \/ Account(t)
      PROVE  Fresh' /\ OnWireOnce' /\ NoSilentLoss'
  <2>1. pc' = [pc EXCEPT ![t] = "idle"] /\ current' = [current EXCEPT ![t] = NoMessage]
    BY <1>2 DEF Refuse, SubmitFails, Account, Return
  <2>2. UNCHANGED <<queue, wire, lost, accepted, unsent, link>>
    BY <1>2 DEF Refuse, SubmitFails, Account, connection
  <2>3. \A u \in Threads :
            pc'[u] = "locking" => pc[u] = "locking" /\ current'[u] = current[u]
    BY <2>1 DEF IInv, Typed, TypeOK
  <2> QED BY <2>2, <2>3, QuietIInv
<1>3. ASSUME NEW t \in Threads, Enqueue(t)
      PROVE  Fresh' /\ OnWireOnce' /\ NoSilentLoss'
  BY <1>3, EnqueueIInv
<1>4. ASSUME NEW t \in Threads, SubmitDirect(t)
      PROVE  Fresh' /\ OnWireOnce' /\ NoSilentLoss'
  BY <1>4, SubmitDirectIInv
<1>5. ASSUME NEW m \in Messages, Completion(m)
      PROVE  Fresh' /\ OnWireOnce' /\ NoSilentLoss'
  <2>1. UNCHANGED <<connection, pc, current, unsent, accepted>>
    BY <1>5 DEF Completion, WriteCompleted, WriteZero
  <2>2. PICK willing : SendNext(m, buffered - Size[m], willing)
    BY <1>5 DEF Completion, WriteCompleted, WriteZero
  <2>3. CASE \E t \in Threads : queue[t] # <<>> /\ ForceSend(t, m, buffered - Size[m])
    BY <2>1, <2>3, ForceSendIInv
  <2>4. CASE UNCHANGED <<queue, lost, wire>>
    <3>1. UNCHANGED link
      BY <2>1 DEF connection
    <3> QED BY <3>1, <2>1, <2>4, QuietIInv
  <2> QED BY <2>2, <2>3, <2>4, SendNextCases
<1>6. CASE LinkDown \/ MarkDisconnected \/ CloseSocket \/ UNCHANGED vars
  BY <1>6, QuietIInv DEF LinkDown, MarkDisconnected, CloseSocket, vars
<1> QED
  BY <1>1, <1>2, <1>3, <1>4, <1>5, <1>6 DEF Next, Sender

\* No message is handed to the transport twice, nor queued and handed over, for
\* any threads, messages, lengths and limit.
THEOREM MessageSentOnce == Spec => []OnWireOnce
<1>1. Spec => []IInv
  BY InitIInv, NextIInv, PTL DEF Spec
<1>2. IInv => OnWireOnce
  BY DEF IInv
<1> QED BY <1>1, <1>2, PTL

\* What SendClientData accepted is queued or was handed to the transport, unless
\* the connection went down.
THEOREM AcceptedIsKept == Spec => []NoSilentLoss
<1>1. Spec => []IInv
  BY InitIInv, NextIInv, PTL DEF Spec
<1>2. IInv => NoSilentLoss
  BY DEF IInv
<1> QED BY <1>1, <1>2, PTL
-----------------------------------------------------------------------------
(* The length counter.                                                     *)

\* What each thread owes to the counter, as Accounting sums it.
Owes == [t \in Threads |-> Owed(t)]

\* What Accounting needs to be inductive: the messages held are finitely many,
\* and a write in flight was handed over, so it is in no queue.
HeldOnce ==
    /\ IsFiniteSet(Held)
    /\ inflight \subseteq Range(wire)

AccInv == IInv /\ HeldOnce /\ Accounting

\* What is owed is a length.
LEMMA OwedType == Typed => \A t \in Threads : Owed(t) \in Nat
BY DEF Typed, TypeOK, HasMessage, Owed

\* The sum of what is owed is a natural number, zero if no sender is past
\* UnlockSend.
LEMMA OwesSum ==
    ASSUME Typed
    PROVE  /\ SumFunction(Owes) = SumFunctionOnSet(Owes, Threads)
           /\ SumFunction(Owes) \in Nat
           /\ (\A t \in Threads : pc[t] # "accounting") => SumFunction(Owes) = 0
<1>1. DOMAIN Owes = Threads /\ \A t \in Threads : Owes[t] = Owed(t)
  BY DEF Owes
<1>2. SumFunction(Owes) = SumFunctionOnSet(Owes, Threads)
  BY <1>1 DEF SumFunction
<1>3. \A t \in Threads : Owes[t] \in Nat
  BY <1>1, OwedType
<1> HIDE DEF Owes
<1>4. SumFunction(Owes) \in Nat
  BY <1>2, <1>3, SumNat
<1>5. ASSUME \A t \in Threads : pc[t] # "accounting" PROVE SumFunction(Owes) = 0
  <2>1. \A t \in Threads : Owes[t] = 0
    BY <1>1, <1>5 DEF Owed
  <2> QED BY <1>2, <2>1, SumZero
<1> QED BY <1>2, <1>4, <1>5

\* Only what thread t owes changes.
LEMMA OwesUpdate ==
    ASSUME Typed, Typed', NEW t \in Threads,
           \A u \in Threads \ {t} : Owed(u)' = Owed(u)
    PROVE  SumFunction(Owes)' = SumFunction(Owes) - Owed(t) + Owed(t)'
<1> DEFINE f == Owes
           g == Owes'
<1>1. /\ SumFunction(f) = SumFunctionOnSet(f, Threads)
      /\ SumFunction(g) = SumFunctionOnSet(g, Threads)
  BY DEF SumFunction, Owes
<1>2. \A u \in Threads : f[u] = Owed(u) /\ g[u] = Owed(u)'
  BY DEF Owes
<1>3. \A u \in Threads : Owed(u) \in Nat /\ Owed(u)' \in Nat
  BY DEF Typed, TypeOK, HasMessage, Owed
<1>4. \A u \in Threads : f[u] \in Int /\ g[u] \in Int
  BY <1>2, <1>3
<1> HIDE DEF f, g
<1>5. SumFunctionOnSet(g, Threads) = SumFunctionOnSet(f, Threads) - f[t] + g[t]
  BY <1>2, <1>4, SumUpdate
<1> QED BY <1>1, <1>2, <1>5 DEF f, g

\* The messages held in a later state, from those of the threads' queues.
LEMMA HeldIn ==
    \A m : m \in Held <=> m \in inflight \/ \E t \in Threads : m \in Queued(t)
BY DEF Held

\* What is held are messages with lengths.
LEMMA HeldTyped == IInv => Held \subseteq Messages /\ \A m \in Held : Size[m] \in Nat
<1> SUFFICES ASSUME IInv PROVE Held \subseteq Messages
  OBVIOUS
<1>1. \A t \in Threads : Queued(t) \subseteq Messages
  BY DEF IInv, Typed, TypeOK, Queued, Range
<1> QED BY <1>1 DEF IInv, Typed, TypeOK, Held

\* The bytes held are a natural number.
LEMMA OutstandingType == IInv /\ HeldOnce => Outstanding \in Nat
BY HeldTyped, SumNat DEF HeldOnce, Outstanding

\* A non-empty message that is held counts.
LEMMA HeldIsCounted ==
    ASSUME IInv, HeldOnce, NEW m \in Held, Size[m] > 0
    PROVE  Outstanding > 0
<1>1. IsFiniteSet(Held) /\ \A x \in Held : Size[x] \in Nat
  BY HeldTyped DEF HeldOnce
<1>2. Outstanding = Size[m] + SumFunctionOnSet(Size, Held \ {m})
  BY <1>1, SumRemove DEF Outstanding
<1>3. SumFunctionOnSet(Size, Held \ {m}) \in Nat
  BY <1>1, SumNat, FS_RemoveElement
<1> QED BY <1>1, <1>2, <1>3

\* A message that was held nowhere is taken.
LEMMA HeldGrows ==
    ASSUME IInv, HeldOnce, NEW m \in Messages, m \notin Held, Held' = Held \union {m}
    PROVE  IsFiniteSet(Held') /\ Outstanding' = Outstanding + Size[m]
<1>1. IsFiniteSet(Held) /\ \A x \in Held : Size[x] \in Int
  BY HeldTyped DEF HeldOnce
<1>2. IsFiniteSet(Held')
  BY <1>1, FS_AddElement
<1>3. Size[m] \in Int
  OBVIOUS
<1> QED BY <1>1, <1>2, <1>3, SumAdd DEF Outstanding

\* A held message is done with.
LEMMA HeldShrinks ==
    ASSUME NEW H, IsFiniteSet(H), H \subseteq Messages, NEW m \in H
    PROVE  /\ IsFiniteSet(H \ {m})
           /\ SumFunctionOnSet(Size, H \ {m}) = SumFunctionOnSet(Size, H) - Size[m]
           /\ SumFunctionOnSet(Size, H) \in Int
<1>1. \A x \in H : Size[x] \in Int
  OBVIOUS
<1>2. IsFiniteSet(H \ {m}) /\ \A x \in H \ {m} : Size[x] \in Int
  BY <1>1, FS_RemoveElement
<1>3. SumFunctionOnSet(Size, H) = Size[m] + SumFunctionOnSet(Size, H \ {m})
  BY <1>1, SumRemove
<1>4. SumFunctionOnSet(Size, H \ {m}) \in Int
  BY <1>2, SumType
<1> QED BY <1>1, <1>2, <1>3, <1>4

\* A message in a sender's hands is not held yet.
LEMMA NotHeldYet ==
    ASSUME IInv, HeldOnce, NEW t \in Threads, pc[t] = "locking"
    PROVE  current[t] \in Messages \ Held
<1>1. /\ current[t] \in Messages /\ Owner[current[t]] = t
      /\ current[t] \notin Queued(t) /\ current[t] \notin Range(wire)
  BY DEF IInv, Typed, HasMessage, Fresh
<1>2. \A u \in Threads : current[t] \notin Queued(u)
  BY <1>1 DEF IInv, Fresh
<1> QED BY <1>1, <1>2, HeldIn DEF HeldOnce

\* Steps that move no message and change nothing that is owed.
LEMMA QuietAccounting ==
    ASSUME AccInv, Typed', UNCHANGED <<queue, inflight, wire, buffered>>,
           \A t \in Threads : Owed(t)' = Owed(t)
    PROVE  HeldOnce' /\ Accounting'
<1>1. Held' = Held
  BY DEF Held, Queued
<1>2. Owes' = Owes
  BY DEF Owes
<1>3. Outstanding' = Outstanding /\ SumFunction(Owes)' = SumFunction(Owes)
  BY <1>1, <1>2 DEF Outstanding
<1> QED BY <1>1, <1>3 DEF AccInv, HeldOnce, Accounting, Owes

LEMMA EnqueueAccounting ==
    ASSUME AccInv, Typed', NEW t \in Threads, Enqueue(t)
    PROVE  HeldOnce' /\ Accounting'
<1> DEFINE m == current[t]
<1>1. m \in Messages \ Held
  BY NotHeldYet DEF AccInv, Enqueue
<1>2. /\ queue' = [queue EXCEPT ![t] = Append(@, m)]
      /\ buffered' = buffered + Size[m]
      /\ UNCHANGED <<inflight, wire>>
      /\ pc[t] = "locking" /\ pc'[t] = "idle"
      /\ \A u \in Threads \ {t} : pc'[u] = pc[u] /\ current'[u] = current[u]
  BY DEF Enqueue, Return, AccInv, IInv, Typed, TypeOK
<1>3. Range(Append(queue[t], m)) = Queued(t) \union {m}
  BY <1>1, AppendFacts DEF Queued, AccInv, IInv, Typed, TypeOK
<1>4. Queued(t)' = Queued(t) \union {m} /\ \A u \in Threads \ {t} : Queued(u)' = Queued(u)
  BY <1>2, <1>3 DEF Queued, AccInv, IInv, Typed, TypeOK
<1>5. Held' = Held \union {m}
  BY <1>2, <1>4 DEF Held
<1> HIDE DEF m
<1>6. IsFiniteSet(Held') /\ Outstanding' = Outstanding + Size[m]
  BY <1>1, <1>5, HeldGrows DEF AccInv
<1>7. \A u \in Threads : Owed(u)' = Owed(u)
  BY <1>2 DEF Owed
<1>8. SumFunction(Owes)' = SumFunction(Owes)
  BY <1>7 DEF Owes
<1>9. /\ buffered \in Int /\ SumFunction(Owes) \in Int /\ Size[m] \in Int
      /\ buffered + SumFunction(Owes) = Outstanding
  BY <1>1, OwesSum DEF AccInv, IInv, Typed, TypeOK, Accounting, Owes
<1>10. buffered' + SumFunction(Owes)' = Outstanding'
  BY <1>2, <1>6, <1>8, <1>9
<1> QED BY <1>2, <1>6, <1>10 DEF AccInv, HeldOnce, Accounting, Owes

LEMMA SubmitDirectAccounting ==
    ASSUME AccInv, Typed', NEW t \in Threads, SubmitDirect(t)
    PROVE  HeldOnce' /\ Accounting'
<1> DEFINE m == current[t]
<1>1. m \in Messages \ Held
  BY NotHeldYet DEF AccInv, SubmitDirect
<1>2. /\ inflight' = inflight \union {m} /\ wire' = Append(wire, m)
      /\ UNCHANGED <<queue, buffered, current>>
      /\ pc[t] = "locking" /\ pc'[t] = "accounting"
      /\ \A u \in Threads \ {t} : pc'[u] = pc[u]
  BY DEF SubmitDirect, AccInv, IInv, Typed, TypeOK
<1>3. Range(wire') = Range(wire) \union {m}
  BY <1>1, <1>2, AppendFacts DEF AccInv, IInv, Typed, TypeOK
<1>4. Held' = Held \union {m}
  BY <1>2 DEF Held, Queued
<1>5. IsFiniteSet(Held') /\ Outstanding' = Outstanding + Size[m]
  BY <1>1, <1>4, HeldGrows DEF AccInv
<1>6. /\ Owed(t) = 0 /\ Owed(t)' = Size[m]
      /\ \A u \in Threads \ {t} : Owed(u)' = Owed(u)
  BY <1>2 DEF Owed
<1>7. SumFunction(Owes)' = SumFunction(Owes) - 0 + Size[m]
  BY <1>6, OwesUpdate DEF AccInv, IInv
<1> HIDE DEF m
<1>8. /\ buffered \in Int /\ SumFunction(Owes) \in Int /\ Size[m] \in Int
      /\ buffered + SumFunction(Owes) = Outstanding
  BY <1>1, OwesSum DEF AccInv, IInv, Typed, TypeOK, Accounting, Owes
<1>9. buffered' + SumFunction(Owes)' = Outstanding'
  BY <1>2, <1>5, <1>7, <1>8
<1>10. inflight' \subseteq Range(wire')
  BY <1>2, <1>3 DEF AccInv, HeldOnce
<1> QED BY <1>5, <1>9, <1>10 DEF HeldOnce, Accounting, Owes

LEMMA AccountAccounting ==
    ASSUME AccInv, Typed', NEW t \in Threads, Account(t)
    PROVE  HeldOnce' /\ Accounting'
<1>1. /\ buffered' = buffered + Owed(t)
      /\ UNCHANGED <<queue, inflight, wire>>
      /\ Owed(t)' = 0
      /\ \A u \in Threads \ {t} : Owed(u)' = Owed(u)
  BY DEF Account, Return, Owed, AccInv, IInv, Typed, TypeOK
<1>2. Held' = Held
  BY <1>1 DEF Held, Queued
<1>3. SumFunction(Owes)' = SumFunction(Owes) - Owed(t) + 0
  BY <1>1, OwesUpdate DEF AccInv, IInv
<1>4. /\ buffered \in Int /\ SumFunction(Owes) \in Int /\ Owed(t) \in Int
      /\ buffered + SumFunction(Owes) = Outstanding
  <2>1. Typed /\ buffered \in Int
    BY DEF AccInv, IInv, Typed, TypeOK
  <2>2. SumFunction(Owes) \in Int /\ Owed(t) \in Int
    BY <2>1, OwedType, OwesSum
  <2>3. buffered + SumFunction(Owes) = Outstanding
    BY DEF AccInv, Accounting, Owes
  <2> QED BY <2>1, <2>2, <2>3
<1>5. buffered' + SumFunction(Owes)' = Outstanding
  BY <1>1, <1>3, <1>4
<1> QED BY <1>1, <1>2, <1>5 DEF AccInv, HeldOnce, Accounting, Owes, Outstanding

\* The head of a FIFO leaves it for the transport, in the place of the write
\* that completed, or is dropped with it.
LEMMA ForceSendAccounting ==
    ASSUME AccInv, Typed', NEW t \in Threads, queue[t] # <<>>,
           NEW done \in inflight, ForceSend(t, done, buffered - Size[done]),
           UNCHANGED <<connection, pc, current, unsent, accepted>>
    PROVE  HeldOnce' /\ Accounting'
<1> DEFINE m == Head(queue[t])
<1>a. /\ IInv /\ Typed /\ Fresh /\ OnWireOnce /\ HeldOnce
      /\ queue \in [Threads -> Seq(Messages)] /\ wire \in Seq(Messages)
      /\ inflight \subseteq Range(wire) /\ buffered \in Int
  BY DEF AccInv, IInv, Typed, TypeOK, HeldOnce
<1>b. \A u \in Threads : \A x \in Queued(u) : Owner[x] = u /\ x \notin Range(wire)
  BY <1>a DEF Fresh, OnWireOnce
<1>1. /\ m \in Messages
      /\ Queued(t) = {m} \union Range(Tail(queue[t]))
      /\ m \notin Range(Tail(queue[t]))
      /\ queue' = [queue EXCEPT ![t] = Tail(@)]
  <2>1. queue[t] \in Seq(Messages) /\ IsInjective(queue[t])
    BY <1>a DEF OnWireOnce
  <2> QED BY <2>1, TailFacts DEF ForceSend, Queued
<1>2. Queued(t)' = Queued(t) \ {m} /\ \A u \in Threads \ {t} : Queued(u)' = Queued(u)
  BY <1>1, <1>a DEF Queued
<1>3. m \notin inflight /\ done # m /\ \A u \in Threads \ {t} : m \notin Queued(u)
  <2>1. m \in Queued(t)
    BY <1>1
  <2> HIDE DEF m
  <2>2. m \notin Range(wire) /\ Owner[m] = t
    BY <2>1, <1>b
  <2> QED BY <2>1, <2>2, <1>a, <1>b
<1>4. \A u \in Threads : done \notin Queued(u)
  BY <1>a, <1>b
<1>5. done \in Held /\ m \in Held \ {done}
  <2>1. m \in Queued(t)
    BY <1>1
  <2> HIDE DEF m
  <2> QED BY <2>1, <1>3, HeldIn
<1>6. \A x : (\E u \in Threads : x \in Queued(u)')
               <=> x # m /\ \E u \in Threads : x \in Queued(u)
  <2> HIDE DEF m
  <2> QED BY <1>2, <1>3
<1>7. \A x : x \in Held' <=> x \in inflight' \/ \E u \in Threads : x \in Queued(u)'
  BY DEF Held
<1>8. IsFiniteSet(Held) /\ Held \subseteq Messages
  BY <1>a, HeldTyped DEF HeldOnce
<1>9. /\ IsFiniteSet(Held \ {done})
      /\ SumFunctionOnSet(Size, Held \ {done}) = Outstanding - Size[done]
      /\ Outstanding \in Int
  BY <1>5, <1>8, HeldShrinks DEF Outstanding
<1>10. UNCHANGED <<pc, current>>
  OBVIOUS
<1>11. SumFunction(Owes)' = SumFunction(Owes) /\ SumFunction(Owes) \in Int
  <2>1. Owes' = Owes
    BY <1>10 DEF Owes, Owed
  <2> QED BY <2>1, <1>a, OwesSum
<1>12. /\ buffered \in Int /\ Size[m] \in Int /\ Size[done] \in Int
       /\ buffered + SumFunction(Owes) = Outstanding
  <2>1. buffered + SumFunction(Owes) = Outstanding
    BY DEF AccInv, Accounting, Owes
  <2>2. done \in Messages
    BY <1>5, <1>8
  <2> HIDE DEF m
  <2> QED BY <2>1, <2>2, <1>1, <1>a
<1>13. CASE sock /\ link
  <2>1. /\ inflight' = (inflight \ {done}) \union {m}
        /\ wire' = Append(wire, m)
        /\ buffered' = buffered - Size[done]
    BY <1>13 DEF ForceSend
  <2>2. Range(wire') = Range(wire) \union {m}
    BY <1>1, <1>a, <2>1, AppendFacts
  <2> HIDE DEF m
  <2>3. Held' = Held \ {done}
    <3>1. \A x : x \in Held' <=> x \in Held /\ x # done
      BY <2>1, <1>3, <1>4, <1>5, <1>6, <1>7, HeldIn
    <3> QED BY <3>1
  <2>4. buffered' + SumFunction(Owes)' = Outstanding'
    BY <1>9, <1>11, <1>12, <2>1, <2>3 DEF Outstanding
  <2>5. inflight' \subseteq Range(wire')
    BY <2>1, <2>2, <1>a
  <2> QED BY <1>9, <2>3, <2>4, <2>5 DEF HeldOnce, Accounting, Owes
<1>14. CASE ~(sock /\ link)
  <2>1. /\ inflight' = inflight \ {done}
        /\ wire' = wire
        /\ buffered' = buffered - Size[done] - Size[m]
    BY <1>14 DEF ForceSend
  <2> HIDE DEF m
  <2>2. Held' = (Held \ {done}) \ {m}
    <3>1. \A x : x \in Held' <=> x \in Held /\ x # done /\ x # m
      BY <2>1, <1>3, <1>4, <1>5, <1>6, <1>7, HeldIn
    <3> QED BY <3>1
  <2>3. /\ IsFiniteSet(Held')
        /\ Outstanding' = Outstanding - Size[done] - Size[m]
    <3>1. Held \ {done} \subseteq Messages
      BY <1>8
    <3>2. /\ IsFiniteSet((Held \ {done}) \ {m})
          /\ SumFunctionOnSet(Size, (Held \ {done}) \ {m})
                = SumFunctionOnSet(Size, Held \ {done}) - Size[m]
      BY <1>5, <1>9, <3>1, HeldShrinks
    <3> QED BY <2>2, <1>9, <3>2 DEF Outstanding
  <2>4. buffered' + SumFunction(Owes)' = Outstanding'
    <3>1. \A b, o, x, y, z \in Int : b + o = z => (b - x - y) + o = z - x - y
      OBVIOUS
    <3> QED BY <1>9, <1>11, <1>12, <2>1, <2>3, <3>1
  <2>5. inflight' \subseteq Range(wire')
    BY <2>1, <1>a
  <2> QED BY <2>3, <2>4, <2>5 DEF HeldOnce, Accounting, Owes
<1> QED BY <1>13, <1>14

\* A completion that finds nothing to send.
LEMMA DoneAccounting ==
    ASSUME AccInv, Typed', NEW done \in inflight,
           buffered' = buffered - Size[done], inflight' = inflight \ {done},
           UNCHANGED <<queue, wire, pc, current>>
    PROVE  HeldOnce' /\ Accounting'
<1> USE DEF AccInv, IInv, Typed, TypeOK
<1>1. \A u \in Threads : done \notin Queued(u) /\ Queued(u)' = Queued(u)
  BY DEF HeldOnce, OnWireOnce, Queued
<1>2. done \in Held /\ Held' = Held \ {done}
  BY <1>1 DEF Held
<1>3. IsFiniteSet(Held) /\ Held \subseteq Messages
  BY HeldTyped DEF HeldOnce
<1>4. IsFiniteSet(Held') /\ Outstanding' = Outstanding - Size[done] /\ Outstanding \in Int
  BY <1>2, <1>3, HeldShrinks DEF Outstanding
<1>5. SumFunction(Owes)' = SumFunction(Owes) /\ SumFunction(Owes) \in Int
  <2>1. Owes' = Owes
    BY DEF Owes, Owed
  <2> QED BY <2>1, OwesSum
<1>6. buffered + SumFunction(Owes) = Outstanding /\ Size[done] \in Int /\ buffered \in Int
  BY <1>2, <1>3 DEF Accounting, Owes
<1>7. buffered' + SumFunction(Owes)' = Outstanding'
  BY <1>4, <1>5, <1>6
<1> QED BY <1>4, <1>7 DEF HeldOnce, Accounting, Owes

LEMMA InitAccInv == Init => AccInv
<1> SUFFICES ASSUME Init PROVE HeldOnce /\ Accounting
  BY InitIInv DEF AccInv
<1>1. Held = {}
  BY DEF Init, Held, Queued, Range
<1>2. IsFiniteSet(Held) /\ Outstanding = 0
  BY <1>1, FS_EmptySet, SumEmpty DEF Outstanding
<1>3. SumFunction(Owes) = 0
  BY InitTyped, OwesSum DEF Init
<1> QED BY <1>2, <1>3 DEF Init, HeldOnce, Accounting, Owes

LEMMA NextAccInv == AccInv /\ [Next]_vars => AccInv'
<1> SUFFICES ASSUME AccInv, [Next]_vars, Typed' PROVE HeldOnce' /\ Accounting'
  BY NextIInv DEF AccInv, IInv
<1>1. ASSUME NEW t \in Threads, NEW m \in Messages, CallSend(t, m)
      PROVE  HeldOnce' /\ Accounting'
  <2>1. UNCHANGED <<queue, inflight, wire, buffered>>
    BY <1>1 DEF CallSend
  <2>2. \A u \in Threads : Owed(u)' = Owed(u)
    <3>1. CASE sock
      BY <1>1, <3>1 DEF CallSend, Owed, AccInv, IInv, Typed, TypeOK
    <3>2. CASE ~sock
      BY <1>1, <3>2 DEF CallSend, Owed
    <3> QED BY <3>1, <3>2
  <2> QED BY <2>1, <2>2, QuietAccounting
<1>2. ASSUME NEW t \in Threads, Refuse(t) \/ SubmitFails(t)
      PROVE  HeldOnce' /\ Accounting'
  <2>1. UNCHANGED <<queue, inflight, wire, buffered>>
    BY <1>2 DEF Refuse, SubmitFails
  <2>2. \A u \in Threads : Owed(u)' = Owed(u)
    BY <1>2 DEF Refuse, SubmitFails, Return, Owed, AccInv, IInv, Typed, TypeOK
  <2> QED BY <2>1, <2>2, QuietAccounting
<1>3. ASSUME NEW t \in Threads, Enqueue(t) PROVE HeldOnce' /\ Accounting'
  BY <1>3, EnqueueAccounting
<1>4. ASSUME NEW t \in Threads, SubmitDirect(t) PROVE HeldOnce' /\ Accounting'
  BY <1>4, SubmitDirectAccounting
<1>5. ASSUME NEW t \in Threads, Account(t) PROVE HeldOnce' /\ Accounting'
  BY <1>5, AccountAccounting
<1>6. ASSUME NEW m \in Messages, Completion(m) PROVE HeldOnce' /\ Accounting'
  <2>1. m \in inflight /\ UNCHANGED <<connection, pc, current, unsent, accepted>>
    BY <1>6 DEF Completion, WriteCompleted, WriteZero
  <2>2. PICK willing : SendNext(m, buffered - Size[m], willing)
    BY <1>6 DEF Completion, WriteCompleted, WriteZero
  <2>3. CASE \E t \in Threads : queue[t] # <<>> /\ ForceSend(t, m, buffered - Size[m])
    BY <2>1, <2>3, ForceSendAccounting
  <2>4. CASE /\ buffered' = buffered - Size[m] /\ inflight' = inflight \ {m}
             /\ UNCHANGED <<queue, wire>>
    BY <2>1, <2>4, DoneAccounting
  <2> QED BY <2>2, <2>3, <2>4 DEF SendNext
<1>7. CASE LinkDown \/ MarkDisconnected \/ CloseSocket \/ UNCHANGED vars
  <2>1. UNCHANGED <<queue, inflight, wire, buffered, pc, current>>
    BY <1>7 DEF LinkDown, MarkDisconnected, CloseSocket, vars
  <2> QED BY <2>1, QuietAccounting DEF Owed
<1> QED
  BY <1>1, <1>2, <1>3, <1>4, <1>5, <1>6, <1>7 DEF Next, Sender

LEMMA AccInvInvariant == Spec => []AccInv
BY InitAccInv, NextAccInv, PTL DEF Spec

\* m_nBufferedSendDataLength never drifts from the bytes submitted or queued,
\* however completions, late additions and failures interleave.
THEOREM CounterExact == Spec => []Accounting
<1>1. AccInv => Accounting
  BY DEF AccInv
<1> QED BY <1>1, AccInvInvariant, PTL

\* Past messages still queued a sender submits directly only in the window in
\* which another sender owes its length: the counter is exact, so it can be
\* zero over a queue only by what is owed.
THEOREM OvertakingNeedsWindow == Spec => OvertakesOnlyInWindow
<1>1. ASSUME AccInv, [Next]_vars, NEW t \in Threads,
             pc[t] = "locking", pc'[t] = "accounting",
             NEW u \in Threads, NEW m \in Queued(u), Size[m] > 0
      PROVE  \E v \in Threads : v # t /\ pc[v] = "accounting"
  <2>1. SubmitDirect(t)
    <3>1. ASSUME NEW v \in Threads, NEW x \in Messages, CallSend(v, x) PROVE FALSE
      BY <3>1, <1>1 DEF CallSend, AccInv, IInv, Typed, TypeOK
    <3>2. ASSUME NEW v \in Threads,
                 Refuse(v) \/ Enqueue(v) \/ SubmitFails(v) \/ Account(v)
          PROVE  FALSE
      BY <3>2, <1>1 DEF Refuse, Enqueue, SubmitFails, Account, Return,
                        AccInv, IInv, Typed, TypeOK
    <3>3. ASSUME NEW v \in Threads, SubmitDirect(v) PROVE v = t
      BY <3>3, <1>1 DEF SubmitDirect, AccInv, IInv, Typed, TypeOK
    <3>4. pc' # pc
      BY <1>1
    <3> QED BY <1>1, <3>1, <3>2, <3>3, <3>4
            DEF Next, Sender, Completion, WriteCompleted, WriteZero, LinkDown,
                MarkDisconnected, CloseSocket, vars
  <2>2. buffered <= 0 /\ buffered \in Int
    BY <1>1, <2>1 DEF SubmitDirect, AccInv, IInv, Typed, TypeOK
  <2>3. m \in Held /\ Size[m] \in Nat
    BY <1>1, HeldIn, HeldTyped DEF AccInv
  <2>4. Outstanding > 0
    BY <1>1, <2>3, HeldIsCounted DEF AccInv
  <2>5. SumFunction(Owes) # 0
    BY <2>2, <2>4, <1>1, OutstandingType, OwesSum DEF AccInv, IInv, Accounting, Owes
  <2>6. PICK v \in Threads : pc[v] = "accounting"
    BY <2>5, <1>1, OwesSum DEF AccInv, IInv
  <2> QED BY <2>6, <1>1
<1>2. AccInv /\ [Next]_vars =>
          [\A t \in Threads :
             /\ pc[t] = "locking" /\ pc'[t] = "accounting"
             /\ \E u \in Threads : \E m \in Queued(u) : Size[m] > 0
             => \E u \in Threads : u # t /\ pc[u] = "accounting"]_vars
  BY <1>1
<1> QED BY <1>2, AccInvInvariant, PTL DEF Spec, OvertakesOnlyInWindow
-----------------------------------------------------------------------------
(* The memory held for a client.                                           *)

\* With every length at most max, what is owed is at most max per thread; a
\* thread in front of the test owes nothing.
LEMMA OwesBounded ==
    ASSUME Typed, NEW max \in Nat, \A m \in Messages : Size[m] <= max
    PROVE  /\ SumFunction(Owes) <= Cardinality(Threads) * max
           /\ \A t \in Threads : pc[t] = "locking" =>
                  SumFunction(Owes) + max <= Cardinality(Threads) * max
<1>1. \A t \in Threads : Owes[t] = Owed(t) /\ Owed(t) \in 0 .. max
  BY OwedType DEF Owes, Owed, Typed, TypeOK, HasMessage
<1>2. SumFunction(Owes) = SumFunctionOnSet(Owes, Threads)
  BY OwesSum
<1>3. \A t \in Threads : Owes[t] \in 0 .. max
  BY <1>1
<1> DEFINE f == Owes
<1>4. \A t \in Threads : f[t] \in 0 .. max /\ f[t] \in Int
  BY <1>3
<1> HIDE DEF f
<1>5. SumFunctionOnSet(f, Threads) \in 0 .. Cardinality(Threads) * max
  BY <1>4, SumBounded
<1>6. ASSUME NEW t \in Threads, pc[t] = "locking"
      PROVE  SumFunctionOnSet(f, Threads) + max <= Cardinality(Threads) * max
  <2>1. f[t] = 0
    BY <1>1, <1>6 DEF f, Owed
  <2>2. SumFunctionOnSet(f, Threads) = f[t] + SumFunctionOnSet(f, Threads \ {t})
    BY <1>4, SumRemove
  <2>3. /\ IsFiniteSet(Threads \ {t})
        /\ Cardinality(Threads \ {t}) = Cardinality(Threads) - 1
        /\ Cardinality(Threads) \in Nat
    BY FS_RemoveElement, FS_CardinalityType
  <2>4. SumFunctionOnSet(f, Threads \ {t}) \in 0 .. (Cardinality(Threads) - 1) * max
    <3>1. SumFunctionOnSet(f, Threads \ {t}) \in 0 .. Cardinality(Threads \ {t}) * max
      BY <1>4, <2>3, SumBounded
    <3> QED BY <3>1, <2>3
  <2>5. (Cardinality(Threads) - 1) * max + max = Cardinality(Threads) * max
    BY <2>3
  <2>6. (Cardinality(Threads) - 1) * max \in Int /\ Cardinality(Threads) * max \in Int
    BY <2>3
  <2> QED BY <2>1, <2>2, <2>4, <2>5, <2>6
<1>7. Cardinality(Threads) * max \in Int
  BY FS_CardinalityType
<1>8. SumFunctionOnSet(f, Threads) <= Cardinality(Threads) * max
  BY <1>5, <1>7
<1> QED BY <1>2, <1>6, <1>8 DEF f

\* What a step adds to the bytes held: at most a message that passed the test.
LEMMA HeldStep ==
    ASSUME AccInv, [Next]_vars
    PROVE  \/ Outstanding' <= Outstanding /\ Outstanding' \in Int
           \/ \E t \in Threads :
                /\ pc[t] = "locking" /\ current[t] \in Messages
                /\ buffered < Limit
                /\ Outstanding' = Outstanding + Size[current[t]]
<1> DEFINE o == SumFunction(Owes)
           Goal == \/ Outstanding' <= Outstanding /\ Outstanding' \in Int
                   \/ \E t \in Threads :
                        /\ pc[t] = "locking" /\ current[t] \in Messages
                        /\ buffered < Limit
                        /\ Outstanding' = Outstanding + Size[current[t]]
<1> SUFFICES Goal
  OBVIOUS
<1>1. AccInv' /\ Typed /\ Typed'
  BY NextAccInv DEF AccInv, IInv
<1>2. /\ buffered + o = Outstanding
      /\ buffered' + o' = Outstanding'
      /\ o \in Nat /\ buffered \in Int
  BY <1>1, OwesSum DEF AccInv, Accounting, Owes, Typed, TypeOK
<1>3. ASSUME UNCHANGED <<pc, current>> \/ \A t \in Threads : Owed(t)' = Owed(t)
      PROVE  o' = o
  BY <1>3 DEF Owes, Owed
<1> HIDE DEF o
<1>4. ASSUME buffered' <= buffered, buffered' \in Int, o' = o PROVE Goal
  BY <1>2, <1>4
<1>5. ASSUME NEW t \in Threads, NEW m \in Messages, CallSend(t, m) PROVE Goal
  <2>1. UNCHANGED buffered
    BY <1>5 DEF CallSend
  <2>2. \A u \in Threads : Owed(u)' = Owed(u)
    <3>1. CASE sock
      BY <1>5, <3>1, <1>1 DEF CallSend, Owed, Typed, TypeOK
    <3>2. CASE ~sock
      BY <1>5, <3>2 DEF CallSend, Owed
    <3> QED BY <3>1, <3>2
  <2> QED BY <2>1, <2>2, <1>2, <1>3, <1>4
<1>6. ASSUME NEW t \in Threads, Refuse(t) \/ SubmitFails(t) PROVE Goal
  <2>1. UNCHANGED buffered
    BY <1>6 DEF Refuse, SubmitFails
  <2>2. \A u \in Threads : Owed(u)' = Owed(u)
    BY <1>6, <1>1 DEF Refuse, SubmitFails, Return, Owed, Typed, TypeOK
  <2> QED BY <2>1, <2>2, <1>2, <1>3, <1>4
<1>7. ASSUME NEW t \in Threads, Enqueue(t) PROVE Goal
  <2>1. /\ pc[t] = "locking" /\ buffered < Limit
        /\ current[t] \in Messages
        /\ buffered' = buffered + Size[current[t]]
    BY <1>7, <1>1 DEF Enqueue, Typed, HasMessage
  <2>2. \A u \in Threads : Owed(u)' = Owed(u)
    BY <1>7, <1>1 DEF Enqueue, Return, Owed, Typed, TypeOK
  <2>3. Size[current[t]] \in Nat
    BY <2>1
  <2>4. Outstanding' = Outstanding + Size[current[t]]
    BY <2>1, <2>2, <2>3, <1>2, <1>3
  <2> QED BY <2>1, <2>4
<1>8. ASSUME NEW t \in Threads, SubmitDirect(t) PROVE Goal
  <2>1. /\ pc[t] = "locking" /\ buffered <= 0 /\ buffered' = buffered
        /\ current[t] \in Messages
    BY <1>8, <1>1 DEF SubmitDirect, Typed, HasMessage
  <2>2. /\ Owed(t) = 0 /\ Owed(t)' = Size[current[t]]
        /\ \A u \in Threads \ {t} : Owed(u)' = Owed(u)
    BY <1>8, <1>1 DEF SubmitDirect, Owed, Typed, TypeOK
  <2>3. o' = o - 0 + Size[current[t]]
    BY <2>2, <1>1, OwesUpdate DEF o
  <2>4. Size[current[t]] \in Nat
    BY <2>1
  <2>5. Outstanding' = Outstanding + Size[current[t]]
    BY <2>1, <2>3, <2>4, <1>2
  <2>6. buffered < Limit
    BY <2>1, <1>2
  <2> QED BY <2>1, <2>5, <2>6
<1>9. ASSUME NEW t \in Threads, Account(t) PROVE Goal
  <2>1. /\ buffered' = buffered + Owed(t)
        /\ Owed(t)' = 0 /\ Owed(t) \in Nat
        /\ \A u \in Threads \ {t} : Owed(u)' = Owed(u)
    BY <1>9, <1>1, OwedType DEF Account, Return, Owed, Typed, TypeOK
  <2>2. o' = o - Owed(t) + 0
    BY <2>1, <1>1, OwesUpdate DEF o
  <2>3. Outstanding' = Outstanding
    BY <2>1, <2>2, <1>2
  <2> QED BY <2>3, <1>2
<1>10. ASSUME NEW m \in Messages, Completion(m) PROVE Goal
  <2>1. UNCHANGED <<pc, current>>
    BY <1>10 DEF Completion, WriteCompleted, WriteZero
  <2>2. PICK willing : SendNext(m, buffered - Size[m], willing)
    BY <1>10 DEF Completion, WriteCompleted, WriteZero
  <2>3. buffered' <= buffered /\ buffered' \in Int
    <3>1. CASE \E t \in Threads : queue[t] # <<>> /\ ForceSend(t, m, buffered - Size[m])
      <4>1. PICK t \in Threads : queue[t] # <<>> /\ ForceSend(t, m, buffered - Size[m])
        BY <3>1
      <4>2. queue[t] \in Seq(Messages) /\ queue[t] # <<>>
        BY <4>1, <1>1 DEF Typed, TypeOK
      <4>3. Head(queue[t]) \in Messages
        BY <4>2
      <4>4. Size[Head(queue[t])] \in Nat /\ Size[m] \in Nat
        BY <4>3
      <4> QED BY <4>1, <4>4, <1>2 DEF ForceSend
    <3>2. CASE buffered' = buffered - Size[m]
      BY <3>2, <1>2
    <3> QED BY <2>2, <3>1, <3>2 DEF SendNext
  <2> QED BY <2>1, <2>3, <1>3, <1>4
<1>11. CASE LinkDown \/ MarkDisconnected \/ CloseSocket \/ UNCHANGED vars
  <2>1. UNCHANGED <<pc, current, buffered>>
    BY <1>11 DEF LinkDown, MarkDisconnected, CloseSocket, vars
  <2> QED BY <2>1, <1>2, <1>3, <1>4
<1> QED
  BY <1>5, <1>6, <1>7, <1>8, <1>9, <1>10, <1>11 DEF Next, Sender

\* The 1 MB test bounds the bytes held for one client, to the limit and one
\* message per sending thread, for any number of threads.
THEOREM MemoryBounded == Spec => []MemoryBound
<1> DEFINE Below == \A max \in Nat : (\A m \in Messages : Size[m] <= max) /\ Threads # {}
                        => Outstanding < Limit + Cardinality(Threads) * max
<1>1. Cardinality(Threads) \in Nat
  BY FS_CardinalityType
<1>2. \A max \in Nat : Cardinality(Threads) * max \in Nat
  BY <1>1
<1>3. Init => Below
  <2> SUFFICES ASSUME Init PROVE Below
    OBVIOUS
  <2>1. Held = {}
    BY DEF Init, Held, Queued, Range
  <2>2. Outstanding = 0
    BY <2>1, SumEmpty DEF Outstanding
  <2> QED BY <2>2, <1>2
<1>4. AccInv /\ Below /\ [Next]_vars => Below'
  <2> SUFFICES ASSUME AccInv, Below, [Next]_vars,
                      NEW max \in Nat, \A m \in Messages : Size[m] <= max, Threads # {}
               PROVE  Outstanding' < Limit + Cardinality(Threads) * max
    OBVIOUS
  <2>1. AccInv' /\ Typed
    BY NextAccInv DEF AccInv, IInv
  <2>2. Outstanding \in Nat
    BY OutstandingType DEF AccInv
  <2>3. Outstanding < Limit + Cardinality(Threads) * max
    OBVIOUS
  <2>4. CASE Outstanding' <= Outstanding /\ Outstanding' \in Int
    BY <2>2, <2>3, <2>4, <1>2
  <2>5. CASE \E t \in Threads :
               /\ pc[t] = "locking" /\ current[t] \in Messages
               /\ buffered < Limit
               /\ Outstanding' = Outstanding + Size[current[t]]
    <3>1. PICK t \in Threads :
               /\ pc[t] = "locking" /\ current[t] \in Messages
               /\ buffered < Limit
               /\ Outstanding' = Outstanding + Size[current[t]]
      BY <2>5
    <3>2. Size[current[t]] \in Nat /\ Size[current[t]] <= max
      BY <3>1
    <3>3. SumFunction(Owes) + max <= Cardinality(Threads) * max
      BY <3>1, <2>1, OwesBounded
    <3>4. /\ buffered + SumFunction(Owes) = Outstanding
          /\ SumFunction(Owes) \in Nat /\ buffered \in Int
      BY <2>1, OwesSum DEF AccInv, Accounting, Owes, Typed, TypeOK
    <3> QED BY <3>1, <3>2, <3>3, <3>4, <1>2
  <2> QED BY <2>4, <2>5, HeldStep
<1>5. Below => MemoryBound
  <2> SUFFICES ASSUME Below, NEW m \in Messages, \A x \in Messages : Size[x] <= Size[m]
               PROVE  Outstanding < Limit + Cardinality(Threads) * Size[m]
    BY DEF MemoryBound
  <2>1. Owner[m] \in Threads /\ Size[m] \in Nat
    OBVIOUS
  <2> QED BY <2>1
<1> QED BY <1>3, <1>4, <1>5, AccInvInvariant, PTL DEF Spec
-----------------------------------------------------------------------------
(* The channel of a thread that sends alone.                               *)

\* The recursion of PartOf, and the solution it takes.
IsPart(g, w, t) ==
    g = [n \in 0 .. Len(w) |->
            IF n = 0 THEN <<>>
            ELSE IF Owner[w[n]] = t THEN Append(g[n - 1], w[n])
            ELSE g[n - 1]]

\* When all messages are of thread t, its part is all of them, and that of every
\* other thread is empty.
LEMMA PartAlone ==
    ASSUME NEW t \in Threads, \A m \in Messages : Owner[m] = t, NEW w \in Seq(Messages)
    PROVE  /\ PartOf(w, t) = w
           /\ \A u \in Threads \ {t} : PartOf(w, u) = <<>>
<1>1. \A u : PartOf(w, u) = (CHOOSE g : IsPart(g, w, u))[Len(w)]
  BY DEF PartOf, IsPart
<1>2. Len(w) \in Nat /\ \A n \in 1 .. Len(w) : w[n] \in Messages /\ Owner[w[n]] = t
  OBVIOUS
<1>3. PartOf(w, t) = w
  <2> DEFINE h == [n \in 0 .. Len(w) |-> SubSeq(w, 1, n)]
  <2>1. SubSeq(w, 1, 0) = <<>> /\ SubSeq(w, 1, Len(w)) = w
    BY SubSeqProperties
  <2>2. ASSUME NEW n \in 1 .. Len(w)
        PROVE  SubSeq(w, 1, n) = Append(SubSeq(w, 1, n - 1), w[n])
    BY <1>2, SubSeqProperties, AppendProperties
  <2>3. IsPart(h, w, t)
    <3>1. h = [n \in 0 .. Len(w) |-> h[n]] /\ h[0] = <<>>
      BY <1>2, <2>1
    <3>2. ASSUME NEW n \in 0 .. Len(w), n # 0
          PROVE  Owner[w[n]] = t /\ h[n] = Append(h[n - 1], w[n])
      <4>1. n \in 1 .. Len(w) /\ n - 1 \in 0 .. Len(w)
        BY <1>2, <3>2
      <4> QED BY <1>2, <2>2, <4>1
    <3> HIDE DEF h
    <3> QED BY <3>1, <3>2 DEF IsPart
  <2> DEFINE g == CHOOSE f : IsPart(f, w, t)
  <2>4. IsPart(g, w, t)
    <3> HIDE DEF h
    <3> QED BY <2>3
  <2> HIDE DEF g
  <2> DEFINE S == {n \in Nat : n <= Len(w) => g[n] = SubSeq(w, 1, n)}
  <2>5. 0 \in S
    <3>1. g[0] = <<>>
      BY <1>2, <2>4 DEF IsPart
    <3> QED BY <2>1, <3>1
  <2>6. ASSUME NEW n \in Nat, n \in S PROVE n + 1 \in S
    <3> SUFFICES ASSUME n + 1 <= Len(w) PROVE g[n + 1] = SubSeq(w, 1, n + 1)
      OBVIOUS
    <3>1. n + 1 \in 1 .. Len(w) /\ (n + 1) - 1 = n /\ g[n] = SubSeq(w, 1, n)
      BY <1>2, <2>6
    <3>2. n + 1 \in 0 .. Len(w) /\ n + 1 # 0 /\ Owner[w[n + 1]] = t
      BY <1>2, <3>1
    <3>3. g[n + 1] = Append(g[(n + 1) - 1], w[n + 1])
      BY <2>4, <3>2 DEF IsPart
    <3> QED BY <2>2, <3>1, <3>3
  <2>7. \A n \in Nat : n \in S
    <3> HIDE DEF S
    <3> QED BY <2>5, <2>6, Induct
  <2>8. g[Len(w)] = w
    <3>1. g[Len(w)] = SubSeq(w, 1, Len(w))
      <4>1. Len(w) \in S /\ Len(w) <= Len(w)
        BY <1>2, <2>7
      <4> QED BY <4>1
    <3> QED BY <2>1, <3>1, Zenon
  <2> HIDE DEF S
  <2> QED BY <1>1, <2>8, Zenon DEF g
<1>4. ASSUME NEW u \in Threads, u # t PROVE PartOf(w, u) = <<>>
  <2> DEFINE h == [n \in 0 .. Len(w) |-> <<>>]
  <2>1. IsPart(h, w, u)
    BY <1>2, <1>4 DEF IsPart
  <2> DEFINE g == CHOOSE f : IsPart(f, w, u)
  <2>2. IsPart(g, w, u)
    <3> HIDE DEF h
    <3> QED BY <2>1
  <2> HIDE DEF g
  <2> DEFINE S == {n \in Nat : n <= Len(w) => g[n] = <<>>}
  <2>3. 0 \in S
    BY <2>2 DEF IsPart
  <2>4. ASSUME NEW n \in Nat, n \in S PROVE n + 1 \in S
    <3> SUFFICES ASSUME n + 1 <= Len(w) PROVE g[n + 1] = <<>>
      OBVIOUS
    <3>1. n + 1 \in 1 .. Len(w) /\ (n + 1) - 1 = n /\ g[n] = <<>>
      BY <1>2, <2>4
    <3>2. g[n + 1] = g[n]
      BY <1>2, <1>4, <2>2, <3>1 DEF IsPart
    <3> QED BY <3>1, <3>2
  <2>5. \A n \in Nat : n \in S
    <3> HIDE DEF S
    <3> QED BY <2>3, <2>4, Induct
  <2>6. g[Len(w)] = <<>>
    BY <1>2, <2>5
  <2> HIDE DEF S
  <2> QED BY <1>1, <2>6, Zenon DEF g
<1> QED BY <1>3, <1>4

\* The head of a queue moves to the end of what was sent before it.
LEMMA MoveHead ==
    ASSUME NEW M, NEW s \in Seq(M), NEW q \in Seq(M), q # <<>>
    PROVE  s \o q = Append(s, Head(q)) \o Tail(q)
<1>1. Head(q) \in M /\ Tail(q) \in Seq(M) /\ q = <<Head(q)>> \o Tail(q)
  BY HeadTailProperties
<1>2. <<Head(q)>> \in Seq(M)
  BY <1>1
<1>3. s \o (<<Head(q)>> \o Tail(q)) = (s \o <<Head(q)>>) \o Tail(q)
  BY <1>1, <1>2, ConcatAssociative
<1>4. Append(s, Head(q)) = s \o <<Head(q)>>
  BY <1>1, AppendIsConcat
<1> QED BY <1>1, <1>3, <1>4

\* Sequence a is s followed by q.
Joins(a, s, q) == a = s \o q

\* What is appended to the end of a sequence is appended to the whole.
LEMMA JoinsAppend ==
    ASSUME NEW M, NEW a \in Seq(M), NEW s \in Seq(M), NEW q \in Seq(M), NEW e \in M,
           Joins(a, s, q)
    PROVE  Joins(Append(a, e), s, Append(q, e))
<1>1. <<e>> \in Seq(M)
  OBVIOUS
<1>2. Append(a, e) = a \o <<e>> /\ Append(q, e) = q \o <<e>>
  BY AppendIsConcat
<1> QED BY <1>1, <1>2, ConcatAssociative DEF Joins

\* What FIFO order rests on: up to now everything accepted was handed over or
\* is queued, in that order.
Fifo(t) == link => Joins(accepted[t], wire, queue[t])

\* A non-empty message in a queue is counted, so the counter is not zero while
\* no sender is past UnlockSend.
LEMMA NothingBypassed ==
    ASSUME AccInv, NEW t \in Threads, pc[t] = "locking", buffered <= 0,
           \A m \in Messages : Owner[m] = t /\ Size[m] > 0
    PROVE  queue[t] = <<>>
<1> USE DEF AccInv, IInv, Typed, TypeOK
<1>1. SUFFICES ASSUME queue[t] # <<>> PROVE FALSE
  OBVIOUS
<1>2. \A u \in Threads : pc[u] # "accounting"
  BY DEF HasMessage
<1>3. SumFunction(Owes) = 0
  BY <1>2, OwesSum
<1>4. Outstanding = buffered
  BY <1>3 DEF Accounting, Owes
<1> DEFINE m == Head(queue[t])
<1>5. m \in Held /\ m \in Messages
  <2>1. queue[t] \in Seq(Messages)
    OBVIOUS
  <2>2. m \in Messages /\ m \in Queued(t)
    BY <1>1, <2>1, TailFacts DEF Queued
  <2> QED BY <2>2, HeldIn
<1>6. Size[m] > 0
  BY <1>5
<1> HIDE DEF m
<1>7. Outstanding > 0
  BY <1>5, <1>6, HeldIsCounted
<1> QED BY <1>4, <1>7

\* Every step of the pipeline is a step of the channel, or a stutter.
LEMMA StepOfChannel ==
    ASSUME NEW t \in Threads, \A m \in Messages : Owner[m] = t /\ Size[m] > 0,
           AccInv, AccInv', Fifo(t), [Next]_vars
    PROVE  Fifo(t)' /\ [Channel!Next]_(Channel!vars)
<1> USE DEF AccInv, IInv, Typed, TypeOK
<1> DEFINE S == [u \in Threads |-> PartOf(wire, u)]
           Goal == Fifo(t)' /\ [Channel!Next]_(Channel!vars)
<1>1. /\ S[t] = wire /\ S'[t] = wire'
      /\ \A u \in Threads \ {t} : S[u] = <<>> /\ S'[u] = <<>>
      /\ S = [u \in Threads |-> S[u]] /\ S' = [u \in Threads |-> S'[u]]
  <2>1. wire \in Seq(Messages) /\ wire' \in Seq(Messages)
    OBVIOUS
  <2>2. PartOf(wire, t) = wire /\ \A u \in Threads \ {t} : PartOf(wire, u) = <<>>
    BY <2>1, PartAlone
  <2>3. PartOf(wire', t) = wire' /\ \A u \in Threads \ {t} : PartOf(wire', u) = <<>>
    BY <2>1, PartAlone
  <2> HIDE DEF TypeOK
  <2> QED BY <2>2, <2>3
<1>2. wire \in Seq(Messages) /\ accepted[t] \in Seq(Messages) /\ queue[t] \in Seq(Messages)
  OBVIOUS
<1>3. \A u \in Threads : pc[u] # "idle" => u = t
  BY DEF HasMessage
<1>4. ASSUME NEW u \in Threads, queue[u] # <<>> PROVE u = t
  <2>1. queue[u] \in Seq(Messages)
    OBVIOUS
  <2>2. Head(queue[u]) \in Queued(u)
    BY <1>4, <2>1, TailFacts DEF Queued
  <2> QED BY <2>1, <2>2, <1>4 DEF Fresh
<1>5. ASSUME UNCHANGED <<wire, accepted>>, UNCHANGED queue \/ ~link', link' => link
      PROVE  Goal
  <2>1. Fifo(t)'
    BY <1>5 DEF Fifo
  <2>2. UNCHANGED (Channel!vars)
    BY <1>5 DEF Channel!vars
  <2> QED BY <2>1, <2>2
<1>6. ASSUME NEW u \in Threads, Enqueue(u) PROVE Goal
  <2>1. /\ u = t /\ current[t] \in Messages
        /\ queue' = [queue EXCEPT ![t] = Append(@, current[t])]
        /\ accepted' = [accepted EXCEPT ![t] = Append(@, current[t])]
        /\ UNCHANGED <<wire, link>>
    BY <1>3, <1>6 DEF Enqueue, HasMessage, connection
  <2>2. Fifo(t)'
    <3>1. Joins(accepted[t], wire, queue[t]) =>
              Joins(Append(accepted[t], current[t]), wire, Append(queue[t], current[t]))
      BY <1>2, <2>1, JoinsAppend
    <3>2. /\ accepted'[t] = Append(accepted[t], current[t])
          /\ queue'[t] = Append(queue[t], current[t])
      BY <2>1
    <3> QED BY <2>1, <3>1, <3>2 DEF Fifo
  <2>3. Channel!Accept(t, current[t])
    BY <2>1 DEF Channel!Accept
  <2> QED BY <2>1, <2>2, <2>3 DEF Channel!Next
<1>7. ASSUME NEW u \in Threads, SubmitDirect(u) PROVE Goal
  <2>1. /\ u = t /\ current[t] \in Messages
        /\ pc[t] = "locking" /\ buffered <= 0 /\ link
        /\ wire' = Append(wire, current[t])
        /\ accepted' = [accepted EXCEPT ![t] = Append(@, current[t])]
        /\ UNCHANGED <<queue, link>>
    BY <1>3, <1>7 DEF SubmitDirect, HasMessage, connection
  <2>2. queue[t] = <<>>
    BY <2>1, NothingBypassed
  <2>3. accepted[t] = wire
    BY <1>2, <2>1, <2>2 DEF Fifo, Joins
  <2>4. Fifo(t)'
    <3>1. Append(wire, current[t]) \in Seq(Messages)
      BY <1>2, <2>1
    <3>2. Append(wire, current[t]) = Append(wire, current[t]) \o <<>>
      BY <3>1, ConcatEmptySeq
    <3>3. accepted'[t] = Append(accepted[t], current[t]) /\ queue'[t] = <<>>
      BY <2>1, <2>2
    <3> QED BY <2>1, <2>3, <3>2, <3>3 DEF Fifo, Joins
  <2>5. S' = [S EXCEPT ![t] = Append(@, current[t])]
    <3> HIDE DEF S
    <3> QED BY <1>1, <2>1
  <2>6. Channel!AcceptAndTransmit(t, current[t])
    BY <1>1, <2>1, <2>3, <2>5 DEF Channel!AcceptAndTransmit
  <2> QED BY <2>1, <2>4, <2>6 DEF Channel!Next
<1>8. ASSUME NEW m \in Messages, Completion(m) PROVE Goal
  <2>1. UNCHANGED <<connection, pc, current, unsent, accepted>>
    BY <1>8 DEF Completion, WriteCompleted, WriteZero
  <2>2. PICK willing : SendNext(m, buffered - Size[m], willing)
    BY <1>8 DEF Completion, WriteCompleted, WriteZero
  <2>3. CASE \E u \in Threads : queue[u] # <<>> /\ ForceSend(u, m, buffered - Size[m])
    <3>1. queue[t] # <<>> /\ ForceSend(t, m, buffered - Size[m])
      BY <2>3, <1>4
    <3>2. CASE sock /\ link
      <4> DEFINE h == Head(queue[t])
      <4>1. /\ queue' = [queue EXCEPT ![t] = Tail(@)]
            /\ wire' = Append(wire, h)
            /\ UNCHANGED accepted /\ link
        BY <2>1, <3>1, <3>2 DEF ForceSend
      <4>2. accepted[t] = wire \o queue[t]
        BY <4>1 DEF Fifo, Joins
      <4>3. h \in Messages /\ Tail(queue[t]) \in Seq(Messages)
        BY <1>2, <3>1
      <4>a. queue \in [Threads -> Seq(Messages)]
        OBVIOUS
      <4> HIDE DEF AccInv, IInv, Typed, TypeOK
      <4>4. wire \o queue[t] = Append(wire, h) \o Tail(queue[t])
        BY <1>2, <3>1, MoveHead
      <4>5. /\ Len(wire) < Len(accepted[t])
            /\ accepted[t][Len(wire) + 1] = h
        <5>1. \A w, q \in Seq(Messages) : q # <<>> =>
                  Len(wire) < Len(wire \o q) /\ (wire \o q)[Len(wire) + 1] = q[1]
          BY <1>2
        <5>2. h = queue[t][1]
          BY <1>2, <3>1
        <5> HIDE DEF h
        <5> QED BY <1>2, <3>1, <4>2, <5>1, <5>2
      <4>6. Fifo(t)'
        <5>1. queue'[t] = Tail(queue[t])
          BY <1>2, <4>1, <4>a
        <5>2. accepted'[t] = wire' \o queue'[t]
          BY <4>1, <4>2, <4>4, <5>1, Zenon
        <5> QED BY <5>2, Zenon DEF Fifo, Joins
      <4>7. S' = [S EXCEPT ![t] = Append(@, accepted[t][Len(@) + 1])]
        <5> HIDE DEF S
        <5> QED BY <1>1, <4>1, <4>5
      <4>8. Channel!Transmit(t)
        BY <1>1, <4>1, <4>5, <4>7 DEF Channel!Transmit
      <4> QED BY <4>6, <4>8 DEF Channel!Next
    <3>3. CASE ~(sock /\ link)
      <4>1. ~link /\ UNCHANGED <<wire, accepted, link>>
        BY <2>1, <3>1, <3>3 DEF ForceSend, OpenWhileUp, connection
      <4> QED BY <4>1, <1>5
    <3> QED BY <3>2, <3>3
  <2>4. CASE UNCHANGED <<queue, lost, wire>>
    BY <2>1, <2>4, <1>5 DEF connection
  <2> QED BY <2>2, <2>3, <2>4, SendNextCases
<1>9. ASSUME NEW u \in Threads, NEW m \in Messages, CallSend(u, m) PROVE Goal
  BY <1>9, <1>5 DEF CallSend, connection
<1>10. ASSUME NEW u \in Threads, Refuse(u) \/ SubmitFails(u) \/ Account(u) PROVE Goal
  BY <1>10, <1>5 DEF Refuse, SubmitFails, Account, connection
<1>11. CASE LinkDown \/ MarkDisconnected \/ CloseSocket \/ UNCHANGED vars
  BY <1>11, <1>5 DEF LinkDown, MarkDisconnected, CloseSocket, vars
<1> QED
  BY <1>6, <1>7, <1>8, <1>9, <1>10, <1>11 DEF Next, Sender

\* A thread that sends alone on the client, and no empty messages, gets what
\* SendChannel promises: everything it sends goes out in the order of its calls.
THEOREM AloneIsFifo ==
    ASSUME NEW t \in Threads, \A m \in Messages : Owner[m] = t /\ Size[m] > 0
    PROVE  Spec => IsChannel
<1>1. Init => Fifo(t) /\ Channel!Init
  <2> SUFFICES ASSUME Init PROVE Fifo(t) /\ Channel!Init
    OBVIOUS
  <2>1. /\ wire = <<>> /\ accepted = [u \in Threads |-> <<>>]
        /\ queue = [u \in Threads |-> <<>>]
    BY DEF Init
  <2>2. \A u \in Threads : PartOf(wire, u) = <<>>
    <3>1. wire \in Seq(Messages)
      BY <2>1
    <3> QED BY <2>1, <3>1, PartAlone
  <2>3. Fifo(t)
    BY <2>1 DEF Fifo, Joins
  <2> QED BY <2>1, <2>2, <2>3 DEF Channel!Init
<1>2. AccInv /\ AccInv' /\ Fifo(t) /\ [Next]_vars => Fifo(t)' /\ [Channel!Next]_(Channel!vars)
  BY StepOfChannel
<1> QED BY <1>1, <1>2, AccInvInvariant, PTL DEF Spec, IsChannel, Channel!Spec

=============================================================================
