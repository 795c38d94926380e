-------------------------- MODULE Receive_proofs ---------------------------
(***************************************************************************)
(* What is proved about the receiving client, for every value of the       *)
(* constants: its receive timeout, its uploads and the buffers of its      *)
(* downloads, and the roles of its monitors.  The parts share no variable, *)
(* so each has an invariant of its own.                                    *)
(***************************************************************************)
EXTENDS Receive, Induction, FiniteSetTheorems, SequenceTheorems, TLAPS

-----------------------------------------------------------------------------
(***************************************************************************)
(* The receive timeout, for every timeout, every number of READs and every *)
(* way to set the clock once.  The invariant relates the local time that   *)
(* was noted to the time data was received, and both to the READ that      *)
(* waits.                                                                  *)
(***************************************************************************)

Times ==
    /\ timeout \in Nat \ {0}
    /\ now \in Nat
    /\ shift \in Int
    /\ MaxReads \in Nat
    /\ read \in 1..MaxReads
    /\ issued \in [1..MaxReads -> Nat]
    /\ received \in Int
    /\ last \in Int

\* The time was noted before the clock was set, or after.
Noted == received # -1 => last = received \/ last = received + shift

\* A READ is handled when data was received for it, and issued afterwards.
Ordered ==
    /\ handling \subseteq 1..read
    /\ read \in handling => phase = "taken"
    /\ read > 1 \/ phase = "taken" => received # -1
    /\ received <= now
    /\ phase = "pending" /\ received # -1 => received <= issued[read]

TimeoutInv == Times /\ Noted /\ Ordered /\ IdleClientIsWatched

\* Whole seconds, doubled, lie within one half second of the half seconds.
LEMMA HalfSeconds ==
    ASSUME NEW x \in Nat
    PROVE  /\ x \div 2 \in Nat
           /\ 2 * (x \div 2) <= x /\ x <= 2 * (x \div 2) + 1
           /\ x % 2 = 0 => 2 * (x \div 2) = x
  OBVIOUS

LEMMA TimeoutInit == Init => TimeoutInv
<1> SUFFICES ASSUME Init PROVE TimeoutInv
  OBVIOUS
<1> USE TimeoutsAssumption, MaxReadsAssumption
<1>1. InitTimeout
  BY DEF Init
<1>2. Times
  BY <1>1 DEF InitTimeout, Times
<1> QED
  BY <1>1, <1>2 DEF InitTimeout, TimeoutInv, Noted, Ordered, IdleClientIsWatched

\* What a timer of the READ that waits compares, when it fires.
LEMMA LateEnough ==
    ASSUME Times, Noted, Ordered, phase = "pending", received # -1, shift >= 0,
           timeout % 2 = 0, now >= issued[read] + timeout
    PROVE  2 * Seconds(last, now + shift) >= timeout
<1>1. received <= issued[read] /\ issued[read] \in Nat
  BY DEF Ordered, Times
<1>2. last <= received + shift
  BY DEF Noted, Times
<1> DEFINE x == now + shift - last
<1>3. x \in Nat /\ x >= timeout /\ timeout \in Nat
  BY <1>1, <1>2 DEF Times
<1>4. Seconds(last, now + shift) = x \div 2
  BY <1>3 DEF Seconds, Times
<1> HIDE DEF x
<1>5. 2 * (x \div 2) >= timeout
  <2>1. x \div 2 \in Nat /\ x <= 2 * (x \div 2) + 1
    BY <1>3, HalfSeconds
  <2>2. timeout \div 2 \in Nat /\ 2 * (timeout \div 2) = timeout
    BY <1>3, HalfSeconds
  <2> QED
    BY <1>3, <2>1, <2>2
<1> QED
  BY <1>4, <1>5

LEMMA TimeoutNext == TimeoutInv /\ [Next]_vars => TimeoutInv'
<1> SUFFICES ASSUME TimeoutInv, [Next]_vars PROVE TimeoutInv'
  OBVIOUS
<1> USE DEF TimeoutInv
<1>u. CASE UNCHANGED timeout_vars
  BY <1>u DEF timeout_vars, Times, Noted, Ordered, IdleClientIsWatched
<1>1. CASE Tick
  BY <1>1 DEF Tick, Times, Noted, Ordered, IdleClientIsWatched
<1>2. CASE ClockSet
  <2>1. /\ UNCHANGED <<timeout, now, read, phase, armed, issued, received, last, handling, timed_out>>
        /\ shift = 0 /\ shift' \in Int
    BY <1>2, ShiftsAssumption DEF ClockSet
  <2>2. Times'
    BY <2>1 DEF Times
  <2>3. Noted'
    <3>1. received # -1 => last = received
      BY <2>1 DEF Times, Noted
    <3> QED
      BY <2>1, <3>1, Zenon DEF Noted
  <2>4. Ordered'
    BY <2>1, Zenon DEF Ordered
  <2>5. ~(shift < 0)
    BY <2>1
  <2>6. IdleClientIsWatched'
    BY <2>1, <2>5, Zenon DEF IdleClientIsWatched
  <2> QED
    BY <2>2, <2>3, <2>4, <2>6
<1>3. CASE DataArrives
  BY <1>3 DEF DataArrives, Times, Noted, Ordered, IdleClientIsWatched
<1>4. CASE UpdateLastDataReceiveTime
  BY <1>4 DEF UpdateLastDataReceiveTime, Times, Noted, Ordered, IdleClientIsWatched
<1>5. CASE IssueClientRead
  <2>1. Times'
    BY <1>5 DEF IssueClientRead, Times
  <2>2. Noted' /\ IdleClientIsWatched'
    BY <1>5 DEF IssueClientRead, Noted, IdleClientIsWatched
  <2>3. Ordered'
    <3>1. read' = read + 1 /\ read + 1 \in 1..MaxReads /\ phase' = "pending" /\ phase = "taken"
      BY <1>5 DEF IssueClientRead, Times
    <3>2. /\ handling' = handling /\ received' = received /\ now' = now
          /\ issued'[read + 1] = now
      BY <1>5, <3>1 DEF IssueClientRead, Times
    <3> QED
      BY <3>1, <3>2 DEF Ordered, Times
  <2> QED
    BY <2>1, <2>2, <2>3
<1>6. ASSUME NEW r \in 1..MaxReads, DequeueOperation(r) PROVE TimeoutInv'
  <2>1. phase = "pending" => r # read
    BY <1>6 DEF DequeueOperation, Ordered
  <2> QED
    BY <1>6, <2>1 DEF DequeueOperation, Times, Noted, Ordered, IdleClientIsWatched
<1>7. ASSUME NEW r \in 1..MaxReads, OnTimerTimeout(r) PROVE TimeoutInv'
  <2>1. Times' /\ Noted' /\ Ordered'
    BY <1>7 DEF OnTimerTimeout, Fires, Times, Noted, Ordered
  <2>2. IdleClientIsWatched'
    <3> SUFFICES ASSUME phase = "pending", ~timed_out', read \notin armed',
                        read # 1, timeout % 2 = 0, shift >= 0
                 PROVE  FALSE
      BY <1>7 DEF OnTimerTimeout, Fires, IdleClientIsWatched, Times
    <3>1. received # -1
      BY DEF Ordered, Times
    <3>2. read \in armed
      <4>1. ~timed_out
        BY <1>7, Zenon DEF OnTimerTimeout
      <4>2. ~(shift < 0)
        BY DEF Times
      <4> QED
        BY <4>1, <4>2, Zenon DEF IdleClientIsWatched
    <3>3. r = read /\ now >= issued[read] + timeout
      BY <1>7, <3>2 DEF OnTimerTimeout, Fires
    <3>4. 2 * Seconds(last, now + shift) >= timeout
      BY <3>1, <3>3, LateEnough
    <3> QED
      BY <1>7, <3>1, <3>4 DEF OnTimerTimeout, Real
  <2> QED
    BY <2>1, <2>2
<1> QED
  BY <1>u, <1>1, <1>2, <1>3, <1>4, <1>5, <1>6, <1>7 DEF Next, TimeoutStep, vars

LEMMA TimeoutInvariant == Spec => []TimeoutInv
  BY TimeoutInit, TimeoutNext, PTL DEF Spec

\* A READ that waits for data is guarded by its timer, except where the timer has
\* fired and was not believed (OnTimerTimeout, DequeueOperation): for every timeout.
THEOREM ReadIsWatched == Spec => []IdleClientIsWatched
  BY TimeoutInvariant, PTL DEF TimeoutInv

\* DisconnectClientByTimeout disconnects no client within the timeout of its last
\* data, unless the clock was set forward.
THEOREM SilenceBeforeTimeout == Spec => TimeoutOnlyAfterSilence
<1> DEFINE A == ~timed_out /\ timed_out' /\ shift <= 0 =>
                  IF received = -1 THEN now >= timeout ELSE now - received >= timeout
<1>1. TimeoutInv /\ [Next]_vars => [A]_timeout_vars
  <2> SUFFICES ASSUME TimeoutInv, [Next]_vars, ~timed_out, timed_out', shift <= 0
               PROVE  IF received = -1 THEN now >= timeout ELSE now - received >= timeout
    OBVIOUS
  <2>1. PICK r \in 1..MaxReads : OnTimerTimeout(r)
    BY DEF Next, TimeoutStep, vars, timeout_vars, Tick, ClockSet, DataArrives,
           UpdateLastDataReceiveTime, IssueClientRead, DequeueOperation
  <2>2. Times /\ Noted
    BY DEF TimeoutInv
  <2>3. now >= issued[r] + timeout /\ issued[r] \in Nat
    BY <2>1, <2>2 DEF OnTimerTimeout, Fires, Times
  <2>4. CASE received = -1
    BY <2>2, <2>3, <2>4 DEF Times
  <2>5. CASE received # -1
    <3>1. 2 * Seconds(last, now + shift) >= timeout
      BY <2>1, <2>5 DEF OnTimerTimeout, Real
    <3> DEFINE x == now + shift - last
    <3>2. x \in Nat /\ Seconds(last, now + shift) = x \div 2
      <4>1. CASE now + shift >= last
        BY <4>1, <2>2 DEF Times, Seconds
      <4>2. CASE now + shift < last
        <5> DEFINE y == last - (now + shift)
        <5>1. y \in Nat /\ Seconds(last, now + shift) = -(y \div 2)
          BY <4>2, <2>2 DEF Times, Seconds
        <5> HIDE DEF y
        <5>2. y \div 2 \in Nat
          BY <5>1, HalfSeconds
        <5> QED
          BY <5>1, <5>2, <3>1, <2>2 DEF Times
      <4> QED
        BY <4>1, <4>2, <2>2 DEF Times
    <3>3. 2 * (x \div 2) <= x
      BY <3>2, HalfSeconds
    <3>4. x <= now - received
      BY <2>2, <2>5 DEF Noted, Times
    <3>5. x \div 2 \in Nat
      BY <3>2, HalfSeconds
    <3> HIDE DEF x
    <3> QED
      BY <3>1, <3>2, <3>3, <3>4, <3>5, <2>2, <2>5 DEF Times
  <2> QED
    BY <2>4, <2>5
<1>2. TimeoutOnlyAfterSilence <=> [][A]_timeout_vars
  BY DEF TimeoutOnlyAfterSilence
<1> QED
  BY <1>1, <1>2, TimeoutInvariant, PTL DEF Spec
-----------------------------------------------------------------------------
(***************************************************************************)
(* Uploads and downloads, for every number of them: whose buffer a cookie  *)
(* leads to, and where the buffers of the pool are.                        *)
(***************************************************************************)

-----------------------------------------------------------------------------
(* Uploads.  An upload that shares its cookie with nobody has its own       *)
(* blocks in the buffer of its cookie.                                     *)

UploadTypes ==
    /\ desire \in [Files -> Nat]
    /\ cookie \in [Files -> Nat]
    /\ pieces \in [Files -> Nat]
    /\ base \in Nat \ {0}
    /\ orphans \in Nat

\* Cookies that were counted up are below the base, and each was given once.
CountedUp ==
    /\ \A f \in Files : cookie[f] = 0 => desire[f] = 0 /\ pieces[f] = 0
    /\ \A f \in Files : cookie[f] # 0 /\ desire[f] = 0 => cookie[f] < base
    /\ \A f, g \in Files : Shares(f, g) => desire[f] # 0 \/ desire[g] # 0

\* A buffer is somebody's.
Led == \A k \in DOMAIN buffers : k # 0 /\ \E g \in Files : cookie[g] = k

Alone(f) == \A g \in Files : ~Shares(f, g)
Own(f) == [n \in 1..pieces[f] |-> f]

Kept == \A f \in Files :
            Sends(f) /\ Alone(f) => cookie[f] \in DOMAIN buffers /\ buffers[cookie[f]] = Own(f)

Blamed ==
    /\ \A f \in damaged : \E g \in Files : Shares(f, g)
    /\ orphans > 0 => \E f, g \in Files : Shares(f, g)

UploadInv == UploadTypes /\ CountedUp /\ Led /\ Kept /\ Blamed /\ damaged \subseteq Files

LEMMA UploadInvImplies == UploadInv => UploadsKeptApart
  BY DEF UploadInv, UploadsKeptApart, CountedUp, Kept, Blamed, Alone

LEMMA OneMoreBlock ==
    ASSUME NEW f, NEW n \in Nat
    PROVE  Append([i \in 1..n |-> f], f) = [i \in 1..(n + 1) |-> f]
  OBVIOUS

LEMMA NoBlocks == ASSUME NEW f PROVE <<>> = [i \in 1..0 |-> f]
  OBVIOUS

LEMMA UploadInit == Init => UploadInv
<1> SUFFICES ASSUME InitUploads PROVE UploadInv
  BY DEF Init
<1> QED
  BY DEF InitUploads, UploadInv, UploadTypes, CountedUp, Led, Kept, Blamed, Sends, Alone, Shares

\* An upload gets a cookie k, of its own choice or the next one.
LEMMA CookieGiven ==
    ASSUME UploadInv, NEW f \in Files, NEW k \in Nat \ {0}, cookie[f] = 0,
           cookie' = [cookie EXCEPT ![f] = k],
           \/ desire' = [desire EXCEPT ![f] = k] /\ base' = base /\ orphans' = orphans
           \/ /\ desire' = desire /\ base' = base + 1 /\ k = base
              /\ orphans' = IF k \in DOMAIN buffers THEN orphans + 1 ELSE orphans,
           buffers' = Bind(k, <<>>),
           UNCHANGED <<pieces, finished, damaged>>
    PROVE  UploadInv'
<1>1. UploadTypes /\ CountedUp /\ Led /\ Kept /\ Blamed /\ damaged \subseteq Files
  BY DEF UploadInv
<1>2. UploadTypes' /\ damaged' \subseteq Files
  <2>1. cookie' \in [Files -> Nat] /\ pieces' \in [Files -> Nat] /\ damaged' \subseteq Files
    BY <1>1 DEF UploadTypes
  <2>2. desire' \in [Files -> Nat]
    BY <1>1 DEF UploadTypes
  <2>3. base' \in Nat \ {0} /\ orphans' \in Nat
    BY <1>1 DEF UploadTypes
  <2> QED
    BY <2>1, <2>2, <2>3 DEF UploadTypes
<1>3. /\ cookie'[f] = k /\ desire'[f] \in {desire[f], k}
      /\ \A g \in Files \ {f} : cookie'[g] = cookie[g] /\ desire'[g] = desire[g]
  BY <1>1 DEF UploadTypes
<1>4. ASSUME NEW g \in Files, NEW h \in Files, Shares(g, h) PROVE Shares(g, h)'
  BY <1>3, <1>4 DEF Shares
<1>5. CountedUp'
  <2>1. \A g \in Files : cookie'[g] = 0 => desire'[g] = 0 /\ pieces'[g] = 0
    BY <1>1, <1>3 DEF CountedUp
  <2>2. \A g \in Files : cookie'[g] # 0 /\ desire'[g] = 0 => cookie'[g] < base'
    <3> TAKE g \in Files
    <3>1. base \in Nat /\ base' \in Nat /\ base <= base' /\ cookie[g] \in Nat
      BY <1>1 DEF UploadTypes
    <3>2. CASE g = f
      <4>1. desire'[f] = 0 => base' = base + 1 /\ k = base
        BY <1>1, <1>3 DEF UploadTypes
      <4> QED
        BY <1>3, <3>1, <3>2, <4>1
    <3>3. CASE g # f
      BY <1>1, <1>3, <3>1, <3>3 DEF CountedUp
    <3> QED
      BY <3>2, <3>3
  <2>3. ASSUME NEW g \in Files, NEW h \in Files, Shares(g, h)'
        PROVE  desire'[g] # 0 \/ desire'[h] # 0
    <3>1. CASE g # f /\ h # f
      BY <1>1, <1>3, <2>3, <3>1 DEF CountedUp, Shares
    <3>2. ASSUME NEW u \in Files \ {f}, cookie'[u] = k, desire'[f] = 0 PROVE desire'[u] # 0
      <4>1. cookie[u] = base /\ base # 0
        BY <1>1, <1>3, <3>2 DEF UploadTypes
      <4> QED
        BY <1>1, <1>3, <4>1 DEF CountedUp, UploadTypes
    <3> QED
      BY <1>3, <2>3, <3>1, <3>2 DEF Shares
  <2> QED
    BY <2>1, <2>2, <2>3 DEF CountedUp
<1>6. Led'
  BY <1>1, <1>3 DEF Led, Bind
<1>7. Kept'
  <2> SUFFICES ASSUME NEW g \in Files, Sends(g)', Alone(g)'
               PROVE  cookie'[g] \in DOMAIN buffers' /\ buffers'[cookie'[g]] = Own(g)'
    BY DEF Kept
  <2>1. CASE g = f
    <3>1. pieces'[f] = 0
      BY <1>1 DEF CountedUp
    <3> QED
      BY <1>3, <2>1, <3>1, NoBlocks DEF Bind, Own
  <2>2. CASE g # f
    <3>1. cookie'[g] = cookie[g] /\ cookie[g] # k
      BY <1>3, <2>2 DEF Alone, Shares, Sends
    <3>2. Sends(g) /\ Alone(g)
      BY <1>4, <3>1 DEF Sends, Alone
    <3> QED
      BY <1>1, <3>1, <3>2 DEF Kept, Bind, Own
  <2> QED
    BY <2>1, <2>2
<1>8. Blamed'
  <2>1. \A g \in damaged' : \E h \in Files : Shares(g, h)'
    BY <1>1, <1>4 DEF Blamed
  <2>2. ASSUME orphans' > 0 PROVE \E g, h \in Files : Shares(g, h)'
    <3>1. CASE orphans > 0
      BY <1>1, <1>4, <3>1 DEF Blamed
    <3>2. CASE ~(orphans > 0)
      <4>1. k \in DOMAIN buffers
        BY <1>1, <2>2, <3>2 DEF UploadTypes
      <4>2. PICK g \in Files : cookie[g] = k
        BY <1>1, <4>1 DEF Led
      <4> QED
        BY <1>3, <4>2 DEF Shares
    <3> QED
      BY <3>1, <3>2
  <2> QED
    BY <2>1, <2>2 DEF Blamed
<1> QED
  BY <1>2, <1>5, <1>6, <1>7, <1>8 DEF UploadInv

LEMMA UploadNext == UploadInv /\ [Next]_vars => UploadInv'
<1> SUFFICES ASSUME UploadInv, [Next]_vars PROVE UploadInv'
  OBVIOUS
<1>0. UploadTypes /\ CountedUp /\ Led /\ Kept /\ Blamed /\ damaged \subseteq Files
  BY DEF UploadInv
<1>u. CASE UNCHANGED upload_vars
  <2>1. UploadTypes' /\ Led' /\ damaged' \subseteq Files
    BY <1>0, <1>u DEF upload_vars, UploadTypes, Led
  <2>2. CountedUp' /\ Blamed'
    BY <1>0, <1>u DEF upload_vars, CountedUp, Blamed, Shares
  <2>3. Kept'
    BY <1>0, <1>u DEF upload_vars, Kept, Sends, Alone, Shares, Own
  <2> QED
    BY <2>1, <2>2, <2>3 DEF UploadInv
<1>1. ASSUME NEW f \in Files, PrepareUpload(f) PROVE UploadInv'
  <2>1. base \in Nat \ {0}
    BY <1>0 DEF UploadTypes
  <2> QED
    BY <1>1, <2>1, CookieGiven DEF PrepareUpload
<1>2. ASSUME NEW f \in Files, NEW k \in Desired, PrepareDesired(f, k) PROVE UploadInv'
  <2>1. k \in Nat \ {0}
    BY DesiredAssumption
  <2> QED
    BY <1>2, <2>1, CookieGiven DEF PrepareDesired
<1>3. ASSUME NEW f \in Files, ProcessUpload(f) PROVE UploadInv'
  <2>1. /\ UNCHANGED <<desire, cookie, base, orphans, finished, damaged>>
        /\ Sends(f)
        /\ pieces'[f] = pieces[f] + 1 /\ pieces' \in [Files -> Nat]
        /\ \A g \in Files \ {f} : pieces'[g] = pieces[g]
    BY <1>0, <1>3 DEF ProcessUpload, UploadTypes
  <2>2. /\ DOMAIN buffers' = DOMAIN buffers
        /\ \A k \in DOMAIN buffers \ {cookie[f]} : buffers'[k] = buffers[k]
        /\ cookie[f] \in DOMAIN buffers => buffers'[cookie[f]] = Append(buffers[cookie[f]], f)
    BY <1>3 DEF ProcessUpload
  <2>3. UploadTypes' /\ Led' /\ Blamed'
    BY <1>0, <2>1, <2>2 DEF UploadTypes, Led, Blamed, Shares
  <2>4. CountedUp'
    BY <1>0, <2>1 DEF CountedUp, Shares, Sends
  <2>5. Kept'
    <3> SUFFICES ASSUME NEW g \in Files, Sends(g), Alone(g)
                 PROVE  cookie[g] \in DOMAIN buffers /\ buffers'[cookie[g]] = Own(g)'
      BY <2>1, <2>2 DEF Kept, Sends, Alone, Shares
    <3>1. cookie[g] \in DOMAIN buffers /\ buffers[cookie[g]] = Own(g)
      BY <1>0 DEF Kept
    <3>2. CASE g = f
      <4>1. Append(Own(f), f) = [n \in 1..(pieces[f] + 1) |-> f]
        <5>1. pieces[f] \in Nat
          BY <1>0 DEF UploadTypes
        <5> QED
          BY <5>1, OneMoreBlock DEF Own
      <4>2. buffers'[cookie[f]] = Append(Own(f), f)
        BY <2>2, <3>1, <3>2
      <4>3. Own(f)' = [n \in 1..(pieces[f] + 1) |-> f]
        BY <2>1 DEF Own
      <4> QED
        BY <3>1, <3>2, <4>1, <4>2, <4>3, Zenon
    <3>3. CASE g # f
      BY <2>1, <2>2, <3>1, <3>3 DEF Own, Alone, Shares, Sends
    <3> QED
      BY <3>2, <3>3
  <2> QED
    BY <1>0, <2>1, <2>3, <2>4, <2>5 DEF UploadInv
<1>4. ASSUME NEW f \in Files, CloseUpload(f) PROVE UploadInv'
  <2>1. /\ UNCHANGED <<desire, cookie, base, orphans, pieces>>
        /\ finished' = finished \union {f}
        /\ buffers' = Unbind(cookie[f])
        /\ Sends(f)
    BY <1>4 DEF CloseUpload
  <2>2. UploadTypes' /\ CountedUp' /\ Led'
    BY <1>0, <2>1 DEF UploadTypes, CountedUp, Led, Shares, Unbind
  <2>3. Kept'
    <3> SUFFICES ASSUME NEW g \in Files, Sends(g)', Alone(g)
                 PROVE  /\ cookie[g] \in DOMAIN Unbind(cookie[f])
                        /\ Unbind(cookie[f])[cookie[g]] = Own(g)
      BY <2>1 DEF Kept, Alone, Shares, Own
    <3>1. Sends(g) /\ cookie[g] # cookie[f]
      BY <2>1 DEF Sends, Alone, Shares
    <3> QED
      BY <1>0, <3>1 DEF Kept, Unbind
  <2>4. Blamed' /\ damaged' \subseteq Files
    <3>1. damaged' \subseteq damaged \union {f}
      BY <1>4 DEF CloseUpload
    <3>2. f \in damaged' => f \in damaged \/ ~Alone(f)
      BY <1>0, <1>4 DEF CloseUpload, Kept, Own
    <3> QED
      BY <1>0, <2>1, <3>1, <3>2 DEF Blamed, Alone, Shares
  <2> QED
    BY <2>2, <2>3, <2>4 DEF UploadInv
<1> QED
  BY <1>u, <1>1, <1>2, <1>3, <1>4 DEF Next, UploadStep, vars

\* Whatever cookies clients desire, the blocks of an upload reach its buffer and no
\* other, and it can be completed, unless two uploads have one cookie, which a client
\* must have desired (PrepareUpload, ProcessUpload, CloseUpload).
THEOREM UploadsApart == Spec => []UploadsKeptApart
  BY UploadInit, UploadNext, UploadInvImplies, PTL DEF Spec
-----------------------------------------------------------------------------
(* Downloads.  The buffers that are not in the queue are with a download    *)
(* that reads, or with one that has ended and closed its file.             *)

PoolTypes ==
    /\ free \in Nat /\ total \in Nat /\ spilled \in Nat
    /\ reading = [d \in Downloads |-> reading[d]]

\* A download that has begun to read has its file open.
FileOpen == \A d \in Downloads :
                reading[d] \in {"reading", "again", "last", "issuing"} => d \in handles

PoolInv == PoolTypes /\ FileOpen /\ PoolAccounting

\* Two sets that agree on all but one element.
LEMMA OneElement ==
    ASSUME NEW S, NEW T, NEW d, IsFiniteSet(S), T \ {d} = S \ {d}
    PROVE  /\ IsFiniteSet(T)
           /\ Cardinality(S) \in Nat /\ Cardinality(T) \in Nat
           /\ Cardinality(T) = Cardinality(S) + (IF d \in T THEN 1 ELSE 0)
                                             - (IF d \in S THEN 1 ELSE 0)
<1> DEFINE R == S \ {d}
<1>1. IsFiniteSet(R) /\ Cardinality(R) \in Nat
  BY FS_Subset, FS_CardinalityType
<1>2. IsFiniteSet(R \union {d}) /\ Cardinality(R \union {d}) = Cardinality(R) + 1
  BY <1>1, FS_AddElement
<1>3. (d \in S /\ S = R \union {d}) \/ (d \notin S /\ S = R)
  OBVIOUS
<1>4. (d \in T /\ T = R \union {d}) \/ (d \notin T /\ T = R)
  OBVIOUS
<1> HIDE DEF R
<1>5. IsFiniteSet(T)
  BY <1>1, <1>2, <1>4
<1>6. Cardinality(S) = Cardinality(R) + (IF d \in S THEN 1 ELSE 0)
  BY <1>1, <1>2, <1>3
<1>7. Cardinality(T) = Cardinality(R) + (IF d \in T THEN 1 ELSE 0)
  <2>1. CASE d \in T
    BY <1>2, <1>4, <2>1
  <2>2. CASE d \notin T
    BY <1>1, <1>4, <2>2
  <2> QED
    BY <2>1, <2>2
<1> QED
  BY ONLY <1>1, <1>5, <1>6, <1>7

\* The download d moves on.
LEMMA Moves ==
    ASSUME PoolTypes, NEW d \in Downloads, NEW state, To(d, state)
    PROVE  /\ reading' = [e \in Downloads |-> reading'[e]]
           /\ reading'[d] = state /\ \A e \in Downloads \ {d} : reading'[e] = reading[e]
           /\ Cardinality(Held) \in Nat /\ Cardinality(Held') \in Nat
           /\ Cardinality(Held') = Cardinality(Held) + (IF d \in Held' THEN 1 ELSE 0)
                                                    - (IF d \in Held THEN 1 ELSE 0)
<1>1. /\ reading' = [e \in Downloads |-> reading'[e]]
      /\ reading'[d] = state /\ \A e \in Downloads \ {d} : reading'[e] = reading[e]
  BY DEF To, PoolTypes
<1>2. IsFiniteSet(Held)
  BY DownloadsAssumption, FS_Subset DEF Held
<1>3. Held' \ {d} = Held \ {d}
  BY <1>1 DEF Held
<1> QED
  BY <1>1, <1>2, <1>3, OneElement

LEMMA Spills ==
    ASSUME PoolTypes, NEW d \in Downloads, NEW state, To(d, state),
           handles' \ {d} = handles \ {d}
    PROVE  /\ Cardinality(Spilt) \in Nat /\ Cardinality(Spilt') \in Nat
           /\ Cardinality(Spilt') = Cardinality(Spilt) + (IF d \in Spilt' THEN 1 ELSE 0)
                                                      - (IF d \in Spilt THEN 1 ELSE 0)
<1>1. IsFiniteSet(Spilt)
  BY DownloadsAssumption, FS_Subset DEF Spilt
<1>2. Spilt' \ {d} = Spilt \ {d}
  <2>1. \A e \in Downloads \ {d} : reading'[e] = reading[e]
    BY Moves
  <2> QED
    BY <2>1 DEF Spilt
<1> QED
  BY <1>1, <1>2, OneElement

\* 1 for a download that has a buffer.
Holds(state) == IF state \in {"opening", "reading", "issuing"} THEN 1 ELSE 0

\* A step of d that keeps the books, and leaves an open file to who reads it.
LEMMA BooksKept ==
    ASSUME PoolInv, NEW d \in Downloads, NEW state, To(d, state),
           reading[d] # "done",
           handles' \ {d} = handles \ {d},
           state \in {"reading", "again", "last", "issuing"} => d \in handles',
           free' \in Nat, total' \in Nat, spilled' \in Nat,
           total' - free' - spilled' = total - free - spilled + Holds(state) - Holds(reading[d]),
           spilled' = spilled + (IF state = "done" /\ d \notin handles' THEN 1 ELSE 0)
    PROVE  PoolInv'
<1>1. PoolTypes /\ FileOpen /\ PoolAccounting
  BY DEF PoolInv
<1>2. /\ reading' = [e \in Downloads |-> reading'[e]]
      /\ reading'[d] = state /\ \A e \in Downloads \ {d} : reading'[e] = reading[e]
  BY <1>1, Moves
<1>3. PoolTypes'
  BY <1>2 DEF PoolTypes
<1>4. FileOpen'
  BY <1>1, <1>2 DEF FileOpen
<1>5. total' = free' + spilled' + Cardinality(Held')
  <2>1. /\ Cardinality(Held) \in Nat /\ Cardinality(Held') \in Nat
        /\ Cardinality(Held') = Cardinality(Held) + (IF d \in Held' THEN 1 ELSE 0)
                                                 - (IF d \in Held THEN 1 ELSE 0)
    BY <1>1, Moves
  <2>2. total = free + spilled + Cardinality(Held)
    BY <1>1 DEF PoolAccounting
  <2>3. free \in Nat /\ total \in Nat /\ spilled \in Nat
    BY <1>1 DEF PoolTypes
  <2>4. (IF d \in Held' THEN 1 ELSE 0) = Holds(state) /\ (IF d \in Held THEN 1 ELSE 0) = Holds(reading[d])
    BY <1>2 DEF Held, Holds
  <2>5. Holds(state) \in Nat /\ Holds(reading[d]) \in Nat
    BY DEF Holds
  <2>6. Cardinality(Held') = Cardinality(Held) + Holds(state) - Holds(reading[d])
    BY <2>1, <2>4, Zenon
  <2> QED
    BY <2>1, <2>2, <2>3, <2>5, <2>6
<1>6. spilled' = Cardinality(Spilt')
  <2>1. Cardinality(Spilt) \in Nat /\ Cardinality(Spilt') \in Nat
    BY <1>1, Spills
  <2>2. d \notin Spilt /\ (d \in Spilt' <=> state = "done" /\ d \notin handles')
    BY <1>2 DEF Spilt
  <2>3. Cardinality(Spilt') = Cardinality(Spilt) + (IF d \in Spilt' THEN 1 ELSE 0)
                                               - (IF d \in Spilt THEN 1 ELSE 0)
    BY <1>1, Spills
  <2>4. spilled = Cardinality(Spilt)
    BY <1>1 DEF PoolAccounting
  <2> QED
    BY <2>1, <2>2, <2>3, <2>4
<1> QED
  BY <1>3, <1>4, <1>5, <1>6 DEF PoolInv, PoolAccounting

LEMMA PoolInit == Init => PoolInv
<1> SUFFICES ASSUME InitFiles PROVE PoolInv
  BY DEF Init
<1>1. Held = {} /\ Spilt = {}
  BY DEF InitFiles, Held, Spilt
<1>2. Cardinality({}) = 0
  BY FS_EmptySet
<1>3. PoolTypes /\ FileOpen
  BY BuffersAssumption DEF InitFiles, CreateBuffers, PoolTypes, FileOpen
<1> QED
  BY <1>1, <1>2, <1>3, BuffersAssumption
     DEF InitFiles, CreateBuffers, PoolInv, PoolTypes, PoolAccounting

\* ExpandBuffers keeps the difference.
LEMMA Expands ==
    ASSUME PoolTypes, ExpandBuffers
    PROVE  free' \in Nat /\ total' \in Nat /\ total' - free' = total - free
  BY DEF PoolTypes, ExpandBuffers

LEMMA DownloadNext ==
    ASSUME PoolInv, NEW d \in Downloads,
           \/ PassiveDownload(d) \/ GetBuffer(d) \/ GetBufferExpands(d) \/ NoFirstBuffer(d)
           \/ CannotOpen(d) \/ FirstRead(d) \/ FirstReadFails(d)
           \/ BlockRead(d) \/ EndOfFile(d) \/ NoNextBuffer(d) \/ NextRead(d) \/ NextReadFails(d)
    PROVE  PoolInv'
<1>0. PoolTypes /\ FileOpen /\ (reading[d] \in {"reading", "again", "last", "issuing"} => d \in handles)
  BY DEF PoolInv, FileOpen
<1>t. free \in Nat /\ total \in Nat /\ spilled \in Nat
  BY <1>0 DEF PoolTypes
<1>1. CASE PassiveDownload(d)
  <2>1. To(d, "first") /\ reading[d] = "idle" /\ UNCHANGED <<free, total, spilled, handles>>
    BY <1>1 DEF PassiveDownload, pool_vars
  <2> QED
    BY <1>0, <1>t, <2>1, BooksKept DEF Holds
<1>2. CASE GetBuffer(d)
  <2>1. /\ To(d, Gets[reading[d]]) /\ UNCHANGED <<total, spilled, handles>>
        /\ free > 0 /\ free' = free - 1
        /\ reading[d] \in {"first", "second", "again", "last"}
    BY <1>2 DEF GetBuffer, Dequeue, Gets
  <2>2. \/ reading[d] \in {"first", "second"} /\ Gets[reading[d]] = "opening"
        \/ reading[d] \in {"again", "last"} /\ Gets[reading[d]] = "issuing"
    BY <2>1 DEF Gets
  <2>3. \E state \in {"opening", "issuing"} : To(d, state) /\ (state = "issuing" => d \in handles)
    BY <1>0, <2>1, <2>2
  <2> QED
    BY <1>0, <1>t, <2>1, <2>3, BooksKept DEF Holds
<1>3. CASE GetBufferExpands(d)
  <2>1. /\ To(d, Attempts[reading[d]]) /\ UNCHANGED <<spilled, handles>>
        /\ ExpandBuffers
        /\ reading[d] \in {"first", "again"}
    BY <1>3 DEF GetBufferExpands, Attempts
  <2>2. \E state \in {"second", "last"} : To(d, state) /\ (state = "last" => d \in handles)
    BY <1>0, <2>1 DEF Attempts
  <2> QED
    BY <1>0, <1>t, <2>1, <2>2, Expands, BooksKept DEF Holds
<1>4. CASE NoFirstBuffer(d)
  <2>1. To(d, "starved") /\ reading[d] = "second" /\ ExpandBuffers /\ UNCHANGED <<spilled, handles>>
    BY <1>4 DEF NoFirstBuffer
  <2> QED
    BY <1>0, <1>t, <2>1, Expands, BooksKept DEF Holds
<1>5. CASE CannotOpen(d) \/ FirstReadFails(d)
  <2>1. /\ To(d, "refused") /\ reading[d] = "opening"
        /\ free' = free + 1 /\ UNCHANGED <<total, spilled, handles>>
    BY <1>5 DEF CannotOpen, FirstReadFails
  <2> QED
    BY <1>0, <1>t, <2>1, BooksKept DEF Holds
<1>6. CASE FirstRead(d)
  <2>1. /\ To(d, "reading") /\ reading[d] = "opening"
        /\ handles' = handles \union {d} /\ UNCHANGED <<free, total, spilled>>
    BY <1>6 DEF FirstRead, pool_vars
  <2> QED
    BY <1>0, <1>t, <2>1, BooksKept DEF Holds
<1>7. CASE BlockRead(d)
  <2>1. /\ To(d, "again") /\ reading[d] = "reading"
        /\ free' = free + 1 /\ UNCHANGED <<total, spilled, handles>>
    BY <1>7 DEF BlockRead, ReleaseBuffer
  <2> QED
    BY <1>0, <1>t, <2>1, BooksKept DEF Holds
<1>8. CASE EndOfFile(d)
  <2>1. /\ To(d, "done") /\ reading[d] = "reading"
        /\ spilled' = spilled + 1 /\ handles' = handles \ {d} /\ UNCHANGED <<free, total>>
    BY <1>8 DEF EndOfFile
  <2> QED
    BY <1>0, <1>t, <2>1, BooksKept DEF Holds
<1>9. CASE NoNextBuffer(d)
  <2>1. /\ To(d, "starved") /\ reading[d] = "last" /\ ExpandBuffers
        /\ handles' = handles \ {d} /\ UNCHANGED spilled
    BY <1>9 DEF NoNextBuffer
  <2> QED
    BY <1>0, <1>t, <2>1, Expands, BooksKept DEF Holds
<1>10. CASE NextRead(d)
  <2>1. To(d, "reading") /\ reading[d] = "issuing" /\ UNCHANGED <<free, total, spilled, handles>>
    BY <1>10 DEF NextRead, pool_vars
  <2> QED
    BY <1>0, <1>t, <2>1, BooksKept DEF Holds
<1>11. CASE NextReadFails(d)
  <2>1. /\ To(d, "done") /\ reading[d] = "issuing"
        /\ free' = free + 1 /\ UNCHANGED <<total, spilled, handles>>
    BY <1>11 DEF NextReadFails
  <2> QED
    BY <1>0, <1>t, <2>1, BooksKept DEF Holds
<1> QED
  BY <1>1, <1>2, <1>3, <1>4, <1>5, <1>6, <1>7, <1>8, <1>9, <1>10, <1>11

LEMMA PoolNext == PoolInv /\ [Next]_vars => PoolInv'
<1> SUFFICES ASSUME PoolInv, [Next]_vars PROVE PoolInv'
  OBVIOUS
<1>u. CASE UNCHANGED <<free, total, spilled, reading, handles>>
  BY <1>u DEF PoolInv, PoolTypes, FileOpen, PoolAccounting, Held, Spilt
<1>1. CASE UNCHANGED file_vars
  BY <1>1, <1>u DEF file_vars, pool_vars, download_vars
<1>2. CASE \E d \in Downloads : Answer(d)
  BY <1>2, <1>u DEF Answer, pool_vars
<1>3. CASE ClientGone
  BY <1>3, <1>u DEF ClientGone, pool_vars
<1> QED
  BY <1>1, <1>2, <1>3, DownloadNext DEF Next, FileStep, vars

\* Every buffer that was made is in the queue, or with a read, or was forgotten by
\* a download that ended and closed its file (WTProcessFileRead, GetBuffer): whatever
\* fails and however many downloads there are, nothing else loses one.
THEOREM BuffersAccounted == Spec => []PoolAccounting
  BY PoolInit, PoolNext, PTL DEF Spec, PoolInv
-----------------------------------------------------------------------------
(***************************************************************************)
(* The maps and the counters of the monitors, for every number of clients  *)
(* and threads.  While a role is being set, the maps are partly those of   *)
(* the old role and the counters still are: a client counts for the role   *)
(* that was last counted.                                                  *)
(***************************************************************************)

Sets(t, c) == setting[t].client = c

Idle == \A t \in Setters : setting[t].client = Nobody => setting[t] = Free

\* A client that was not overtaken is set by one thread at most, while it is there.
OneSetter ==
    \A c \in Members \ overtaken, t \in Setters : Sets(t, c) =>
        /\ \A u \in Setters : Sets(u, c) => t = u
        /\ leaving[c] = "no"
        /\ role[c] = setting[t].new

InMaps ==
    \A c \in Members \ overtaken :
        /\ \A t \in Setters : Sets(t, c) =>
              /\ c \in monitors["log"] <=>
                    (IF setting[t].step = "log" THEN setting[t].old ELSE setting[t].new) = "log"
              /\ c \in monitors["debug"] <=>
                    (IF setting[t].step = "count" THEN setting[t].new ELSE setting[t].old) = "debug"
        /\ Settled(c) => \A m \in Monitors : c \in monitors[m] <=> leaving[c] = "no" /\ role[c] = m

\* The clients that were counted for m and not uncounted.
Counted(m) ==
    {c \in Members : /\ leaving[c] = "no"
                     /\ IF \E t \in Setters : Sets(t, c)
                        THEN \E t \in Setters : Sets(t, c) /\ setting[t].old = m
                        ELSE role[c] = m}

RightCount == overtaken = {} => \A m \in Monitors : count[m] = Cardinality(Counted(m))

RoleInv == TypeOKRoles /\ Idle /\ OneSetter /\ InMaps /\ RightCount

LEMMA RoleInit == Init => RoleInv
<1> SUFFICES ASSUME InitRoles PROVE RoleInv
  BY DEF Init
<1>1. TypeOKRoles
  BY DEF InitRoles, TypeOKRoles, Monitors, Roles, Free
<1>2. Idle /\ OneSetter /\ InMaps
  BY NobodyAssumption
     DEF InitRoles, Idle, OneSetter, InMaps, Sets, Free, Settled, Monitors
<1>3. \A m \in Monitors : Counted(m) = {}
  BY NobodyAssumption DEF InitRoles, Counted, Sets, Free, Monitors
<1>4. RightCount
  BY <1>3, FS_EmptySet DEF InitRoles, RightCount
<1> QED
  BY <1>1, <1>2, <1>4 DEF RoleInv

LEMMA RoleInvImplies == RoleInv => RolesSettled
<1> SUFFICES ASSUME RoleInv PROVE RolesSettled
  OBVIOUS
<1>1. \A c \in Members \ overtaken : Settled(c) =>
          \A m \in Monitors : c \in monitors[m] <=> (leaving[c] = "no" /\ role[c] = m)
  BY DEF RoleInv, InMaps
<1>2. ASSUME \A t \in Setters : setting[t] = Free, overtaken = {}, NEW m \in Monitors
      PROVE  count[m] = Cardinality({c \in Present : role[c] = m})
  <2>1. Counted(m) = {c \in Present : role[c] = m}
    BY <1>2, NobodyAssumption DEF Counted, Sets, Free, Present
  <2> QED
    BY <1>2, <2>1 DEF RoleInv, RightCount
<1> QED
  BY <1>1, <1>2 DEF RolesSettled

\* One client less or more.
LEMMA OneClient ==
    ASSUME NEW S, NEW T, NEW c, IsFiniteSet(S), T \ {c} = S \ {c}
    PROVE  /\ Cardinality(S) \in Nat /\ Cardinality(T) \in Nat
           /\ Cardinality(T) = Cardinality(S) + (IF c \in T THEN 1 ELSE 0)
                                             - (IF c \in S THEN 1 ELSE 0)
<1> DEFINE R == S \ {c}
<1>1. IsFiniteSet(R) /\ Cardinality(R) \in Nat
  BY FS_Subset, FS_CardinalityType
<1>2. Cardinality(R \union {c}) = Cardinality(R) + 1
  BY <1>1, FS_AddElement
<1>3. (c \in S /\ S = R \union {c}) \/ (c \notin S /\ S = R)
  OBVIOUS
<1>4. (c \in T /\ T = R \union {c}) \/ (c \notin T /\ T = R)
  OBVIOUS
<1> HIDE DEF R
<1>5. IsFiniteSet(T)
  BY <1>1, FS_AddElement, <1>4
<1>6. Cardinality(S) = Cardinality(R) + (IF c \in S THEN 1 ELSE 0)
  <2>1. CASE c \in S
    BY <1>2, <1>3, <2>1
  <2>2. CASE c \notin S
    BY <1>1, <1>3, <2>2
  <2> QED
    BY <2>1, <2>2
<1>7. Cardinality(T) = Cardinality(R) + (IF c \in T THEN 1 ELSE 0)
  <2>1. CASE c \in T
    BY <1>2, <1>4, <2>1
  <2>2. CASE c \notin T
    BY <1>1, <1>4, <2>2
  <2> QED
    BY <2>1, <2>2
<1> QED
  BY ONLY <1>1, <1>6, <1>7

LEMMA CountedFinite == \A m : IsFiniteSet(Counted(m))
  BY MembersAssumption, FS_Subset DEF Counted

LEMMA SetRoleKeeps ==
    ASSUME RoleInv, NEW t \in Setters, NEW c \in Members, NEW r \in Roles, SetRole(t, c, r)
    PROVE  RoleInv'
<1>0. TypeOKRoles /\ Idle /\ OneSetter /\ InMaps /\ RightCount
  BY DEF RoleInv
<1>1. /\ setting[t] = Free
      /\ setting'[t] = [client |-> c, new |-> r, old |-> role[c], step |-> "log"]
      /\ \A u \in Setters \ {t} : setting'[u] = setting[u]
      /\ role'[c] = r /\ \A d \in Members \ {c} : role'[d] = role[d]
      /\ UNCHANGED <<monitors, count, leaving>>
  BY <1>0 DEF SetRole, TypeOKRoles
<1>2. /\ overtaken \subseteq overtaken'
      /\ c \notin overtaken' => leaving[c] = "no" /\ \A u \in Setters : ~Sets(u, c)
  BY DEF SetRole, Sets
<1>3. TypeOKRoles'
  BY <1>0 DEF SetRole, TypeOKRoles
<1>4. Idle'
  BY <1>0, <1>1, NobodyAssumption DEF Idle
<1>5. OneSetter'
  BY <1>0, <1>1, <1>2, NobodyAssumption DEF OneSetter, Sets, Free
<1>6. InMaps'
  <2> SUFFICES ASSUME NEW d \in Members \ overtaken'
               PROVE  /\ \A u \in Setters : Sets(u, d)' =>
                           /\ d \in monitors["log"] <=> (IF setting'[u].step = "log"
                                  THEN setting'[u].old ELSE setting'[u].new) = "log"
                           /\ d \in monitors["debug"] <=> (IF setting'[u].step = "count"
                                  THEN setting'[u].new ELSE setting'[u].old) = "debug"
                      /\ Settled(d)' => \A m \in Monitors :
                             d \in monitors[m] <=> leaving[d] = "no" /\ role'[d] = m
    BY <1>1 DEF InMaps
  <2>1. CASE d = c
    <3>1. Settled(c)
      BY <1>2, <2>1 DEF Settled, Sets
    <3>2. \A m \in Monitors : c \in monitors[m] <=> role[c] = m
      BY <1>0, <1>2, <2>1, <3>1 DEF InMaps
    <3>3. \A u \in Setters : Sets(u, c)' => u = t
      BY <1>1, <1>2, <2>1 DEF Sets
    <3>4. ~Settled(c)'
      BY <1>1 DEF Settled
    <3> QED
      BY <1>1, <2>1, <3>2, <3>3, <3>4 DEF Monitors
  <2>2. CASE d # c
    <3>1. \A u \in Setters : Sets(u, d)' => u # t /\ Sets(u, d) /\ setting'[u] = setting[u]
      BY <1>1, <2>2 DEF Sets
    <3>2. Settled(d)' => Settled(d)
      BY <1>1, NobodyAssumption DEF Settled, Free
    <3> QED
      BY <1>0, <1>1, <1>2, <2>2, <3>1, <3>2 DEF InMaps
  <2> QED
    BY <2>1, <2>2
<1>7. RightCount'
  <2> SUFFICES ASSUME overtaken' = {}, NEW m \in Monitors
               PROVE  count'[m] = Cardinality(Counted(m)')
    BY DEF RightCount
  <2>1. overtaken = {} /\ c \notin overtaken'
    BY <1>2
  <2>2. ASSUME NEW d \in Members PROVE d \in Counted(m)' <=> d \in Counted(m)
    <3>1. CASE d = c
      BY <1>1, <1>2, <2>1, <3>1 DEF Counted, Sets
    <3>2. CASE d # c
      <4>1. \A u \in Setters : Sets(u, d)' <=> Sets(u, d)
        BY <1>1, <3>2, NobodyAssumption DEF Sets, Free
      <4>2. \A u \in Setters : Sets(u, d) => setting'[u] = setting[u]
        BY <1>1, NobodyAssumption DEF Sets, Free
      <4> QED
        BY <1>1, <3>2, <4>1, <4>2 DEF Counted
    <3> QED
      BY <3>1, <3>2
  <2>3. Counted(m)' = Counted(m)
    BY <2>2 DEF Counted
  <2> QED
    BY <1>0, <1>1, <2>1, <2>3 DEF RightCount
<1> QED
  BY <1>3, <1>4, <1>5, <1>6, <1>7 DEF RoleInv

\* A step of SetTcpClientRole that neither begins nor ends it.
LEMMA SetMonitorKeeps ==
    ASSUME RoleInv, NEW t \in Setters, SetLogMonitor(t) \/ SetDebugMonitor(t)
    PROVE  RoleInv'
<1>0. TypeOKRoles /\ Idle /\ OneSetter /\ InMaps /\ RightCount
  BY DEF RoleInv
<1> DEFINE c == setting[t].client
<1>1. /\ setting'[t].client = c /\ setting'[t].new = setting[t].new
      /\ setting'[t].old = setting[t].old
      /\ \A u \in Setters \ {t} : setting'[u] = setting[u]
      /\ UNCHANGED <<member, role, count, leaving, overtaken>>
  BY <1>0 DEF SetLogMonitor, SetDebugMonitor, Advance, TypeOKRoles
<1>2. TypeOKRoles'
  <2>1. setting' \in [Setters -> [client : Members \union {Nobody}, new : Roles, old : Roles,
                                  step : {"none", "log", "debug", "count"}]]
    BY <1>0 DEF SetLogMonitor, SetDebugMonitor, Advance, TypeOKRoles
  <2>2. monitors' \in [Monitors -> SUBSET Members]
    <3>1. \A m \in Monitors : monitors'[m] \subseteq Members
      <4>1. setting[t].step # "none" /\ setting[t] # Free
        BY DEF SetLogMonitor, SetDebugMonitor, Advance, Free
      <4>2. c \in Members
        BY <1>0, <4>1 DEF Idle, TypeOKRoles
      <4> QED
        BY <1>0, <4>2 DEF SetLogMonitor, SetDebugMonitor, SetMonitor, TypeOKRoles, Monitors
    <3>2. monitors' = [m \in Monitors |-> monitors'[m]]
      BY <1>0 DEF SetLogMonitor, SetDebugMonitor, SetMonitor, TypeOKRoles
    <3> QED
      BY <3>1, <3>2
  <2> QED
    BY <1>0, <1>1, <2>1, <2>2 DEF TypeOKRoles
<1>3. \A u \in Setters : /\ setting'[u].client = setting[u].client
                         /\ setting'[u].new = setting[u].new /\ setting'[u].old = setting[u].old
  BY <1>1
<1>4. c # Nobody
  BY <1>0 DEF Idle, Free, SetLogMonitor, SetDebugMonitor, Advance
<1>5. Idle'
  BY <1>0, <1>1, <1>4 DEF Idle
<1>6. OneSetter'
  BY <1>0, <1>1, <1>3 DEF OneSetter, Sets
<1>7. RightCount'
  BY <1>0, <1>1, <1>3 DEF RightCount, Counted, Sets
<1>8. InMaps'
  <2> SUFFICES ASSUME NEW d \in Members \ overtaken
               PROVE  /\ \A u \in Setters : Sets(u, d) =>
                           /\ d \in monitors'["log"] <=> (IF setting'[u].step = "log"
                                  THEN setting[u].old ELSE setting[u].new) = "log"
                           /\ d \in monitors'["debug"] <=> (IF setting'[u].step = "count"
                                  THEN setting[u].new ELSE setting[u].old) = "debug"
                      /\ Settled(d) => \A m \in Monitors :
                             d \in monitors'[m] <=> leaving[d] = "no" /\ role[d] = m
    BY <1>1, <1>3 DEF InMaps, Sets, Settled
  <2>1. CASE d = c
    <3>1. \A u \in Setters : Sets(u, d) => u = t
      BY <1>0, <2>1 DEF OneSetter, Sets
    <3>2. ~Settled(d)
      BY <2>1 DEF Settled
    <3>3. CASE SetLogMonitor(t)
      <4>1. /\ setting[t].step = "log" /\ setting'[t].step = "debug"
            /\ monitors'["debug"] = monitors["debug"]
            /\ c \in monitors'["log"] <=> setting[t].new = "log"
        BY <1>0, <3>3 DEF SetLogMonitor, Advance, SetMonitor, TypeOKRoles, Monitors
      <4>2. c \in monitors["debug"] <=> setting[t].old = "debug"
        BY <1>0, <2>1, <4>1 DEF InMaps, Sets
      <4> QED
        BY <2>1, <3>1, <3>2, <4>1, <4>2
    <3>4. CASE SetDebugMonitor(t)
      <4>1. /\ setting[t].step = "debug" /\ setting'[t].step = "count"
            /\ monitors'["log"] = monitors["log"]
            /\ c \in monitors'["debug"] <=> setting[t].new = "debug"
        BY <1>0, <3>4 DEF SetDebugMonitor, Advance, SetMonitor, TypeOKRoles, Monitors
      <4>2. c \in monitors["log"] <=> setting[t].new = "log"
        BY <1>0, <2>1, <4>1 DEF InMaps, Sets
      <4> QED
        BY <2>1, <3>1, <3>2, <4>1, <4>2
    <3> QED
      BY <3>3, <3>4
  <2>2. CASE d # c
    <3>1. \A m \in Monitors : d \in monitors'[m] <=> d \in monitors[m]
      BY <1>0, <2>2 DEF SetLogMonitor, SetDebugMonitor, SetMonitor, TypeOKRoles, Monitors
    <3>2. \A u \in Setters : Sets(u, d) => setting'[u] = setting[u]
      BY <1>1, <2>2 DEF Sets
    <3> QED
      BY <1>0, <3>1, <3>2 DEF InMaps, Monitors
  <2> QED
    BY <2>1, <2>2
<1> QED
  BY <1>2, <1>5, <1>6, <1>7, <1>8 DEF RoleInv

LEMMA CountRoleKeeps ==
    ASSUME RoleInv, NEW t \in Setters, CountRole(t)
    PROVE  RoleInv'
<1>0. TypeOKRoles /\ Idle /\ OneSetter /\ InMaps /\ RightCount
  BY DEF RoleInv
<1> DEFINE c == setting[t].client
           new == setting[t].new
           old == setting[t].old
<1>1. /\ setting[t].step = "count" /\ setting'[t] = Free
      /\ \A u \in Setters \ {t} : setting'[u] = setting[u]
      /\ UNCHANGED <<member, role, monitors, leaving, overtaken>>
  BY <1>0 DEF CountRole, TypeOKRoles
<1>2. c \in Members /\ new \in Roles /\ old \in Roles
  BY <1>0, <1>1 DEF Idle, Free, TypeOKRoles
<1>3. TypeOKRoles'
  <2>1. setting' \in [Setters -> [client : Members \union {Nobody}, new : Roles, old : Roles,
                                  step : {"none", "log", "debug", "count"}]]
    BY <1>0 DEF CountRole, TypeOKRoles, Free, Roles
  <2>2. count' \in [Monitors -> Int]
    BY <1>0 DEF CountRole, TypeOKRoles, Change
  <2> QED
    BY <1>0, <1>1, <2>1, <2>2 DEF TypeOKRoles
<1>4. Idle'
  BY <1>0, <1>1 DEF Idle
<1>5. OneSetter'
  BY <1>0, <1>1, NobodyAssumption DEF OneSetter, Sets, Free
<1>6. InMaps'
  <2> SUFFICES ASSUME NEW d \in Members \ overtaken
               PROVE  /\ \A u \in Setters : Sets(u, d)' =>
                           /\ d \in monitors["log"] <=> (IF setting'[u].step = "log"
                                  THEN setting'[u].old ELSE setting'[u].new) = "log"
                           /\ d \in monitors["debug"] <=> (IF setting'[u].step = "count"
                                  THEN setting'[u].new ELSE setting'[u].old) = "debug"
                      /\ Settled(d)' => \A m \in Monitors :
                             d \in monitors[m] <=> leaving[d] = "no" /\ role[d] = m
    BY <1>1 DEF InMaps
  <2>1. \A u \in Setters : Sets(u, d)' => Sets(u, d) /\ setting'[u] = setting[u]
    BY <1>1, NobodyAssumption DEF Sets, Free
  <2>2. CASE d = c
    <3>1. leaving[d] = "no" /\ role[d] = new
      BY <1>0, <2>2 DEF OneSetter, Sets
    <3>2. \A m \in Monitors : d \in monitors[m] <=> new = m
      BY <1>0, <1>1, <2>2 DEF InMaps, Sets, Monitors
    <3> QED
      BY <1>0, <2>1, <3>1, <3>2 DEF InMaps
  <2>3. CASE d # c
    <3>1. Settled(d)' => Settled(d)
      BY <1>1, <2>3 DEF Settled
    <3> QED
      BY <1>0, <2>1, <3>1 DEF InMaps
  <2> QED
    BY <2>2, <2>3
<1>7. RightCount'
  <2> SUFFICES ASSUME overtaken = {}, NEW m \in Monitors
               PROVE  count'[m] = Cardinality(Counted(m)')
    BY <1>1 DEF RightCount
  <2>1. /\ leaving[c] = "no" /\ role[c] = new
        /\ \A u \in Setters : Sets(u, c) => u = t
    BY <1>0, <1>2 DEF OneSetter, Sets
  <2>2. c \in Counted(m) <=> old = m
    BY <1>2, <2>1 DEF Counted, Sets
  <2>3. c \in Counted(m)' <=> new = m
    <3>1. \A u \in Setters : setting'[u].client # c
      BY <1>1, <1>2, <2>1, NobodyAssumption DEF Sets, Free
    <3> QED
      BY <1>1, <1>2, <2>1, <3>1 DEF Counted, Sets
  <2>4. ASSUME NEW d \in Members, d # c PROVE d \in Counted(m)' <=> d \in Counted(m)
    <3>1. \A u \in Setters : Sets(u, d)' <=> Sets(u, d)
      BY <1>1, <2>4, NobodyAssumption DEF Sets, Free
    <3>2. \A u \in Setters : Sets(u, d) => setting'[u] = setting[u]
      BY <1>1, <2>4 DEF Sets
    <3> QED
      BY <1>1, <3>1, <3>2 DEF Counted
  <2>5. Counted(m)' \ {c} = Counted(m) \ {c}
    BY <2>4 DEF Counted
  <2>6. /\ Cardinality(Counted(m)) \in Nat
        /\ Cardinality(Counted(m)') = Cardinality(Counted(m))
              + (IF c \in Counted(m)' THEN 1 ELSE 0) - (IF c \in Counted(m) THEN 1 ELSE 0)
    <3>1. IsFiniteSet(Counted(m))
      BY CountedFinite
    <3> HIDE DEF c
    <3> QED
      BY <2>5, <3>1, OneClient
  <2>7. count'[m] = count[m] + Change(m, old, new) /\ count[m] = Cardinality(Counted(m))
    BY <1>0 DEF CountRole, RightCount
  <2> HIDE DEF c, old, new
  <2> QED
    BY <2>2, <2>3, <2>6, <2>7 DEF Change
<1> QED
  BY <1>3, <1>4, <1>5, <1>6, <1>7 DEF RoleInv

LEMMA LeavingKeeps ==
    ASSUME RoleInv, NEW c \in Members, UncountMonitor(c) \/ EraseClient(c) \/ EraseMonitors(c)
    PROVE  RoleInv'
<1>0. TypeOKRoles /\ Idle /\ OneSetter /\ InMaps /\ RightCount
  BY DEF RoleInv
<1>1. /\ leaving'[c] \in {"uncounted", "erased", "gone"}
      /\ \A d \in Members \ {c} : leaving'[d] = leaving[d]
      /\ UNCHANGED <<role, setting>>
      /\ overtaken \subseteq overtaken'
      /\ c \notin overtaken' => \A u \in Setters : ~Sets(u, c)
  <2>1. CASE UncountMonitor(c)
    BY <1>0, <2>1 DEF UncountMonitor, TypeOKRoles, Sets
  <2>2. CASE EraseClient(c) \/ EraseMonitors(c)
    BY <1>0, <2>2 DEF EraseClient, EraseMonitors, TypeOKRoles, OneSetter
  <2> QED
    BY <2>1, <2>2
<1>2. TypeOKRoles'
  <2>1. CASE UncountMonitor(c)
    BY <1>0, <2>1 DEF UncountMonitor, TypeOKRoles
  <2>2. CASE EraseClient(c)
    BY <1>0, <2>2 DEF EraseClient, TypeOKRoles
  <2>3. CASE EraseMonitors(c)
    BY <1>0, <2>3 DEF EraseMonitors, TypeOKRoles
  <2> QED
    BY <2>1, <2>2, <2>3
<1>3. Idle'
  BY <1>0, <1>1 DEF Idle
<1>4. OneSetter'
  BY <1>0, <1>1 DEF OneSetter, Sets
<1>5. InMaps'
  <2> SUFFICES ASSUME NEW d \in Members \ overtaken'
               PROVE  /\ \A u \in Setters : Sets(u, d) =>
                           /\ d \in monitors'["log"] <=> (IF setting[u].step = "log"
                                  THEN setting[u].old ELSE setting[u].new) = "log"
                           /\ d \in monitors'["debug"] <=> (IF setting[u].step = "count"
                                  THEN setting[u].new ELSE setting[u].old) = "debug"
                      /\ Settled(d)' => \A m \in Monitors :
                             d \in monitors'[m] <=> leaving'[d] = "no" /\ role[d] = m
    BY <1>1 DEF InMaps, Sets
  <2>1. CASE d = c
    <3>1. \A u \in Setters : ~Sets(u, d)
      BY <1>1, <2>1
    <3>2. leaving'[c] = "gone" => \A m \in Monitors : c \notin monitors'[m]
      BY <1>0 DEF UncountMonitor, EraseClient, EraseMonitors, TypeOKRoles
    <3> QED
      BY <1>1, <2>1, <3>1, <3>2 DEF Settled
  <2>2. CASE d # c
    <3>1. \A m \in Monitors : d \in monitors'[m] <=> d \in monitors[m]
      BY <1>0, <2>2 DEF UncountMonitor, EraseClient, EraseMonitors, TypeOKRoles
    <3>2. leaving'[d] = leaving[d] /\ (Settled(d)' => Settled(d))
      BY <1>1, <2>2 DEF Settled
    <3> QED
      BY <1>0, <1>1, <3>1, <3>2 DEF InMaps, Monitors
  <2> QED
    BY <2>1, <2>2
<1>6. RightCount'
  <2> SUFFICES ASSUME overtaken' = {}, NEW m \in Monitors
               PROVE  count'[m] = Cardinality(Counted(m)')
    BY DEF RightCount
  <2>1. overtaken = {} /\ \A u \in Setters : ~Sets(u, c)
    BY <1>1
  <2>2. c \notin Counted(m)'
    BY <1>1 DEF Counted
  <2>3. Counted(m)' \ {c} = Counted(m) \ {c}
    BY <1>1 DEF Counted, Sets
  <2>4. /\ Cardinality(Counted(m)) \in Nat
        /\ Cardinality(Counted(m)') = Cardinality(Counted(m))
                                         - (IF c \in Counted(m) THEN 1 ELSE 0)
    BY <2>2, <2>3, CountedFinite, OneClient
  <2>5. count[m] = Cardinality(Counted(m))
    BY <1>0, <2>1 DEF RightCount
  <2>6. CASE UncountMonitor(c)
    <3>1. c \in Counted(m) <=> role[c] = m
      BY <2>1, <2>6 DEF UncountMonitor, Counted
    <3>2. count'[m] = count[m] - (IF role[c] = m THEN 1 ELSE 0)
      BY <2>6 DEF UncountMonitor
    <3> QED
      BY <2>4, <2>5, <3>1, <3>2
  <2>7. CASE EraseClient(c) \/ EraseMonitors(c)
    <3>1. c \notin Counted(m) /\ count' = count
      BY <2>7 DEF EraseClient, EraseMonitors, Counted
    <3> QED
      BY <2>4, <2>5, <3>1
  <2> QED
    BY <2>6, <2>7
<1> QED
  BY <1>2, <1>3, <1>4, <1>5, <1>6 DEF RoleInv

LEMMA RoleNext == RoleInv /\ [Next]_vars => RoleInv'
<1> SUFFICES ASSUME RoleInv, [Next]_vars PROVE RoleInv'
  OBVIOUS
<1>1. CASE UNCHANGED role_vars
  <2>1. TypeOKRoles /\ Idle /\ OneSetter /\ InMaps /\ RightCount
    BY DEF RoleInv
  <2>2. TypeOKRoles' /\ Idle' /\ OneSetter'
    BY <1>1, <2>1 DEF role_vars, TypeOKRoles, Idle, OneSetter, Sets
  <2>3. InMaps' /\ RightCount'
    BY <1>1, <2>1 DEF role_vars, InMaps, RightCount, Counted, Sets, Settled
  <2> QED
    BY <2>2, <2>3 DEF RoleInv
<1>2. CASE RoleStep
  BY <1>2, SetRoleKeeps, SetMonitorKeeps, CountRoleKeeps, LeavingKeeps DEF RoleStep
<1> QED
  BY <1>1, <1>2 DEF Next, vars

\* Unless two threads set the role of one client, or one sets it as it leaves, the maps
\* of the monitors hold the clients whose role says so, and the counters their number
\* (SetTcpClientRole, OnClientDisconnect): in every interleaving.
THEOREM RolesKept == Spec => []RolesSettled
  BY RoleInit, RoleNext, RoleInvImplies, PTL DEF Spec
-----------------------------------------------------------------------------
(***************************************************************************)
(* Framing, for every message size, READ size, limit and number of         *)
(* messages.  Where a message begins is a sum over those before it.        *)
(***************************************************************************)

\* The recursion of Begins, for the first n messages of s.
IsOffset(g, s, n) == g = [k \in 1..(n + 1) |-> IF k = 1 THEN 0 ELSE g[k - 1] + s[k - 1].size]

Offsets(s) == CHOOSE g : IsOffset(g, s, Len(s))

LEMMA BeginsIsOffsets == Begins = Offsets(stream)
  BY DEF Begins, Offsets, IsOffset

LEMMA OffsetUnfold ==
    ASSUME NEW g, NEW s, NEW n \in Nat, IsOffset(g, s, n)
    PROVE  /\ g[1] = 0
           /\ \A k \in 1..n : g[k + 1] = g[k] + s[k].size
<1>1. g[1] = 0
  <2>1. 1 \in 1..(n + 1)
    OBVIOUS
  <2> QED BY <2>1, Zenon DEF IsOffset
<1>2. ASSUME NEW k \in 1..n PROVE g[k + 1] = g[k] + s[k].size
  <2>1. k + 1 \in 1..(n + 1) /\ k + 1 # 1 /\ (k + 1) - 1 = k
    OBVIOUS
  <2>2. g[k + 1] = IF k + 1 = 1 THEN 0 ELSE g[(k + 1) - 1] + s[(k + 1) - 1].size
    BY <2>1 DEF IsOffset
  <2> QED BY <2>1, <2>2
<1> QED BY <1>1, <1>2

LEMMA OffsetExists == ASSUME NEW s, NEW n \in Nat PROVE \E g : IsOffset(g, s, n)
<1> DEFINE S == {m \in Nat : \E g : IsOffset(g, s, m)}
<1>1. 0 \in S
  <2> DEFINE g == [k \in 1..(0 + 1) |-> 0]
  <2>1. IsOffset(g, s, 0)
    BY DEF IsOffset
  <2> HIDE DEF g
  <2> QED BY <2>1
<1>2. ASSUME NEW m \in Nat, m \in S PROVE m + 1 \in S
  <2>1. PICK g : IsOffset(g, s, m)
    BY <1>2
  <2> DEFINE h == [k \in 1..((m + 1) + 1) |-> IF k = m + 2 THEN g[m + 1] + s[m + 1].size ELSE g[k]]
  <2>2. ASSUME NEW k \in 1..((m + 1) + 1)
        PROVE  h[k] = IF k = 1 THEN 0 ELSE h[k - 1] + s[k - 1].size
    <3>1. g[1] = 0 /\ \A j \in 1..m : g[j + 1] = g[j] + s[j].size
      BY <2>1, OffsetUnfold
    <3>2. CASE k = 1
      BY <3>1, <3>2
    <3>3. CASE k = m + 2
      <4>1. k - 1 = m + 1 /\ k - 1 \in 1..((m + 1) + 1) /\ k - 1 # m + 2 /\ k # 1
        BY <3>3
      <4> QED BY <3>3, <4>1
    <3>4. CASE k # 1 /\ k # m + 2
      <4>1. k - 1 \in 1..m /\ (k - 1) + 1 = k /\ k - 1 # m + 2 /\ k - 1 \in 1..((m + 1) + 1)
        BY <3>4
      <4>2. g[k] = g[k - 1] + s[k - 1].size
        BY <3>1, <4>1
      <4> QED BY <3>4, <4>1, <4>2
    <3> QED BY <3>2, <3>3, <3>4
  <2>3. h = [k \in 1..((m + 1) + 1) |-> h[k]]
    OBVIOUS
  <2> HIDE DEF h
  <2>4. IsOffset(h, s, m + 1)
    BY <2>2, <2>3, Zenon DEF IsOffset
  <2> QED BY <2>4
<1> HIDE DEF S
<1>3. \A m \in Nat : m \in S
  BY <1>1, <1>2, Induct
<1> QED BY <1>3 DEF S

\* The offsets of messages do not depend on what comes behind them.
LEMMA OffsetSame ==
    ASSUME NEW g, NEW h, NEW s, NEW t, NEW m \in Nat, NEW n \in m..(m + 1),
           IsOffset(g, s, m), IsOffset(h, t, n), \A k \in 1..m : s[k] = t[k]
    PROVE  \A k \in 1..(m + 1) : g[k] = h[k]
<1> DEFINE S == {i \in Nat : i <= m => g[i + 1] = h[i + 1]}
<1>1. /\ g[1] = 0 /\ \A k \in 1..m : g[k + 1] = g[k] + s[k].size
      /\ h[1] = 0 /\ \A k \in 1..n : h[k + 1] = h[k] + t[k].size
  <2>1. n \in Nat
    OBVIOUS
  <2> QED BY <2>1, OffsetUnfold
<1>2. 0 \in S
  BY <1>1
<1>3. ASSUME NEW i \in Nat, i \in S PROVE i + 1 \in S
  <2> SUFFICES ASSUME i + 1 <= m PROVE g[(i + 1) + 1] = h[(i + 1) + 1]
    OBVIOUS
  <2>1. g[i + 1] = h[i + 1] /\ i + 1 \in 1..m /\ i + 1 \in 1..n
    BY <1>3
  <2> QED BY <1>1, <2>1
<1>4. \A i \in Nat : i \in S
  <2> HIDE DEF S
  <2> QED BY <1>2, <1>3, Induct
<1> TAKE k \in 1..(m + 1)
<1>5. k - 1 \in S /\ k - 1 <= m /\ (k - 1) + 1 = k
  BY <1>4
<1> QED BY <1>5

LEMMA OffsetGrows ==
    ASSUME NEW g, NEW s, NEW n \in Nat, IsOffset(g, s, n),
           \A k \in 1..n : s[k].size \in Nat
    PROVE  \A k \in 1..(n + 1) : g[k] \in Nat /\ \A j \in 1..k : g[j] \in Nat /\ g[j] <= g[k]
<1> DEFINE S == {i \in Nat : i <= n =>
                   g[i + 1] \in Nat /\ \A j \in 1..(i + 1) : g[j] \in Nat /\ g[j] <= g[i + 1]}
<1>1. g[1] = 0 /\ \A k \in 1..n : g[k + 1] = g[k] + s[k].size
  BY OffsetUnfold
<1>2. 0 \in S
  BY <1>1
<1>3. ASSUME NEW i \in Nat, i \in S PROVE i + 1 \in S
  <2> SUFFICES ASSUME i + 1 <= n
               PROVE  /\ g[(i + 1) + 1] \in Nat
                      /\ \A j \in 1..((i + 1) + 1) : g[j] \in Nat /\ g[j] <= g[(i + 1) + 1]
    OBVIOUS
  <2>1. g[i + 1] \in Nat /\ \A j \in 1..(i + 1) : g[j] \in Nat /\ g[j] <= g[i + 1]
    BY <1>3
  <2>2. g[(i + 1) + 1] = g[i + 1] + s[i + 1].size /\ s[i + 1].size \in Nat
    <3>1. i + 1 \in 1..n
      OBVIOUS
    <3> QED BY <1>1, <3>1
  <2>3. g[(i + 1) + 1] \in Nat /\ g[i + 1] <= g[(i + 1) + 1]
    BY <2>1, <2>2
  <2>4. ASSUME NEW j \in 1..((i + 1) + 1) PROVE g[j] \in Nat /\ g[j] <= g[(i + 1) + 1]
    <3>1. CASE j = (i + 1) + 1
      BY <2>3, <3>1
    <3>2. CASE j # (i + 1) + 1
      <4>1. j \in 1..(i + 1)
        BY <3>2
      <4>2. g[j] \in Nat /\ g[j] <= g[i + 1]
        BY <2>1, <4>1
      <4> QED BY <2>1, <2>3, <4>2
    <3> QED BY <3>1, <3>2
  <2> QED BY <2>3, <2>4
<1>4. \A i \in Nat : i \in S
  <2> HIDE DEF S
  <2> QED BY <1>2, <1>3, Induct
<1> TAKE k \in 1..(n + 1)
<1>5. k - 1 \in S /\ k - 1 <= n /\ (k - 1) + 1 = k
  BY <1>4
<1> QED BY <1>5

\* What a message of a stream is.
IsStream(s, type) ==
    /\ Len(s) \in Nat
    /\ \A k \in 1..Len(s) : s[k].kind \in Kinds(type) /\ s[k].size \in Nat \ {0}

LEMMA OffsetFacts ==
    ASSUME NEW s, NEW type, IsStream(s, type)
    PROVE  /\ IsOffset(Offsets(s), s, Len(s))
           /\ Offsets(s)[1] = 0
           /\ \A k \in 1..Len(s) : Offsets(s)[k + 1] = Offsets(s)[k] + s[k].size
           /\ \A k \in 1..(Len(s) + 1) : Offsets(s)[k] \in Nat
           /\ \A k \in 1..(Len(s) + 1) : \A j \in 1..k : Offsets(s)[j] <= Offsets(s)[k]
<1>1. Len(s) \in Nat /\ \A k \in 1..Len(s) : s[k].size \in Nat
  BY DEF IsStream
<1>2. IsOffset(Offsets(s), s, Len(s))
  BY <1>1, OffsetExists DEF Offsets
<1> QED BY <1>1, <1>2, OffsetUnfold, OffsetGrows

\* A message that is sent leaves the others where they are.
LEMMA OffsetAppend ==
    ASSUME NEW type, NEW s \in Seq(Message(type)), NEW m \in Message(type)
    PROVE  /\ IsStream(s, type) /\ IsStream(Append(s, m), type)
           /\ Len(Append(s, m)) = Len(s) + 1
           /\ \A k \in 1..Len(s) : Append(s, m)[k] = s[k]
           /\ \A k \in 1..(Len(s) + 1) : Offsets(Append(s, m))[k] = Offsets(s)[k]
<1>1. /\ \A k \in 1..Len(s) : s[k] \in Message(type) /\ Append(s, m)[k] = s[k]
      /\ Len(s) \in Nat /\ Len(Append(s, m)) = Len(s) + 1 /\ Append(s, m)[Len(s) + 1] = m
  OBVIOUS
<1>2. \A x \in Message(type) : x.kind \in Kinds(type) /\ x.size \in Nat \ {0}
  BY SizesAssumption DEF Message
<1>3. IsStream(s, type)
  BY <1>1, <1>2 DEF IsStream
<1>4. IsStream(Append(s, m), type)
  <2>1. ASSUME NEW k \in 1..(Len(s) + 1) PROVE Append(s, m)[k] \in Message(type)
    <3>1. CASE k = Len(s) + 1
      BY <1>1, <3>1
    <3>2. CASE k # Len(s) + 1
      <4>1. k \in 1..Len(s)
        BY <1>1, <3>2
      <4> QED BY <1>1, <4>1
    <3> QED BY <3>1, <3>2
  <2> QED BY <1>1, <1>2, <2>1 DEF IsStream
<1>5. IsOffset(Offsets(s), s, Len(s)) /\ IsOffset(Offsets(Append(s, m)), Append(s, m), Len(s) + 1)
  BY <1>1, <1>3, <1>4, OffsetFacts
<1>6. \A k \in 1..(Len(s) + 1) : Offsets(s)[k] = Offsets(Append(s, m))[k]
  <2> DEFINE n == Len(s)
             t == Append(s, m)
             g == Offsets(s)
             h == Offsets(t)
  <2>1. n \in Nat /\ n + 1 \in n..(n + 1)
    BY <1>1
  <2>2. \A k \in 1..n : s[k] = t[k]
    BY <1>1
  <2>3. IsOffset(g, s, n) /\ IsOffset(h, t, n + 1)
    BY <1>5
  <2> HIDE DEF n, t, g, h
  <2>4. \A k \in 1..(n + 1) : g[k] = h[k]
    BY <2>1, <2>2, <2>3, OffsetSame
  <2> QED BY <2>4 DEF n, t, g, h
<1> QED BY <1>1, <1>3, <1>4, <1>6

\* No more is buffered than a READ can have brought to a message that was not there.
Fits == \E k \in 1..Len(stream) : Stuck(k) \/ Buffered <= stream[k].size - 1 + ReadSize

StreamInv ==
    /\ TypeOKReceive
    /\ Begins[next] <= appended
    /\ loop = "application" => Fits /\ ~too_large
    /\ NothingLeftBehind
    /\ CutForItsLength

LEMMA StreamInit == Init => StreamInv
<1> SUFFICES ASSUME InitReceive PROVE StreamInv
  BY DEF Init
<1>1. stream \in Seq(Message(server_type)) /\ Len(stream) = 0 /\ stream = <<>>
  BY DEF InitReceive
<1>2. IsStream(stream, server_type)
  BY <1>1 DEF IsStream
<1>3. Begins[1] = 0
  BY <1>2, OffsetFacts, BeginsIsOffsets
<1>4. TypeOKReceive
  <2>1. Begins[Len(stream) + 1] = 0 /\ appended = 0 /\ next = 1
    BY <1>1, <1>3 DEF InitReceive
  <2>2. appended \in 0..Begins[Len(stream) + 1]
    BY <2>1
  <2>3. next \in 1..(Len(stream) + 1) /\ Len(stream) <= MaxMessages
    BY <1>1, <2>1, MaxMessagesAssumption
  <2> QED BY <1>1, <2>2, <2>3 DEF InitReceive, TypeOKReceive
<1>5. Begins[next] <= appended
  BY <1>3 DEF InitReceive
<1>6. NothingLeftBehind /\ CutForItsLength
  BY <1>1 DEF InitReceive, NothingLeftBehind, CutForItsLength, Arrived
<1> QED BY <1>4, <1>5, <1>6 DEF InitReceive, StreamInv

\* Where messages begin, in a state.
LEMMA StreamFacts ==
    ASSUME TypeOKReceive
    PROVE  /\ Len(stream) \in Nat /\ next \in 1..(Len(stream) + 1) /\ appended \in Nat
           /\ appended <= Begins[Len(stream) + 1]
           /\ \A k \in 1..Len(stream) : /\ stream[k].kind \in Kinds(server_type)
                                        /\ stream[k].size \in Nat \ {0}
                                        /\ Begins[k + 1] = Begins[k] + stream[k].size
           /\ \A k \in 1..(Len(stream) + 1) : Begins[k] \in Nat
           /\ \A k \in 1..(Len(stream) + 1) : \A j \in 1..k : Begins[j] <= Begins[k]
<1>1. stream \in Seq(Message(server_type))
  BY DEF TypeOKReceive
<1>2. IsStream(stream, server_type)
  <2>1. \A x \in Message(server_type) : x.kind \in Kinds(server_type) /\ x.size \in Nat \ {0}
    BY SizesAssumption DEF Message
  <2>2. Len(stream) \in Nat /\ \A k \in 1..Len(stream) : stream[k] \in Message(server_type)
    BY <1>1
  <2> QED BY <2>1, <2>2 DEF IsStream
<1>3. /\ \A k \in 1..Len(stream) : Begins[k + 1] = Begins[k] + stream[k].size
      /\ \A k \in 1..(Len(stream) + 1) : Begins[k] \in Nat
      /\ \A k \in 1..(Len(stream) + 1) : \A j \in 1..k : Begins[j] <= Begins[k]
  BY <1>2, OffsetFacts, BeginsIsOffsets
<1>4. Len(stream) \in Nat
  BY <1>1
<1>5. next \in 1..(Len(stream) + 1) /\ appended \in 0..Begins[Len(stream) + 1]
  BY DEF TypeOKReceive
<1>6. Begins[Len(stream) + 1] \in Nat
  BY <1>3, <1>4
<1>7. appended \in Nat /\ appended <= Begins[Len(stream) + 1]
  BY ONLY <1>5, <1>6
<1> QED BY <1>2, <1>3, <1>4, <1>5, <1>7 DEF IsStream

\* A step that sends nothing and reads nothing.
LEMMA SameStream ==
    ASSUME UNCHANGED <<server_type, stream, appended>>
    PROVE  /\ Begins' = Begins
           /\ \A k : Stuck(k)' <=> Stuck(k)
           /\ next' = next => /\ \A k : Arrived(k)' <=> Arrived(k)
                              /\ Buffered' = Buffered
                              /\ FieldCut' <=> FieldCut
                              /\ Fits' <=> Fits
           /\ CutForItsLength /\ UNCHANGED <<next, too_large>> => CutForItsLength'
<1>1. Begins' = Begins
  BY BeginsIsOffsets DEF Begins
<1>2. \A k : Stuck(k)' <=> Stuck(k)
  BY DEF Stuck
<1>3. ASSUME next' = next PROVE (\A k : Arrived(k)' <=> Arrived(k)) /\ Buffered' = Buffered
  BY <1>1, <1>3 DEF Arrived, Buffered
<1>4. ASSUME next' = next PROVE (FieldCut' <=> FieldCut) /\ (Fits' <=> Fits)
  BY <1>2, <1>3, <1>4 DEF FieldCut, Fits
<1>5. CutForItsLength /\ UNCHANGED <<next, too_large>> => CutForItsLength'
  BY <1>2, <1>4 DEF CutForItsLength
<1> QED BY <1>1, <1>2, <1>3, <1>4, <1>5

LEMMA SendKeeps ==
    ASSUME StreamInv, NEW m \in Message(server_type), Send(m)
    PROVE  StreamInv'
<1>0. TypeOKReceive /\ Begins[next] <= appended /\ NothingLeftBehind /\ CutForItsLength
  BY DEF StreamInv
<1>1. /\ loop = "none" /\ loop' = "none" /\ Len(stream) < MaxMessages
      /\ stream' = Append(stream, m)
      /\ UNCHANGED <<server_type, appended, next, too_large>>
  BY DEF Send
<1>2. stream \in Seq(Message(server_type))
  BY <1>0 DEF TypeOKReceive
<1>3. /\ Len(stream) \in Nat /\ Len(stream') = Len(stream) + 1
      /\ \A k \in 1..Len(stream) : stream'[k] = stream[k]
      /\ \A k \in 1..(Len(stream) + 1) : Begins'[k] = Begins[k]
  <2>1. Begins' = Offsets(stream')
    BY DEF Begins, Offsets, IsOffset
  <2> QED BY <1>1, <1>2, <2>1, OffsetAppend, BeginsIsOffsets
<1>4. /\ next \in 1..(Len(stream) + 1) /\ appended \in Nat
      /\ appended <= Begins[Len(stream) + 1] /\ Begins[Len(stream) + 1] \in Nat
      /\ \A k \in 1..(Len(stream) + 1) : Begins[k] \in Nat
  BY <1>0, StreamFacts
<1>5. Begins'[(Len(stream) + 1) + 1] \in Nat /\ Begins'[(Len(stream) + 1) + 1] > Begins[Len(stream) + 1]
  <2>1. IsStream(stream', server_type)
    BY <1>1, <1>2, OffsetAppend
  <2>2. Begins' = Offsets(stream')
    BY DEF Begins, Offsets, IsOffset
  <2>3. Len(stream) + 1 \in 1..Len(stream')
    BY <1>3
  <2>4. /\ Begins'[(Len(stream) + 1) + 1] = Begins'[Len(stream) + 1] + stream'[Len(stream) + 1].size
        /\ stream'[Len(stream) + 1].size \in Nat \ {0}
    BY <2>1, <2>2, <2>3, OffsetFacts DEF IsStream
  <2>5. Begins'[Len(stream) + 1] = Begins[Len(stream) + 1]
    BY <1>3
  <2> QED BY <1>4, <2>4, <2>5
<1>6. TypeOKReceive'
  <2>1. stream' \in Seq(Message(server_type))
    BY <1>1, <1>2
  <2>2. Len(stream') <= MaxMessages
    BY <1>1, <1>3, MaxMessagesAssumption
  <2>3. appended \in 0..Begins'[Len(stream') + 1] /\ next \in 1..(Len(stream') + 1)
    BY <1>3, <1>4, <1>5
  <2>4. server_type \in Types /\ too_large \in BOOLEAN
    BY <1>0 DEF TypeOKReceive
  <2> QED BY <1>1, <2>1, <2>2, <2>3, <2>4 DEF TypeOKReceive
<1>7. Begins'[next'] <= appended'
  BY <1>0, <1>1, <1>3, <1>4
<1>8. \A k \in 1..Len(stream) : Stuck(k)' <=> Stuck(k)
  BY <1>1, <1>3 DEF Stuck
<1>9. NothingLeftBehind'
  <2> SUFFICES ASSUME ~too_large, Arrived(next)' PROVE Stuck(next)'
    BY <1>1 DEF NothingLeftBehind
  <2>1. next \in next..Len(stream') /\ Begins'[next + 1] <= appended
    BY <1>1 DEF Arrived
  <2>2. next # Len(stream) + 1
    BY <1>4, <1>5, <2>1
  <2>3. next \in 1..Len(stream) /\ next + 1 \in 1..(Len(stream) + 1)
    BY <1>3, <1>4, <2>2
  <2>4. Arrived(next)
    BY <1>3, <2>1, <2>3 DEF Arrived
  <2> QED BY <1>0, <1>1, <1>8, <2>3, <2>4 DEF NothingLeftBehind
<1>10. CutForItsLength'
  <2> SUFFICES ASSUME too_large
               PROVE  \/ FieldCut'
                      \/ \E k \in 1..Len(stream') :
                            Stuck(k)' \/ stream'[k].size - 1 + ReadSize > MaxPackage
    BY <1>1 DEF CutForItsLength
  <2>1. CASE FieldCut
    <3>1. next \in 1..Len(stream)
      BY <1>4, <2>1 DEF FieldCut
    <3>2. stream'[next] = stream[next] /\ Begins'[next] = Begins[next] /\ next <= Len(stream')
      BY <1>3, <3>1
    <3> QED BY <1>1, <2>1, <3>2 DEF FieldCut, Buffered
  <2>2. CASE ~FieldCut
    <3>1. PICK k \in 1..Len(stream) : Stuck(k) \/ stream[k].size - 1 + ReadSize > MaxPackage
      BY <1>0, <2>2 DEF CutForItsLength
    <3>2. k \in 1..Len(stream')
      BY <1>3
    <3> QED BY <1>3, <1>8, <3>1, <3>2
  <2> QED BY <2>1, <2>2
<1> QED BY <1>1, <1>6, <1>7, <1>9, <1>10 DEF StreamInv

LEMMA ReadKeeps == StreamInv /\ AppendRecvData => StreamInv'
<1> SUFFICES ASSUME StreamInv, AppendRecvData PROVE StreamInv'
  OBVIOUS
<1>0. TypeOKReceive /\ Begins[next] <= appended /\ NothingLeftBehind /\ CutForItsLength
  BY DEF StreamInv
<1>1. /\ loop = "none" /\ ~too_large /\ loop' = "application"
      /\ UNCHANGED <<server_type, stream, next, too_large>>
  BY DEF AppendRecvData
<1>2. PICK n \in 1..ReadSize : appended + n <= Begins[Len(stream) + 1] /\ appended' = appended + n
  BY DEF AppendRecvData
<1>3. /\ Len(stream) \in Nat /\ next \in 1..(Len(stream) + 1) /\ appended \in Nat
      /\ Begins[Len(stream) + 1] \in Nat
  BY <1>0, StreamFacts
<1>4. Begins' = Begins /\ \A k : Stuck(k)' <=> Stuck(k)
  BY <1>1 DEF Begins, Stuck
<1>5. TypeOKReceive'
  <2>1. appended' \in 0..Begins[Len(stream) + 1]
    BY <1>2, <1>3, ReadSizeAssumption
  <2> QED BY <1>0, <1>1, <1>4, <2>1 DEF TypeOKReceive
<1>6. Begins[next] \in Nat
  BY <1>0, <1>3, StreamFacts
<1>7. next \in 1..Len(stream)
  <2>1. Begins[Len(stream) + 1] > Begins[next]
    BY <1>0, <1>2, <1>3, <1>6, ReadSizeAssumption
  <2> QED BY <1>3, <1>6, <2>1
<1>8. Fits'
  <2>1. CASE Stuck(next)
    BY <1>1, <1>4, <1>7, <2>1 DEF Fits
  <2>2. CASE ~Stuck(next)
    <3>1. ~Arrived(next)
      BY <1>0, <1>1, <2>2 DEF NothingLeftBehind
    <3>2. Begins[next + 1] = Begins[next] + stream[next].size /\ stream[next].size \in Nat
      BY <1>0, <1>7, StreamFacts
    <3>3. ~(Begins[next + 1] <= appended)
      BY <1>3, <1>7, <3>1 DEF Arrived
    <3>4. appended - Begins[next] <= stream[next].size - 1
      BY ONLY <1>3, <1>6, <3>2, <3>3
    <3>5. (appended + n) - Begins[next] <= stream[next].size - 1 + ReadSize
      <4>1. \A a, b \in Nat, x, y, z \in Int : a - b <= x /\ y <= z => (a + y) - b <= x + z
        OBVIOUS
      <4>2. n \in Int /\ ReadSize \in Int /\ n <= ReadSize /\ stream[next].size - 1 \in Int
        BY <3>2, ReadSizeAssumption
      <4> QED BY <1>3, <1>6, <3>4, <4>1, <4>2, Zenon
    <3>6. Buffered' <= stream'[next].size - 1 + ReadSize
      BY <1>1, <1>2, <1>4, <3>5 DEF Buffered
    <3> QED BY <1>1, <1>7, <3>6 DEF Fits
  <2> QED BY <2>1, <2>2
<1>9. Begins'[next'] <= appended'
  BY <1>0, <1>1, <1>2, <1>3, <1>4, <1>6
<1>10. NothingLeftBehind' /\ CutForItsLength'
  BY <1>1 DEF NothingLeftBehind, CutForItsLength
<1> QED BY <1>1, <1>5, <1>8, <1>9, <1>10 DEF StreamInv

\* A message is taken off the front.
LEMMA TakenKeeps ==
    ASSUME TypeOKReceive, UNCHANGED <<server_type, stream, appended, loop, too_large>>,
           NEW k \in 1..Len(stream), Arrived(k), next' = k + 1
    PROVE  /\ TypeOKReceive' /\ Begins'[next'] <= appended'
           /\ Begins[next] <= Begins[k + 1] /\ Begins[k + 1] \in Nat /\ Begins[next] \in Nat
           /\ next' >= next
<1>1. /\ Len(stream) \in Nat /\ next \in 1..(Len(stream) + 1)
      /\ \A i \in 1..(Len(stream) + 1) : Begins[i] \in Nat
      /\ \A i \in 1..(Len(stream) + 1) : \A j \in 1..i : Begins[j] <= Begins[i]
  BY StreamFacts
<1>2. Begins' = Begins
  BY SameStream
<1>3. k \in next..Len(stream) /\ Begins[k + 1] <= appended
  BY DEF Arrived
<1>4. next' \in 1..(Len(stream) + 1) /\ next \in 1..(k + 1) /\ k + 1 \in 1..(Len(stream) + 1)
  BY <1>1, <1>3
<1>5. TypeOKReceive'
  BY <1>2, <1>4 DEF TypeOKReceive
<1>6. Begins[next] <= Begins[k + 1] /\ Begins[k + 1] \in Nat /\ Begins[next] \in Nat
  BY <1>1, <1>4
<1>7. next' >= next
  BY <1>1, <1>3
<1> QED BY <1>2, <1>3, <1>5, <1>6, <1>7

LEMMA ApplicationKeeps == StreamInv /\ OnClientReceived => StreamInv'
<1> SUFFICES ASSUME StreamInv, OnClientReceived PROVE StreamInv'
  OBVIOUS
<1>0. TypeOKReceive /\ Fits /\ ~too_large
  BY DEF StreamInv, OnClientReceived
<1>1. loop = "application" /\ UNCHANGED <<server_type, stream, appended, loop, too_large>>
  BY DEF OnClientReceived
<1>2. PICK k \in 1..Len(stream) : Arrived(k) /\ k = next /\ next' = k + 1
  BY <1>0, StreamFacts DEF OnClientReceived, Readable, Arrived
<1>3. /\ TypeOKReceive' /\ Begins'[next'] <= appended'
      /\ Begins[next] <= Begins[k + 1] /\ Begins[k + 1] \in Nat /\ Begins[next] \in Nat
  BY <1>0, <1>1, <1>2, TakenKeeps
<1>4. Begins' = Begins /\ (\A j : Stuck(j)' <=> Stuck(j)) /\ CutForItsLength'
  BY <1>0, <1>1, SameStream DEF CutForItsLength
<1>5. Fits'
  <2>1. PICK j \in 1..Len(stream) : Stuck(j) \/ Buffered <= stream[j].size - 1 + ReadSize
    BY <1>0 DEF Fits
  <2>2. ASSUME Buffered <= stream[j].size - 1 + ReadSize PROVE Buffered' <= stream[j].size - 1 + ReadSize
    <3>1. stream[j].size \in Nat /\ appended \in Nat
      BY <1>0, StreamFacts
    <3>2. appended - Begins[next] <= stream[j].size - 1 + ReadSize
      BY <2>2 DEF Buffered
    <3>3. appended - Begins[k + 1] <= stream[j].size - 1 + ReadSize
      <4>1. Begins[next] <= Begins[k + 1] /\ Begins[k + 1] \in Nat /\ Begins[next] \in Nat
        BY <1>3
      <4>2. \A a, b, c \in Nat, x \in Int : a <= b /\ c - a <= x => c - b <= x
        OBVIOUS
      <4>3. stream[j].size - 1 + ReadSize \in Int
        BY <3>1, ReadSizeAssumption
      <4> QED BY <3>1, <3>2, <4>1, <4>2, <4>3, Zenon
    <3>4. Buffered' = appended - Begins[k + 1]
      BY <1>1, <1>2, <1>4, Zenon DEF Buffered
    <3> QED BY <3>3, <3>4
  <2> QED BY <1>1, <1>4, <2>1, <2>2 DEF Fits
<1> QED BY <1>0, <1>1, <1>3, <1>4, <1>5 DEF StreamInv, NothingLeftBehind

LEMMA CutKeeps == StreamInv /\ DisconnectTooLarge => StreamInv'
<1> SUFFICES ASSUME StreamInv, DisconnectTooLarge PROVE StreamInv'
  OBVIOUS
<1>0. TypeOKReceive /\ Fits /\ (TooLarge \/ FieldCut) /\ Begins[next] <= appended
  BY DEF StreamInv, DisconnectTooLarge
<1>1. too_large' = TRUE /\ loop' = "none" /\ UNCHANGED <<server_type, stream, appended, next>>
  BY DEF DisconnectTooLarge
<1>2. Begins' = Begins /\ (\A k : Stuck(k)' <=> Stuck(k)) /\ (FieldCut' <=> FieldCut)
  BY <1>1, SameStream
<1>3. FieldCut \/ \E k \in 1..Len(stream) : Stuck(k) \/ stream[k].size - 1 + ReadSize > MaxPackage
  <2>1. CASE Buffered > MaxPackage
    <3>1. PICK j \in 1..Len(stream) : Stuck(j) \/ Buffered <= stream[j].size - 1 + ReadSize
      BY <1>0 DEF Fits
    <3>2. stream[j].size \in Nat /\ Buffered \in Int
      BY <1>0, StreamFacts DEF Buffered
    <3>3. Buffered <= stream[j].size - 1 + ReadSize => stream[j].size - 1 + ReadSize > MaxPackage
      BY <2>1, <3>2, ReadSizeAssumption, MaxPackageAssumption
    <3> QED BY <3>1, <3>3
  <2>2. CASE next <= Len(stream) /\ stream[next].size > MaxPackage
    <3>1. next \in 1..Len(stream) /\ stream[next].size \in Nat
      BY <1>0, <2>2, StreamFacts
    <3>2. stream[next].size - 1 + ReadSize > MaxPackage
      BY <2>2, <3>1, ReadSizeAssumption, MaxPackageAssumption
    <3> QED BY <3>1, <3>2
  <2>3. TooLarge => Buffered > MaxPackage \/ (next <= Len(stream) /\ stream[next].size > MaxPackage)
    BY Zenon DEF TooLarge
  <2> QED BY <1>0, <2>1, <2>2, <2>3
<1>4. TypeOKReceive'
  BY <1>0, <1>1, <1>2 DEF TypeOKReceive
<1> QED BY <1>0, <1>1, <1>2, <1>3, <1>4 DEF StreamInv, NothingLeftBehind, CutForItsLength

LEMMA StreamNext == StreamInv /\ [Next]_vars => StreamInv'
<1> SUFFICES ASSUME StreamInv, [Next]_vars PROVE StreamInv'
  OBVIOUS
<1>0. TypeOKReceive /\ CutForItsLength /\ Begins[next] <= appended
  BY DEF StreamInv
<1>u. CASE UNCHANGED receive_vars
  <2>1. UNCHANGED <<server_type, stream, appended, next, loop, too_large>>
    BY <1>u DEF receive_vars
  <2>2. Begins' = Begins
    BY <2>1, SameStream
  <2>3. TypeOKReceive'
    BY <1>0, <2>1, <2>2 DEF TypeOKReceive
  <2>4. NothingLeftBehind => NothingLeftBehind'
    BY <2>1, SameStream DEF NothingLeftBehind
  <2> QED BY <2>1, <2>2, <2>3, <2>4, SameStream DEF StreamInv
<1>1. CASE NoMoreMessages
  <2>1. /\ loop' = "none" /\ UNCHANGED <<server_type, stream, appended, next, too_large>>
        /\ ~Readable
    BY <1>1 DEF NoMoreMessages
  <2>2. Begins' = Begins /\ CutForItsLength'
    BY <1>0, <2>1, SameStream
  <2>3. TypeOKReceive'
    BY <1>0, <2>1, <2>2 DEF TypeOKReceive
  <2>4. NothingLeftBehind'
    BY <2>1, SameStream DEF NothingLeftBehind, Readable
  <2> QED BY <1>0, <2>1, <2>2, <2>3, <2>4 DEF StreamInv
<1> QED
  BY <1>u, <1>1, SendKeeps, ReadKeeps, ApplicationKeeps, CutKeeps DEF Next, ReceiveStep, vars

\* Whatever the binary framing, the sizes and the way READs cut the stream, a worker
\* leaves no whole message behind, except behind one that is never taken, and a client
\* is disconnected for the length of a message only, or because a READ cut a length
\* field (PreClientReceive, IsClientDataReadable).
THEOREM WholeMessagesServed == Spec => []StreamServed
<1>1. StreamInv => StreamServed
  BY DEF StreamInv, StreamServed
<1> QED BY <1>1, StreamInit, StreamNext, PTL DEF Spec
-----------------------------------------------------------------------------
(***************************************************************************)
(* What a download sends, for every number of downloads and file sizes.    *)
(* The messages that are no answers are the blocks up to the position.     *)
(***************************************************************************)

\* The recursion of Contents, for the first n messages of s.
IsPicked(g, s, n) ==
    g = [i \in 0..n |-> IF i = 0 THEN <<>>
                        ELSE IF s[i] \in {Begun, Refused} THEN g[i - 1]
                        ELSE Append(g[i - 1], s[i])]

Picked(s) == CHOOSE g : IsPicked(g, s, Len(s))

LEMMA ContentsIsPicked == ASSUME NEW s PROVE Contents(s) = Picked(s)[Len(s)]
  BY DEF Contents, Picked, IsPicked

LEMMA PickedUnfold ==
    ASSUME NEW g, NEW s, NEW n \in Nat, IsPicked(g, s, n)
    PROVE  /\ g[0] = <<>>
           /\ \A i \in 1..n : g[i] = IF s[i] \in {Begun, Refused} THEN g[i - 1]
                                     ELSE Append(g[i - 1], s[i])
<1>1. g[0] = <<>>
  BY DEF IsPicked
<1>2. ASSUME NEW i \in 1..n
      PROVE  g[i] = IF s[i] \in {Begun, Refused} THEN g[i - 1] ELSE Append(g[i - 1], s[i])
  <2>1. i \in 0..n /\ i # 0
    OBVIOUS
  <2> QED BY <2>1, Zenon DEF IsPicked
<1> QED BY <1>1, <1>2

LEMMA PickedExists == ASSUME NEW s, NEW n \in Nat PROVE \E g : IsPicked(g, s, n)
<1> DEFINE S == {m \in Nat : \E g : IsPicked(g, s, m)}
<1>1. 0 \in S
  <2> DEFINE g == [i \in 0..0 |-> <<>>]
  <2>1. IsPicked(g, s, 0)
    BY DEF IsPicked
  <2> HIDE DEF g
  <2> QED BY <2>1
<1>2. ASSUME NEW m \in Nat, m \in S PROVE m + 1 \in S
  <2>1. PICK g : IsPicked(g, s, m)
    BY <1>2
  <2> DEFINE x == IF s[m + 1] \in {Begun, Refused} THEN g[m] ELSE Append(g[m], s[m + 1])
             h == [i \in 0..(m + 1) |-> IF i = m + 1 THEN x ELSE g[i]]
             Want(i) == IF i = 0 THEN <<>>
                        ELSE IF s[i] \in {Begun, Refused} THEN h[i - 1]
                        ELSE Append(h[i - 1], s[i])
  <2>0. g[0] = <<>> /\ \A i \in 1..m : g[i] = IF s[i] \in {Begun, Refused} THEN g[i - 1]
                                              ELSE Append(g[i - 1], s[i])
    BY <2>1, PickedUnfold
  <2>2. ASSUME NEW i \in 0..(m + 1) PROVE h[i] = Want(i)
    <3>2. CASE i = 0
      BY <2>0, <3>2
    <3>3. CASE i = m + 1
      <4>1. h[m + 1] = x /\ h[(m + 1) - 1] = g[m] /\ m + 1 # 0
        <5>1. (m + 1) - 1 = m /\ m \in 0..(m + 1) /\ m # m + 1 /\ m + 1 \in 0..(m + 1)
          OBVIOUS
        <5> QED BY <5>1
      <4> QED BY <3>3, <4>1, Zenon
    <3>4. CASE i # 0 /\ i # m + 1
      <4>1. i \in 1..m /\ i - 1 # m + 1 /\ i - 1 \in 0..(m + 1)
        BY <3>4
      <4>2. h[i] = g[i] /\ h[i - 1] = g[i - 1]
        BY <3>4, <4>1
      <4>3. g[i] = IF s[i] \in {Begun, Refused} THEN g[i - 1] ELSE Append(g[i - 1], s[i])
        BY <2>0, <4>1
      <4> QED BY <3>4, <4>2, <4>3, Zenon
    <3> QED BY <3>2, <3>3, <3>4
  <2>3. h = [i \in 0..(m + 1) |-> h[i]]
    OBVIOUS
  <2> HIDE DEF h, x
  <2>4. IsPicked(h, s, m + 1)
    BY <2>2, <2>3, Zenon DEF IsPicked
  <2> QED BY <2>4
<1>3. \A m \in Nat : m \in S
  <2> HIDE DEF S
  <2> QED BY <1>1, <1>2, Induct
<1> QED BY <1>3

LEMMA PickedSame ==
    ASSUME NEW g, NEW h, NEW s, NEW t, NEW n \in Nat,
           IsPicked(g, s, n), IsPicked(h, t, n + 1), \A i \in 1..n : s[i] = t[i]
    PROVE  \A i \in 0..n : g[i] = h[i]
<1> DEFINE S == {i \in Nat : i <= n => g[i] = h[i]}
<1>1. /\ g[0] = <<>>
      /\ \A i \in 1..n : g[i] = IF s[i] \in {Begun, Refused} THEN g[i - 1] ELSE Append(g[i - 1], s[i])
      /\ h[0] = <<>>
      /\ \A i \in 1..(n + 1) : h[i] = IF t[i] \in {Begun, Refused} THEN h[i - 1]
                                      ELSE Append(h[i - 1], t[i])
  <2>1. n + 1 \in Nat
    OBVIOUS
  <2> QED BY <2>1, PickedUnfold
<1>2. 0 \in S
  BY <1>1
<1>3. ASSUME NEW i \in Nat, i \in S PROVE i + 1 \in S
  <2> SUFFICES ASSUME i + 1 <= n PROVE g[i + 1] = h[i + 1]
    OBVIOUS
  <2>1. g[i] = h[i] /\ i + 1 \in 1..n /\ i + 1 \in 1..(n + 1) /\ (i + 1) - 1 = i
    BY <1>3
  <2>2. s[i + 1] = t[i + 1]
    BY <2>1
  <2>3. g[i + 1] = IF s[i + 1] \in {Begun, Refused} THEN g[i] ELSE Append(g[i], s[i + 1])
    BY <1>1, <2>1
  <2>4. h[i + 1] = IF t[i + 1] \in {Begun, Refused} THEN h[i] ELSE Append(h[i], t[i + 1])
    BY <1>1, <2>1
  <2> QED BY <2>1, <2>2, <2>3, <2>4, Zenon
<1>4. \A i \in Nat : i \in S
  <2> HIDE DEF S
  <2> QED BY <1>2, <1>3, Induct
<1> QED BY <1>4

\* A message is picked when it is sent.
LEMMA ContentsAppend ==
    ASSUME NEW V, NEW s \in Seq(V), NEW m \in V
    PROVE  Contents(Append(s, m)) = IF m \in {Begun, Refused} THEN Contents(s)
                                    ELSE Append(Contents(s), m)
<1> DEFINE n == Len(s)
           t == Append(s, m)
           g == Picked(s)
           h == Picked(t)
<1>1. n \in Nat /\ Len(t) = n + 1 /\ t[n + 1] = m /\ \A i \in 1..n : s[i] = t[i]
  OBVIOUS
<1>2. IsPicked(g, s, n) /\ IsPicked(h, t, n + 1)
  <2>1. IsPicked(Picked(s), s, Len(s))
    BY <1>1, PickedExists DEF Picked
  <2>2. IsPicked(Picked(t), t, Len(t))
    <3>1. Len(t) \in Nat
      BY <1>1
    <3> HIDE DEF t
    <3> QED BY <3>1, PickedExists DEF Picked
  <2> QED BY <1>1, <2>1, <2>2
<1>3. Contents(s) = g[n] /\ Contents(t) = h[n + 1]
  BY <1>1, ContentsIsPicked
<1> HIDE DEF n, t, g, h
<1>4. g[n] = h[n]
  BY <1>1, <1>2, PickedSame
<1>5. h[n + 1] = IF t[n + 1] \in {Begun, Refused} THEN h[n] ELSE Append(h[n], t[n + 1])
  <2>1. n + 1 \in 1..(n + 1) /\ (n + 1) - 1 = n /\ n + 1 \in Nat
    BY <1>1
  <2> QED BY <1>2, <2>1, PickedUnfold
<1>6. Contents(t) = IF m \in {Begun, Refused} THEN Contents(s) ELSE Append(Contents(s), m)
  BY <1>1, <1>3, <1>4, <1>5, Zenon
<1> QED BY <1>6 DEF t

LEMMA ContentsEmpty == Contents(<<>>) = <<>>
<1>1. IsPicked(Picked(<<>>), <<>>, 0)
  BY PickedExists DEF Picked
<1> QED BY <1>1, PickedUnfold, ContentsIsPicked

\* The first p blocks.
First(p) == [n \in 1..p |-> n]

LEMMA FirstAppend ==
    ASSUME NEW p \in Nat
    PROVE  /\ First(p) \in Seq(Nat) /\ Len(First(p)) = p
           /\ Append(First(p), p + 1) = First(p + 1)
           /\ Append(First(p), Finish) \in Seq(Nat)
           /\ Len(Append(First(p), Finish)) = p + 1
  BY DEF First, Finish

LEMMA FirstBlocks ==
    ASSUME NEW b \in Nat, NEW p \in 0..b
    PROVE  SubSeq([n \in 1..b |-> n], 1, p) = First(p)
  BY DEF First

Early == {"idle", "first", "second", "opening"}
Stages == Early \union {"refused", "reading", "again", "last", "issuing", "starved", "done"}

\* A download that is at r, has a to answer, is at block p of b, and has sent s, after
\* as many refusals as there were, to a client that is there or not.
Good(r, a, b, p, s, refusals, there) ==
    /\ r \in Stages
    /\ a \in {Nothing, Begun, Refused}
    /\ b \in Blocks \union {0}
    /\ p \in 0..b
    /\ s \in Seq({Begun, Refused, Finish} \union 1..b)
    /\ Contents(s) = IF r = "done" \/ (r = "starved" /\ p > 0) THEN Append(First(p), Finish)
                     ELSE First(p)
    /\ r = "done" /\ p < b => refusals > 0
    /\ Len(s) - Len(Contents(s)) + (IF a = Nothing THEN 0 ELSE 1) = (IF r \in Early THEN 0 ELSE 1)
    /\ r \in Early => s = <<>> /\ a = Nothing /\ p = 0
    /\ r \in {"again", "last", "issuing"} => p > 0
    /\ ~there => r \notin {"first", "second", "opening"} /\ a = Nothing

GoodNow(d) ==
    Good(reading[d], answer[d], blocks[d], position[d], sent[d], refused, client)

Numbers == {Begun, Refused, Finish} \union UNION {1..n : n \in Blocks}

FileTypes ==
    /\ free \in Nat /\ total \in Nat /\ refused \in 0..MaxRefused
    /\ blocks \in [Downloads -> Blocks \union {0}]
    /\ reading \in [Downloads -> Stages]
    /\ position \in [Downloads -> Nat]
    /\ answer \in [Downloads -> {Nothing, Begun, Refused}]
    /\ sent = [d \in Downloads |-> sent[d]]
    /\ keys \subseteq Downloads /\ handles \subseteq Downloads
    /\ spilled \in Nat
    /\ client \in BOOLEAN
    /\ misused \subseteq Numbers \ {Begun, Refused}

FileInv == FileTypes /\ \A d \in Downloads : GoodNow(d)

\* What a message does to what was sent.
LEMMA SendBlock ==
    ASSUME NEW b \in Nat, NEW p \in Nat, p < b,
           NEW s \in Seq({Begun, Refused, Finish} \union 1..b), Contents(s) = First(p)
    PROVE  /\ Append(s, p + 1) \in Seq({Begun, Refused, Finish} \union 1..b)
           /\ Contents(Append(s, p + 1)) = First(p + 1)
           /\ Len(Append(s, p + 1)) = Len(s) + 1 /\ Len(s) \in Nat
           /\ Len(First(p + 1)) = p + 1 /\ Len(First(p)) = p
<1> DEFINE V == {Begun, Refused, Finish} \union 1..b
<1>1. p + 1 \in V /\ p + 1 \notin {Begun, Refused} /\ p + 1 \in Nat
  BY DEF Begun, Refused
<1> HIDE DEF V
<1>2. s \in Seq(V)
  BY DEF V
<1>3. Contents(Append(s, p + 1)) = Append(First(p), p + 1)
  BY <1>1, <1>2, ContentsAppend
<1>4. Append(s, p + 1) \in Seq(V) /\ Len(Append(s, p + 1)) = Len(s) + 1 /\ Len(s) \in Nat
  BY <1>1, <1>2
<1> QED BY <1>1, <1>3, <1>4, FirstAppend DEF V

LEMMA SendFinish ==
    ASSUME NEW b \in Nat, NEW p \in Nat,
           NEW s \in Seq({Begun, Refused, Finish} \union 1..b), Contents(s) = First(p)
    PROVE  /\ Append(s, Finish) \in Seq({Begun, Refused, Finish} \union 1..b)
           /\ Contents(Append(s, Finish)) = Append(First(p), Finish)
           /\ Len(Append(s, Finish)) = Len(s) + 1 /\ Len(s) \in Nat
           /\ Len(Append(First(p), Finish)) = p + 1 /\ Len(First(p)) = p
<1> DEFINE V == {Begun, Refused, Finish} \union 1..b
<1>1. Finish \in V /\ Finish \notin {Begun, Refused}
  BY DEF Begun, Refused, Finish
<1> HIDE DEF V
<1>2. s \in Seq(V)
  BY DEF V
<1>3. Contents(Append(s, Finish)) = Append(First(p), Finish)
  BY <1>1, <1>2, ContentsAppend
<1>4. Append(s, Finish) \in Seq(V) /\ Len(Append(s, Finish)) = Len(s) + 1 /\ Len(s) \in Nat
  BY <1>1, <1>2
<1> QED BY <1>3, <1>4, FirstAppend DEF V

LEMMA SendAnswer ==
    ASSUME NEW b \in Nat, NEW a \in {Begun, Refused},
           NEW s \in Seq({Begun, Refused, Finish} \union 1..b)
    PROVE  /\ Append(s, a) \in Seq({Begun, Refused, Finish} \union 1..b)
           /\ Contents(Append(s, a)) = Contents(s)
           /\ Len(Append(s, a)) = Len(s) + 1 /\ Len(s) \in Nat
<1> DEFINE V == {Begun, Refused, Finish} \union 1..b
<1>1. a \in V
  OBVIOUS
<1> HIDE DEF V
<1>2. s \in Seq(V)
  BY DEF V
<1>3. Contents(Append(s, a)) = Contents(s)
  BY <1>1, <1>2, ContentsAppend
<1>4. Append(s, a) \in Seq(V) /\ Len(Append(s, a)) = Len(s) + 1 /\ Len(s) \in Nat
  BY <1>1, <1>2
<1> QED BY <1>3, <1>4 DEF V

\* Only d moves.
LEMMA OnlyOneMoves ==
    ASSUME FileInv, FileTypes', NEW d \in Downloads, refused' >= refused, client' = client,
           \A e \in Downloads \ {d} :
              /\ reading'[e] = reading[e] /\ answer'[e] = answer[e] /\ blocks'[e] = blocks[e]
              /\ position'[e] = position[e] /\ sent'[e] = sent[e],
           GoodNow(d)'
    PROVE  FileInv'
<1>1. ASSUME NEW e \in Downloads \ {d} PROVE GoodNow(e)'
  <2>1. Good(reading[e], answer[e], blocks[e], position[e], sent[e], refused, client)
    BY DEF FileInv, GoodNow
  <2>2. refused \in Nat /\ refused' \in Nat
    BY MaxRefusedAssumption DEF FileInv, FileTypes
  <2>3. Good(reading[e], answer[e], blocks[e], position[e], sent[e], refused', client)
    <3>1. refused > 0 => refused' > 0
      BY <2>2
    <3> QED BY <2>1, <3>1, Zenon DEF Good
  <2> QED BY <1>1, <2>3, Zenon DEF GoodNow
<1> QED BY <1>1 DEF FileInv

LEMMA FileInit == Init => FileInv
<1> SUFFICES ASSUME InitFiles PROVE FileInv
  BY DEF Init
<1>1. FileTypes
  BY BuffersAssumption, MaxRefusedAssumption DEF InitFiles, CreateBuffers, FileTypes, Stages, Early
<1>2. ASSUME NEW d \in Downloads PROVE GoodNow(d)
  <2>1. /\ reading[d] = "idle" /\ answer[d] = Nothing /\ blocks[d] = 0 /\ position[d] = 0
        /\ sent[d] = <<>> /\ client = TRUE
    BY DEF InitFiles
  <2>2. Contents(<<>>) = <<>> /\ First(0) = <<>> /\ Len(<<>>) = 0
    BY ContentsEmpty DEF First
  <2>3. <<>> \in Seq({Begun, Refused, Finish} \union 1..0)
    OBVIOUS
  <2> QED BY <2>1, <2>2, <2>3 DEF GoodNow, Good, Stages, Early
<1> QED BY <1>1, <1>2 DEF FileInv

\* The parts of a step of d that only concern where its reading is.
LEMMA ReadingMoves ==
    ASSUME FileTypes, NEW d \in Downloads, NEW state \in Stages, To(d, state)
    PROVE  /\ reading' \in [Downloads -> Stages] /\ reading'[d] = state
           /\ \A e \in Downloads \ {d} : reading'[e] = reading[e]
  BY DEF To, FileTypes

LEMMA MessageSent ==
    ASSUME FileTypes, NEW d \in Downloads, NEW m, SendClientData(d, m)
    PROVE  /\ sent' = [e \in Downloads |-> sent'[e]]
           /\ sent'[d] = Append(sent[d], m)
           /\ \A e \in Downloads \ {d} : sent'[e] = sent[e]
           /\ misused' = IF client THEN misused ELSE misused \union {m}
<1>1. sent = [e \in Downloads |-> sent[e]] /\ sent' = [sent EXCEPT ![d] = Append(sent[d], m)]
  BY DEF FileTypes, SendClientData
<1>2. DOMAIN sent = Downloads
  BY <1>1
<1>3. sent' = [e \in Downloads |-> IF e = d THEN Append(sent[d], m) ELSE sent[e]]
  BY <1>1, <1>2
<1>4. sent'[d] = Append(sent[d], m) /\ \A e \in Downloads \ {d} : sent'[e] = sent[e]
  BY <1>3
<1>5. sent' = [e \in Downloads |-> sent'[e]]
  BY <1>3
<1> QED BY <1>4, <1>5 DEF SendClientData

LEMMA AnswerSet ==
    ASSUME FileTypes, NEW d \in Downloads, NEW a \in {Nothing, Begun, Refused}, Answers(d, a)
    PROVE  /\ answer' \in [Downloads -> {Nothing, Begun, Refused}] /\ answer'[d] = a
           /\ \A e \in Downloads \ {d} : answer'[e] = answer[e]
  BY DEF Answers, FileTypes

\* Refusals are counted, at most to their bound.
LEMMA RefusedTwice ==
    ASSUME refused \in 0..MaxRefused
    PROVE  /\ ExpandBuffers /\ free \in Nat /\ total \in Nat =>
                  /\ free' \in Nat /\ total' \in Nat
                  /\ refused' \in 0..MaxRefused /\ refused' >= refused
           /\ Refusal => refused' \in 0..MaxRefused /\ refused' > refused /\ refused' > 0
  BY MaxRefusedAssumption DEF ExpandBuffers, Refusal

LEMMA FacesOf ==
    ASSUME FileInv, NEW d \in Downloads
    PROVE  /\ Good(reading[d], answer[d], blocks[d], position[d], sent[d], refused, client)
           /\ FileTypes /\ refused \in Nat /\ refused \in 0..MaxRefused
           /\ free \in Nat /\ total \in Nat /\ spilled \in Nat
           /\ blocks[d] \in Nat /\ position[d] \in Nat
<1>1. blocks[d] \in Nat /\ refused \in Nat
  BY BlocksAssumption, MaxRefusedAssumption DEF FileInv, FileTypes
<1> QED BY <1>1 DEF FileInv, GoodNow, FileTypes

\* Steps of d that send nothing.
LEMMA QuietKeeps ==
    ASSUME FileInv, NEW d \in Downloads, NEW state \in Stages, To(d, state), 
           free' \in Nat, total' \in Nat, spilled' \in Nat,
           refused' \in 0..MaxRefused, refused' >= refused,
           UNCHANGED <<position, sent, client, misused>>,
           keys' \subseteq Downloads, handles' \subseteq Downloads,
           answer' \in [Downloads -> {Nothing, Begun, Refused}],
           \A e \in Downloads \ {d} : answer'[e] = answer[e],
           blocks' \in [Downloads -> Blocks \union {0}],
           \A e \in Downloads \ {d} : blocks'[e] = blocks[e],
           Good(state, answer'[d], blocks'[d], position[d], sent[d], refused', client)
    PROVE  FileInv'
<1>1. /\ reading' \in [Downloads -> Stages] /\ reading'[d] = state
      /\ \A e \in Downloads \ {d} : reading'[e] = reading[e]
  BY ReadingMoves DEF FileInv
<1>2. FileTypes'
  BY <1>1 DEF FileInv, FileTypes
<1>3. GoodNow(d)'
  BY <1>1, Zenon DEF GoodNow
<1>4. \A e \in Downloads \ {d} : position'[e] = position[e] /\ sent'[e] = sent[e]
  OBVIOUS
<1>5. client' = client
  OBVIOUS
<1> QED BY <1>1, <1>2, <1>3, <1>4, <1>5, OnlyOneMoves

\* Steps of d that send a message m.
LEMMA MessageKeeps ==
    ASSUME FileInv, NEW d \in Downloads, NEW state \in Stages, reading' = [reading EXCEPT ![d] = state], 
           NEW m \in Numbers \ {Begun, Refused}, SendClientData(d, m),
           free' \in Nat, total' \in Nat, spilled' \in Nat,
           refused' \in 0..MaxRefused, refused' >= refused,
           UNCHANGED <<blocks, answer, client>>,
           keys' \subseteq Downloads, handles' \subseteq Downloads,
           position' \in [Downloads -> Nat],
           \A e \in Downloads \ {d} : position'[e] = position[e],
           Good(state, answer[d], blocks[d], position'[d], Append(sent[d], m), refused', client)
    PROVE  FileInv'
<1>1. /\ reading' \in [Downloads -> Stages] /\ reading'[d] = state
      /\ \A e \in Downloads \ {d} : reading'[e] = reading[e]
  BY ReadingMoves DEF FileInv, To
<1>2. /\ sent' = [e \in Downloads |-> sent'[e]]
      /\ sent'[d] = Append(sent[d], m)
      /\ \A e \in Downloads \ {d} : sent'[e] = sent[e]
      /\ misused' = IF client THEN misused ELSE misused \union {m}
  BY MessageSent DEF FileInv
<1>3. FileTypes'
  BY <1>1, <1>2 DEF FileInv, FileTypes
<1>4. GoodNow(d)'
  BY <1>1, <1>2, Zenon DEF GoodNow
<1>5. client' = client /\ \A e \in Downloads \ {d} : blocks'[e] = blocks[e] /\ answer'[e] = answer[e]
  OBVIOUS
<1> QED BY <1>1, <1>2, <1>3, <1>4, <1>5, OnlyOneMoves

\* A stage among the early ones.
LEMMA StillEarly ==
    ASSUME NEW r \in Early, NEW b \in Blocks \union {0}, NEW c \in Blocks \union {0},
           NEW a, NEW p, NEW s, NEW n \in Nat, NEW k \in Nat, NEW there,
           Good(r, a, b, p, s, n, there), NEW q \in Early, there \/ q = "idle"
    PROVE  Good(q, a, c, p, s, k, there)
<1>1. s = <<>> /\ a = Nothing /\ p = 0
  BY DEF Good
<1>2. Contents(<<>>) = <<>> /\ First(0) = <<>> /\ Len(<<>>) = 0
  BY ContentsEmpty DEF First
<1>3. <<>> \in Seq({Begun, Refused, Finish} \union 1..c) /\ c \in Nat /\ 0 \in 0..c
  BY BlocksAssumption
<1> QED BY <1>1, <1>2, <1>3 DEF Good, Early, Stages

\* An early download is answered, and nothing was sent.
LEMMA Answered ==
    ASSUME NEW b \in Blocks \union {0}, NEW p, NEW s, NEW n \in Nat, NEW k \in Nat, NEW there,
           NEW r \in {"second", "opening"}, NEW q \in {"starved", "refused", "reading"},
           NEW c \in {Begun, Refused}, Good(r, Nothing, b, p, s, n, there)
    PROVE  Good(q, c, b, p, s, k, there)
<1>1. s = <<>> /\ p = 0 /\ there
  BY DEF Good, Early
<1>2. Contents(<<>>) = <<>> /\ First(0) = <<>> /\ Len(<<>>) = 0
  BY ContentsEmpty DEF First
<1>3. <<>> \in Seq({Begun, Refused, Finish} \union 1..b) /\ b \in Nat /\ 0 \in 0..b
  BY BlocksAssumption
<1>4. c # Nothing
  BY DEF Begun, Refused, Nothing
<1>5. /\ q \in Stages /\ q \notin Early /\ q # "done" /\ q \notin {"again", "last", "issuing"}
      /\ q \notin {"first", "second", "opening"}
  BY DEF Early, Stages
<1>6. /\ Contents(s) = First(p) /\ ~(q = "starved" /\ p > 0)
      /\ Len(s) - Len(Contents(s)) + 1 = 1
  BY <1>1, <1>2
<1> QED BY <1>1, <1>3, <1>4, <1>5, <1>6 DEF Good

\* A download goes on reading.
LEMMA ReadsOn ==
    ASSUME NEW a, NEW b, NEW p, NEW s, NEW n \in Nat, NEW k \in Nat, n <= k, NEW there,
           NEW r \in {"again", "last", "issuing"}, NEW q \in {"reading", "last", "issuing"},
           Good(r, a, b, p, s, n, there)
    PROVE  Good(q, a, b, p, s, k, there)
  BY DEF Good, Early, Stages

LEMMA QuietSteps ==
    ASSUME FileInv, NEW d \in Downloads,
           \/ PassiveDownload(d) \/ GetBuffer(d) \/ GetBufferExpands(d) \/ NoFirstBuffer(d)
           \/ CannotOpen(d) \/ FirstRead(d) \/ FirstReadFails(d) \/ NextRead(d)
    PROVE  FileInv'
<1> DEFINE G(r, a, b, k) == Good(r, a, b, position[d], sent[d], k, client)
<1>0. /\ G(reading[d], answer[d], blocks[d], refused)
      /\ FileTypes /\ refused \in Nat /\ refused \in 0..MaxRefused
      /\ free \in Nat /\ total \in Nat /\ spilled \in Nat
      /\ blocks[d] \in Nat /\ position[d] \in Nat
      /\ blocks[d] \in Blocks \union {0}
  BY FacesOf DEF FileTypes
<1>t. /\ keys \subseteq Downloads /\ handles \subseteq Downloads
      /\ answer \in [Downloads -> {Nothing, Begun, Refused}]
      /\ blocks \in [Downloads -> Blocks \union {0}]
  BY <1>0 DEF FileTypes
<1>e. reading[d] \in Early => answer[d] = Nothing
  BY <1>0 DEF Good
<1>s. Early \subseteq Stages /\ {"refused", "reading", "last", "issuing", "starved"} \subseteq Stages
  BY DEF Stages
<1>1. CASE PassiveDownload(d)
  <2>1. PICK n \in Blocks : blocks' = [blocks EXCEPT ![d] = n]
    BY <1>1 DEF PassiveDownload
  <2>2. /\ reading[d] = "idle" /\ client /\ To(d, "first")
        /\ UNCHANGED <<free, total, refused, position, answer, sent, keys, handles, spilled, client, misused>>
    BY <1>1 DEF PassiveDownload, pool_vars
  <2>3. /\ blocks' \in [Downloads -> Blocks \union {0}] /\ blocks'[d] = n
        /\ \A e \in Downloads \ {d} : blocks'[e] = blocks[e]
    BY <1>t, <2>1
  <2>4. "idle" \in Early /\ "first" \in Early /\ "first" \in Stages
    BY DEF Early, Stages
  <2>5. G("first", answer[d], n, refused)
    <3>1. n \in Blocks \union {0} /\ reading[d] \in Early
      BY <2>2, <2>4
    <3>2. client \/ "first" = "idle"
      BY <2>2
    <3> HIDE DEF Early
    <3> QED BY <1>0, <2>4, <3>1, <3>2, StillEarly
  <2>6. /\ \A e \in Downloads \ {d} : answer'[e] = answer[e]
        /\ Good("first", answer'[d], blocks'[d], position[d], sent[d], refused', client)
    BY <2>2, <2>3, <2>5, Zenon
  <2>7. /\ free' \in Nat /\ total' \in Nat /\ spilled' \in Nat
        /\ refused' \in 0..MaxRefused /\ refused' >= refused
        /\ keys' \subseteq Downloads /\ handles' \subseteq Downloads
        /\ answer' \in [Downloads -> {Nothing, Begun, Refused}]
    BY <1>0, <1>t, <2>2
  <2> HIDE DEF G
  <2> QED BY <2>2, <2>3, <2>4, <2>6, <2>7, QuietKeeps
<1>2. ASSUME NEW q \in {"opening", "issuing", "second", "last"}, To(d, q),
             q \in {"opening", "second"} => reading[d] \in {"first", "second"},
             q \in {"issuing", "last"} => reading[d] \in {"again", "last"},
             free' \in Nat, total' \in Nat, refused' \in 0..MaxRefused, refused' >= refused,
             UNCHANGED <<blocks, position, answer, sent, keys, handles, spilled, client, misused>>
      PROVE  FileInv'
  <2>1. q \in Stages /\ refused' \in Nat
    BY <1>2, MaxRefusedAssumption DEF Stages, Early
  <2>2. G(q, answer[d], blocks[d], refused')
    <3>1. CASE q \in {"opening", "second"}
      <4>1. client
        BY <1>0, <1>2, <3>1 DEF Good
      <4>2. q \in Early /\ reading[d] \in Early
        BY <1>2, <3>1 DEF Early
      <4> QED BY <1>0, <2>1, <4>1, <4>2, StillEarly
    <3>2. CASE q \in {"issuing", "last"}
      BY <1>0, <1>2, <2>1, <3>2, ReadsOn
    <3> QED BY <3>1, <3>2
  <2> QED BY <1>0, <1>t, <1>2, <2>1, <2>2, QuietKeeps
<1>3. CASE GetBuffer(d)
  <2>1. /\ To(d, Gets[reading[d]]) /\ reading[d] \in {"first", "second", "again", "last"}
        /\ free > 0 /\ free' = free - 1 /\ UNCHANGED <<total, refused>>
        /\ UNCHANGED <<blocks, position, answer, sent, keys, handles, spilled, client, misused>>
    BY <1>3 DEF GetBuffer, Dequeue, Gets
  <2>2. /\ Gets[reading[d]] \in {"opening", "issuing"}
        /\ Gets[reading[d]] = "opening" => reading[d] \in {"first", "second"}
        /\ Gets[reading[d]] = "issuing" => reading[d] \in {"again", "last"}
    BY <2>1 DEF Gets
  <2>3. free' \in Nat
    BY <1>0, <2>1
  <2> QED BY <1>0, <1>2, <2>1, <2>2, <2>3
<1>4. CASE GetBufferExpands(d)
  <2>1. /\ To(d, Attempts[reading[d]]) /\ reading[d] \in {"first", "again"}
        /\ ExpandBuffers
        /\ UNCHANGED <<blocks, position, answer, sent, keys, handles, spilled, client, misused>>
    BY <1>4 DEF GetBufferExpands, Attempts
  <2>2. /\ Attempts[reading[d]] \in {"second", "last"}
        /\ Attempts[reading[d]] = "second" => reading[d] \in {"first", "second"}
        /\ Attempts[reading[d]] = "last" => reading[d] \in {"again", "last"}
    BY <2>1 DEF Attempts
  <2>3. free' \in Nat /\ total' \in Nat /\ refused' \in 0..MaxRefused /\ refused' >= refused
    BY <1>0, <2>1, RefusedTwice
  <2> QED BY <1>2, <2>1, <2>2, <2>3
<1>5. ASSUME NEW q \in {"starved", "refused", "reading"}, NEW c \in {Begun, Refused},
             To(d, q), Answers(d, c), reading[d] \in {"second", "opening"},
             free' \in Nat, total' \in Nat, refused' \in 0..MaxRefused, refused' >= refused,
             keys' \subseteq Downloads, handles' \subseteq Downloads,
             UNCHANGED <<blocks, position, sent, spilled, client, misused>>
      PROVE  FileInv'
  <2>1. q \in Stages /\ refused' \in Nat
    BY <1>5, MaxRefusedAssumption DEF Stages, Early
  <2>2. /\ answer' \in [Downloads -> {Nothing, Begun, Refused}] /\ answer'[d] = c
        /\ \A e \in Downloads \ {d} : answer'[e] = answer[e]
    BY <1>0, <1>5, AnswerSet
  <2>3. answer[d] = Nothing
    BY <1>5, <1>e DEF Early
  <2>4. G(q, c, blocks[d], refused')
    BY <1>0, <1>5, <2>1, <2>3, Answered
  <2> QED BY <1>0, <1>t, <1>5, <2>1, <2>2, <2>4, QuietKeeps
<1>6. CASE NoFirstBuffer(d)
  <2>1. free' \in Nat /\ total' \in Nat /\ refused' \in 0..MaxRefused /\ refused' >= refused
    BY <1>0, <1>6, RefusedTwice DEF NoFirstBuffer
  <2>2. /\ To(d, "starved") /\ Answers(d, Begun) /\ reading[d] = "second"
        /\ UNCHANGED <<blocks, position, sent, keys, handles, spilled, client, misused>>
    BY <1>6 DEF NoFirstBuffer
  <2> QED BY <1>t, <1>5, <2>1, <2>2
<1>7. CASE CannotOpen(d) \/ FirstReadFails(d)
  <2>1. /\ free' = free + 1 /\ total' = total /\ (Refusal \/ refused' = refused)
        /\ To(d, "refused") /\ Answers(d, Refused) /\ reading[d] = "opening"
        /\ keys' \subseteq keys \union {d}
        /\ UNCHANGED <<blocks, position, sent, handles, spilled, client, misused>>
    BY <1>7 DEF CannotOpen, FirstReadFails
  <2>2. free' \in Nat /\ total' \in Nat /\ refused' \in 0..MaxRefused /\ refused' >= refused
    BY <1>0, <2>1, RefusedTwice, MaxRefusedAssumption
  <2>3. keys' \subseteq Downloads
    BY <1>t, <2>1
  <2> QED BY <1>t, <1>5, <2>1, <2>2, <2>3
<1>8. CASE FirstRead(d)
  <2>1. /\ To(d, "reading") /\ Answers(d, Begun) /\ reading[d] = "opening"
        /\ keys' = keys \union {d} /\ handles' = handles \union {d}
        /\ UNCHANGED <<free, total, refused, blocks, position, sent, spilled, client, misused>>
    BY <1>8 DEF FirstRead, pool_vars
  <2>2. keys' \subseteq Downloads /\ handles' \subseteq Downloads
    BY <1>t, <2>1
  <2> QED BY <1>0, <1>5, <2>1, <2>2
<1>9. CASE NextRead(d)
  <2>1. /\ To(d, "reading") /\ reading[d] = "issuing"
        /\ UNCHANGED <<free, total, refused, blocks, position, answer, sent, keys, handles, spilled, client, misused>>
    BY <1>9 DEF NextRead, pool_vars
  <2>2. G("reading", answer[d], blocks[d], refused)
    BY <1>0, <2>1, ReadsOn
  <2> QED BY <1>0, <1>t, <1>s, <2>1, <2>2, QuietKeeps
<1> QED BY <1>1, <1>3, <1>4, <1>6, <1>7, <1>8, <1>9

LEMMA AnswerKeeps ==
    ASSUME FileInv, NEW d \in Downloads, Answer(d) PROVE FileInv'
<1> DEFINE b == blocks[d]
           s == sent[d]
           p == position[d]
           r == reading[d]
           a == answer[d]
<1>0. /\ Good(r, a, b, p, s, refused, client) /\ FileTypes
      /\ b \in Nat /\ p \in Nat /\ refused \in Nat
  BY FacesOf
<1>1. /\ a # Nothing /\ SendClientData(d, a) /\ Answers(d, Nothing)
      /\ UNCHANGED <<free, total, refused, blocks, reading, position, keys, handles, spilled, client>>
  BY DEF Answer, pool_vars
<1>2. /\ a \in {Begun, Refused} /\ client /\ r \notin Early
      /\ s \in Seq({Begun, Refused, Finish} \union 1..b)
  BY <1>0, <1>1 DEF Good
<1>3. /\ sent' = [e \in Downloads |-> sent'[e]]
      /\ sent'[d] = Append(s, a)
      /\ \A e \in Downloads \ {d} : sent'[e] = sent[e]
      /\ misused' = misused
  BY <1>0, <1>1, <1>2, MessageSent
<1>4. /\ answer' \in [Downloads -> {Nothing, Begun, Refused}] /\ answer'[d] = Nothing
      /\ \A e \in Downloads \ {d} : answer'[e] = answer[e]
  BY <1>0, <1>1, AnswerSet
<1>5. FileTypes'
  BY <1>0, <1>1, <1>3, <1>4 DEF FileTypes
<1>6. Good(r, Nothing, b, p, Append(s, a), refused, client)
  <2>1. /\ Append(s, a) \in Seq({Begun, Refused, Finish} \union 1..b)
        /\ Contents(Append(s, a)) = Contents(s)
        /\ Len(Append(s, a)) = Len(s) + 1 /\ Len(s) \in Nat
    BY <1>0, <1>2, SendAnswer
  <2>2. Len(Contents(s)) \in Nat
    <3>1. Contents(s) \in {First(p), Append(First(p), Finish)}
      BY <1>0 DEF Good
    <3>2. Len(First(p)) = p /\ Len(Append(First(p), Finish)) = p + 1
      BY <1>0, FirstAppend
    <3> QED BY <1>0, <3>1, <3>2
  <2>3. Len(s) - Len(Contents(s)) + 1 = 1
    BY <1>0, <1>1, <1>2 DEF Good
  <2>4. Len(Append(s, a)) - Len(Contents(Append(s, a))) + 0 = 1
    BY ONLY <2>1, <2>2, <2>3
  <2> HIDE DEF b, s, p, r, a
  <2> QED BY <1>0, <1>2, <2>1, <2>4 DEF Good
<1>7. GoodNow(d)'
  BY <1>1, <1>3, <1>4, <1>6, Zenon DEF GoodNow
<1>8. refused' >= refused /\ client' = client
  BY <1>0, <1>1
<1> QED BY <1>1, <1>3, <1>4, <1>5, <1>7, <1>8, OnlyOneMoves

LEMMA BlockKeeps ==
    ASSUME FileInv, NEW d \in Downloads, BlockRead(d) PROVE FileInv'
<1> DEFINE b == blocks[d]
           s == sent[d]
           p == position[d]
           a == answer[d]
<1>0. /\ Good(reading[d], a, b, p, s, refused, client) /\ FileTypes
      /\ b \in Nat /\ p \in Nat /\ refused \in Nat /\ refused \in 0..MaxRefused
      /\ free \in Nat /\ total \in Nat /\ spilled \in Nat
  BY FacesOf
<1>1. /\ reading[d] = "reading" /\ p < b /\ SendClientData(d, p + 1)
      /\ position' = [position EXCEPT ![d] = p + 1]
      /\ free' = free + 1 /\ To(d, "again")
      /\ UNCHANGED <<total, refused, blocks, answer, keys, handles, spilled, client>>
  BY DEF BlockRead, ReleaseBuffer
<1>2. /\ Contents(s) = First(p) /\ s \in Seq({Begun, Refused, Finish} \union 1..b)
      /\ Len(s) - Len(Contents(s)) + (IF a = Nothing THEN 0 ELSE 1) = 1
  BY <1>0, <1>1 DEF Good, Early
<1>3. /\ Append(s, p + 1) \in Seq({Begun, Refused, Finish} \union 1..b)
      /\ Contents(Append(s, p + 1)) = First(p + 1)
      /\ Len(Append(s, p + 1)) = Len(s) + 1 /\ Len(s) \in Nat
      /\ Len(First(p + 1)) = p + 1 /\ Len(First(p)) = p
  BY <1>0, <1>1, <1>2, SendBlock
<1>4. Good("again", a, b, p + 1, Append(s, p + 1), refused, client)
  <2>1. Len(Append(s, p + 1)) - Len(Contents(Append(s, p + 1))) = Len(s) - Len(Contents(s))
    <3>1. Len(Contents(Append(s, p + 1))) = p + 1 /\ Len(Contents(s)) = p
      BY <1>2, <1>3
    <3>2. Len(Append(s, p + 1)) = Len(s) + 1 /\ Len(s) \in Nat /\ p \in Nat
      BY <1>0, <1>3
    <3> HIDE DEF s, p
    <3> QED BY ONLY <3>1, <3>2
  <2>2. p + 1 \in 0..b /\ p + 1 > 0
    BY <1>0, <1>1
  <2>3. /\ "again" \in Stages /\ "again" \notin Early
    BY DEF Early, Stages
  <2>4. /\ a \in {Nothing, Begun, Refused} /\ b \in Blocks \union {0}
        /\ ~client => a = Nothing
    BY <1>0 DEF Good
  <2>5. Len(Append(s, p + 1)) - Len(Contents(Append(s, p + 1))) + (IF a = Nothing THEN 0 ELSE 1) = 1
    BY <1>2, <2>1
  <2> HIDE DEF b, s, p, a
  <2> QED BY <1>3, <2>2, <2>3, <2>4, <2>5 DEF Good
<1>5. /\ position' \in [Downloads -> Nat] /\ position'[d] = p + 1
      /\ \A e \in Downloads \ {d} : position'[e] = position[e]
  BY <1>0, <1>1 DEF FileTypes
<1>6. p + 1 \in Numbers \ {Begun, Refused}
  <2>1. b \in Blocks /\ p + 1 \in 1..b
    BY <1>0, <1>1 DEF Good
  <2> QED BY <2>1 DEF Numbers, Begun, Refused
<1>7. /\ "again" \in Stages /\ reading' = [reading EXCEPT ![d] = "again"]
      /\ free' \in Nat /\ total' \in Nat /\ spilled' \in Nat
      /\ refused' \in 0..MaxRefused /\ refused' >= refused
      /\ keys' \subseteq Downloads /\ handles' \subseteq Downloads
  BY <1>0, <1>1 DEF FileTypes, Stages, To
<1>8. Good("again", answer[d], blocks[d], position'[d], Append(sent[d], p + 1), refused', client)
  BY <1>1, <1>4, <1>5, Zenon
<1> HIDE DEF p, a, s, b
<1> QED BY <1>1, <1>5, <1>6, <1>7, <1>8, MessageKeeps

\* The end is told.
LEMMA EndKeeps ==
    ASSUME FileInv, NEW d \in Downloads, EndOfFile(d) \/ NoNextBuffer(d) \/ NextReadFails(d)
    PROVE  FileInv'
<1> DEFINE b == blocks[d]
           s == sent[d]
           p == position[d]
           a == answer[d]
<1>0. /\ Good(reading[d], a, b, p, s, refused, client) /\ FileTypes
      /\ b \in Nat /\ p \in Nat /\ refused \in Nat /\ refused \in 0..MaxRefused
      /\ free \in Nat /\ total \in Nat /\ spilled \in Nat
  BY FacesOf
<1>1. /\ SendClientData(d, Finish) /\ keys' = keys \ {d} /\ handles' \subseteq handles
      /\ UNCHANGED <<blocks, position, answer, client>>
      /\ reading[d] \in {"reading", "last", "issuing"}
  BY DEF EndOfFile, NoNextBuffer, NextReadFails
<1>2. /\ Contents(s) = First(p) /\ s \in Seq({Begun, Refused, Finish} \union 1..b)
      /\ Len(s) - Len(Contents(s)) + (IF a = Nothing THEN 0 ELSE 1) = 1
      /\ p \in 0..b
  BY <1>0, <1>1 DEF Good, Early
<1>3. /\ Append(s, Finish) \in Seq({Begun, Refused, Finish} \union 1..b)
      /\ Contents(Append(s, Finish)) = Append(First(p), Finish)
      /\ Len(Append(s, Finish)) = Len(s) + 1 /\ Len(s) \in Nat
      /\ Len(Append(First(p), Finish)) = p + 1 /\ Len(First(p)) = p
  BY <1>0, <1>2, SendFinish
<1>4. PICK q \in {"done", "starved"} :
        /\ reading' = [reading EXCEPT ![d] = q]
        /\ q = "starved" => p > 0
        /\ q = "done" /\ p < b => refused' > 0
        /\ free' \in Nat /\ total' \in Nat /\ spilled' \in Nat
        /\ refused' \in 0..MaxRefused /\ refused' >= refused
  <2>1. CASE EndOfFile(d) \/ NextReadFails(d)
    <3>1. /\ free' \in {free, free + 1} /\ total' = total /\ spilled' \in {spilled, spilled + 1}
          /\ IF p = b THEN refused' = refused ELSE Refusal
          /\ To(d, "done")
      BY <2>1 DEF EndOfFile, NextReadFails
    <3>2. /\ refused' \in 0..MaxRefused /\ refused' >= refused
          /\ p < b => refused' > 0
      BY <1>0, <1>2, <3>1, RefusedTwice, MaxRefusedAssumption
    <3> QED BY <1>0, <3>1, <3>2 DEF To
  <2>2. CASE NoNextBuffer(d)
    <3>1. ExpandBuffers /\ reading[d] = "last" /\ To(d, "starved") /\ spilled' = spilled
      BY <2>2 DEF NoNextBuffer
    <3>2. p > 0
      BY <1>0, <3>1 DEF Good
    <3> QED BY <1>0, <3>1, <3>2, RefusedTwice DEF To
  <2> QED BY <2>1, <2>2
<1>5. Good(q, a, b, p, Append(s, Finish), refused', client)
  <2>1. Len(Append(s, Finish)) - Len(Contents(Append(s, Finish))) = Len(s) - Len(Contents(s))
    <3>1. \A x, y \in Nat : (x + 1) - (y + 1) = x - y
      OBVIOUS
    <3>2. Len(Append(s, Finish)) - Len(Contents(Append(s, Finish))) = (Len(s) + 1) - (p + 1)
      BY <1>3, Zenon
    <3>3. Len(s) - Len(Contents(s)) = Len(s) - p
      BY <1>2, <1>3, Zenon
    <3>4. Len(s) \in Nat /\ p \in Nat
      BY <1>0, <1>3, Zenon
    <3> QED BY <3>1, <3>2, <3>3, <3>4, Zenon
  <2>2. q \in Stages /\ q \notin Early /\ q \notin {"again", "last", "issuing"} /\ q \notin {"first", "second", "opening"}
    BY <1>4 DEF Early, Stages
  <2>3. q = "done" \/ (q = "starved" /\ p > 0)
    BY <1>4
  <2>4. /\ a \in {Nothing, Begun, Refused} /\ b \in Blocks \union {0}
        /\ ~client => a = Nothing
    BY <1>0 DEF Good
  <2>5. Len(Append(s, Finish)) - Len(Contents(Append(s, Finish))) + (IF a = Nothing THEN 0 ELSE 1) = 1
    BY <1>2, <2>1
  <2>6. q = "done" /\ p < b => refused' > 0
    BY <1>4
  <2> HIDE DEF b, s, p, a
  <2> QED BY <1>2, <1>3, <2>2, <2>3, <2>4, <2>5, <2>6 DEF Good
<1>6. /\ position' \in [Downloads -> Nat] /\ position'[d] = p
      /\ \A e \in Downloads \ {d} : position'[e] = position[e]
      /\ keys' \subseteq Downloads /\ handles' \subseteq Downloads
  BY <1>0, <1>1 DEF FileTypes
<1>7. Finish \in Numbers \ {Begun, Refused} /\ q \in Stages
  BY DEF Numbers, Finish, Begun, Refused, Stages
<1>8. Good(q, answer[d], blocks[d], position'[d], Append(sent[d], Finish), refused', client)
  BY <1>1, <1>5, <1>6, Zenon
<1> HIDE DEF p, a, s, b
<1> QED BY <1>1, <1>4, <1>6, <1>7, <1>8, MessageKeeps

LEMMA FileNext == FileInv /\ [Next]_vars => FileInv'
<1> SUFFICES ASSUME FileInv, [Next]_vars PROVE FileInv'
  OBVIOUS
<1>u. CASE UNCHANGED file_vars
  <2>1. UNCHANGED <<free, total, refused, blocks, reading, position, answer, sent, keys, handles,
                    spilled, client, misused>>
    BY <1>u DEF file_vars, pool_vars, download_vars
  <2>2. FileTypes'
    BY <2>1 DEF FileInv, FileTypes
  <2>3. \A d \in Downloads : GoodNow(d)'
    BY <2>1, Zenon DEF FileInv, GoodNow
  <2> QED BY <2>2, <2>3 DEF FileInv
<1>1. CASE ClientGone
  <2>1. /\ ~Handling /\ client' = FALSE
        /\ UNCHANGED <<free, total, refused, blocks, reading, position, answer, sent, keys, handles,
                       spilled, misused>>
    BY <1>1 DEF ClientGone, pool_vars
  <2>2. FileTypes'
    BY <2>1 DEF FileInv, FileTypes
  <2>3. ASSUME NEW d \in Downloads PROVE GoodNow(d)'
    <3>1. reading[d] \notin {"first", "second", "opening"} /\ answer[d] = Nothing
      BY <2>1 DEF Handling
    <3>2. Good(reading[d], answer[d], blocks[d], position[d], sent[d], refused, client)
      BY DEF FileInv, GoodNow
    <3>3. Good(reading[d], answer[d], blocks[d], position[d], sent[d], refused, FALSE)
      BY <3>1, <3>2, Zenon DEF Good
    <3> QED BY <2>1, <3>3, Zenon DEF GoodNow
  <2> QED BY <2>2, <2>3 DEF FileInv
<1> QED
  BY <1>u, <1>1, QuietSteps, AnswerKeeps, BlockKeeps, EndKeeps DEF Next, FileStep, vars

LEMMA FileInvImplies == FileInv => DownloadInOrder /\ TypeOKFiles
<1> SUFFICES ASSUME FileInv PROVE DownloadInOrder /\ TypeOKFiles
  OBVIOUS
<1>0. /\ FileTypes
      /\ \A d \in Downloads :
            Good(reading[d], answer[d], blocks[d], position[d], sent[d], refused, client)
  BY DEF FileInv, GoodNow
<1>1. TypeOKFiles
  <2>1. \A d \in Downloads : /\ position[d] <= blocks[d]
                             /\ sent[d] \in Seq({Begun, Refused, Finish} \union 1..blocks[d])
    <3> TAKE d \in Downloads
    <3>1. position[d] \in 0..blocks[d] /\ blocks[d] \in Nat
      BY <1>0, FacesOf, Zenon DEF Good
    <3>2. position[d] <= blocks[d]
      BY <3>1
    <3> QED BY <1>0, <3>2, Zenon DEF Good
  <2> QED BY <1>0, <2>1 DEF FileTypes, TypeOKFiles, Stages, Early, Numbers
<1>2. ASSUME NEW d \in Downloads
      PROVE  LET over == reading[d] = "done" \/ (reading[d] = "starved" /\ position[d] > 0)
             IN  /\ Content(d) = SubSeq(Whole(d), 1, position[d])
                                    \o (IF over THEN <<Finish>> ELSE <<>>)
                 /\ reading[d] = "done" /\ position[d] < blocks[d] => refused > 0
                 /\ Len(sent[d]) - Len(Content(d)) + (IF answer[d] = Nothing THEN 0 ELSE 1)
                       = (IF reading[d] \in {"idle", "first", "second", "opening"} THEN 0 ELSE 1)
  <2> DEFINE over == reading[d] = "done" \/ (reading[d] = "starved" /\ position[d] > 0)
             p == position[d]
  <2>1. p \in 0..blocks[d] /\ blocks[d] \in Nat /\ p \in Nat
    BY <1>0, FacesOf, Zenon DEF Good
  <2>2. SubSeq(Whole(d), 1, p) = First(p)
    BY <2>1, FirstBlocks DEF Whole
  <2>3. First(p) \o <<>> = First(p) /\ First(p) \o <<Finish>> = Append(First(p), Finish)
    <3>1. First(p) \in Seq(Nat) /\ Finish \in Nat
      BY <2>1, FirstAppend DEF Finish
    <3> HIDE DEF p
    <3> QED BY <3>1
  <2>4. Content(d) = IF over THEN Append(First(p), Finish) ELSE First(p)
    BY <1>0 DEF Good, Content
  <2>5. Content(d) = SubSeq(Whole(d), 1, p) \o (IF over THEN <<Finish>> ELSE <<>>)
    BY <2>2, <2>3, <2>4, Zenon
  <2>6. /\ reading[d] = "done" /\ position[d] < blocks[d] => refused > 0
        /\ Len(sent[d]) - Len(Content(d)) + (IF answer[d] = Nothing THEN 0 ELSE 1)
              = (IF reading[d] \in {"idle", "first", "second", "opening"} THEN 0 ELSE 1)
    BY <1>0, Zenon DEF Good, Content, Early
  <2> QED BY <2>5, <2>6
<1>3. misused \intersect {Begun, Refused} = {}
  BY <1>0 DEF FileTypes
<1> QED BY <1>1, <1>2, <1>3 DEF DownloadInOrder

\* Whatever the files and however downloads share workers and buffers, a client is sent
\* the blocks of a file from the first on, in order, and their end once; it is answered
\* once, and never when it is gone (WTProcessFileRead, IssueReadFile).
THEOREM BlocksInOrder == Spec => []DownloadInOrder
  BY FileInit, FileNext, FileInvImplies, PTL DEF Spec
-----------------------------------------------------------------------------
(* The types.                                                              *)

LEMMA TimeoutTypes == TypeOKTimeout /\ [Next]_vars => TypeOKTimeout'
<1> SUFFICES ASSUME TypeOKTimeout, [Next]_vars PROVE TypeOKTimeout'
  OBVIOUS
<1> USE MaxTimeAssumption, MaxReadsAssumption
<1>t. /\ now \in Nat /\ now <= MaxTime /\ read \in Nat /\ read <= MaxReads /\ shift \in Int
      /\ received \in -1..MaxTime /\ last \in Int
  BY ShiftsAssumption DEF TypeOKTimeout
<1>u. CASE UNCHANGED timeout_vars
  BY <1>u DEF timeout_vars, TypeOKTimeout
<1>1. CASE Tick
  <2>1. now' \in 0..MaxTime
    BY <1>1, <1>t DEF Tick
  <2> QED BY <1>1, <2>1 DEF Tick, TypeOKTimeout
<1>2. CASE ClockSet
  BY <1>2 DEF ClockSet, TypeOKTimeout
<1>3. CASE DataArrives
  BY <1>3 DEF DataArrives, TypeOKTimeout
<1>4. CASE UpdateLastDataReceiveTime
  <2>1. received' \in -1..MaxTime /\ last' \in Int
    BY <1>4, <1>t DEF UpdateLastDataReceiveTime
  <2>2. handling' \subseteq 1..read
    BY <1>4, <1>t DEF UpdateLastDataReceiveTime, TypeOKTimeout
  <2> QED BY <1>4, <2>1, <2>2 DEF UpdateLastDataReceiveTime, TypeOKTimeout
<1>5. CASE IssueClientRead
  <2>1. /\ read' = read + 1 /\ read' \in 1..MaxReads /\ phase' = "pending"
        /\ armed' = armed \union {read + 1} /\ issued' = [issued EXCEPT ![read + 1] = now]
        /\ UNCHANGED <<timeout, now, shift, received, last, handling, timed_out>>
    BY <1>5, <1>t DEF IssueClientRead
  <2>2. 1..read \subseteq 1..read' /\ read + 1 \in 1..read'
    BY <1>t, <2>1
  <2>3. issued' \in [1..MaxReads -> 0..MaxTime]
    BY <2>1 DEF TypeOKTimeout
  <2>4. armed' \subseteq 1..read' /\ handling' \subseteq 1..read'
    BY <2>1, <2>2 DEF TypeOKTimeout
  <2> QED BY <2>1, <2>3, <2>4 DEF TypeOKTimeout
<1>6. ASSUME NEW r \in 1..MaxReads, DequeueOperation(r) PROVE TypeOKTimeout'
  BY <1>6 DEF DequeueOperation, TypeOKTimeout
<1>7. ASSUME NEW r \in 1..MaxReads, OnTimerTimeout(r) PROVE TypeOKTimeout'
  <2>1. timed_out' \in BOOLEAN
    <3>1. (2 * Seconds(last, now + shift) >= timeout) \in BOOLEAN
      OBVIOUS
    <3>2. Real \subseteq BOOLEAN
      BY <3>1, Zenon DEF Real
    <3>3. timed_out' \in Real \/ timed_out' = TRUE
      BY <1>7, Zenon DEF OnTimerTimeout
    <3> QED BY <3>2, <3>3, Zenon
  <2> QED BY <1>7, <2>1 DEF OnTimerTimeout, Fires, TypeOKTimeout
<1> QED
  BY <1>u, <1>1, <1>2, <1>3, <1>4, <1>5, <1>6, <1>7 DEF Next, TimeoutStep, vars

LEMMA UploadsTypes == TypeOKUploads /\ [Next]_vars => TypeOKUploads'
<1> SUFFICES ASSUME TypeOKUploads, [Next]_vars PROVE TypeOKUploads'
  OBVIOUS
<1> USE DesiredAssumption, MaxPiecesAssumption
<1>u. CASE UNCHANGED upload_vars
  BY <1>u DEF upload_vars, TypeOKUploads
<1>b. ASSUME NEW k \in Nat, buffers' = Bind(k, <<>>)
      PROVE  DOMAIN buffers' \subseteq Nat /\ \A c \in DOMAIN buffers' : buffers'[c] \in Seq(Files)
  BY <1>b DEF Bind, TypeOKUploads
<1>1. ASSUME NEW f \in Files, PrepareUpload(f) PROVE TypeOKUploads'
  <2>1. /\ base \in Nat /\ orphans \in Nat /\ buffers' = Bind(base, <<>>) /\ base' = base + 1
        /\ cookie' = [cookie EXCEPT ![f] = base]
        /\ orphans' \in {orphans, orphans + 1}
        /\ UNCHANGED <<desire, pieces, finished, damaged>>
    BY <1>1 DEF PrepareUpload, TypeOKUploads
  <2>2. base' \in Nat \ {0} /\ orphans' \in Nat /\ cookie' \in [Files -> Nat]
    BY <2>1 DEF TypeOKUploads
  <2> QED BY <1>b, <2>1, <2>2 DEF TypeOKUploads
<1>2. ASSUME NEW f \in Files, NEW k \in Desired, PrepareDesired(f, k) PROVE TypeOKUploads'
  <2>1. /\ buffers' = Bind(k, <<>>) /\ k \in Nat
        /\ desire' = [desire EXCEPT ![f] = k] /\ cookie' = [cookie EXCEPT ![f] = k]
        /\ UNCHANGED <<base, orphans, pieces, finished, damaged>>
    BY <1>2 DEF PrepareDesired
  <2>2. desire' \in [Files -> Desired \union {0}] /\ cookie' \in [Files -> Nat]
    BY <2>1 DEF TypeOKUploads
  <2> QED BY <1>b, <2>1, <2>2 DEF TypeOKUploads
<1>3. ASSUME NEW f \in Files, ProcessUpload(f) PROVE TypeOKUploads'
  <2>1. pieces' \in [Files -> 0..MaxPieces]
    BY <1>3 DEF ProcessUpload, TypeOKUploads
  <2>2. DOMAIN buffers' = DOMAIN buffers /\ \A c \in DOMAIN buffers : buffers'[c] \in Seq(Files)
    BY <1>3 DEF ProcessUpload, TypeOKUploads
  <2> QED BY <1>3, <2>1, <2>2 DEF ProcessUpload, TypeOKUploads
<1>4. ASSUME NEW f \in Files, CloseUpload(f) PROVE TypeOKUploads'
  BY <1>4 DEF CloseUpload, Unbind, TypeOKUploads
<1> QED
  BY <1>u, <1>1, <1>2, <1>3, <1>4 DEF Next, UploadStep, vars

\* What the reader finds in an HTTP buffer is a place in it, and a length.
LEMMA HttpPlaces ==
    ASSUME TypeOKHttp
    PROVE  /\ \A cell : FirstPlace(cell) \in Int
           /\ \A end \in HeaderEnds : end \in Int /\ ReadableLength(end) \in Int
<1>1. fetched \in Int /\ cut \in Int /\ body \in Int
  BY BodiesAssumption DEF TypeOKHttp
<1>2. ASSUME NEW cell PROVE FirstPlace(cell) \in Int
  <2>1. Places(cell) \subseteq Int
    BY <1>1 DEF Places, FoundBefore
  <2>2. CASE Places(cell) # {}
    <3>1. (CHOOSE i \in Places(cell) : TRUE) \in Places(cell)
      BY <2>2
    <3> QED BY <2>1, <2>2, <3>1 DEF FirstPlace
  <2> QED BY <2>2 DEF FirstPlace
<1>3. ASSUME NEW end \in HeaderEnds PROVE end \in Int
  <2>1. FirstPlace("half") \in Int
    BY <1>2
  <2> QED BY <1>1, <2>1 DEF HeaderEnds
<1>4. ASSUME NEW end \in HeaderEnds PROVE ReadableLength(end) \in Int
  <2>1. end \in Int
    BY <1>3
  <2> QED BY <1>1, <2>1 DEF ReadableLength
<1> QED BY <1>2, <1>3, <1>4

LEMMA WrittenCells ==
    ASSUME TypeOKHttp, NEW kind \in RequestKinds
    PROVE  Written(kind) \in Seq(Cells)
<1>1. body \in Nat
  BY BodiesAssumption DEF TypeOKHttp
<1> DEFINE content == [i \in 1..body |-> "text"]
<1>2. content \in Seq(Cells)
  <2>1. content \in [1..body -> Cells]
    BY DEF Cells
  <2> HIDE DEF content
  <2> QED BY <1>1, <2>1, SeqDef
<1>3. /\ <<"text", "half", "end">> \in Seq(Cells) /\ <<"nul", "text">> \in Seq(Cells)
      /\ <<"length", "half", "end">> \in Seq(Cells)
  BY DEF Cells
<1> HIDE DEF content
<1>4. <<"length", "half", "end">> \o content \in Seq(Cells)
  BY <1>2, <1>3, ConcatProperties
<1> QED BY <1>3, <1>4 DEF Written, RequestKinds, content

LEMMA HttpTypes == TypeOKHttp /\ [Next]_vars => TypeOKHttp'
<1> SUFFICES ASSUME TypeOKHttp, [Next]_vars PROVE TypeOKHttp'
  OBVIOUS
<1>u. CASE UNCHANGED http_vars
  BY <1>u DEF http_vars, TypeOKHttp
<1>1. ASSUME NEW kind \in RequestKinds, SendRequest(kind) PROVE TypeOKHttp'
  <2>1. /\ row' = row \o Written(kind)
        /\ requests' = Append(requests, [kind |-> kind, last |-> Len(row')])
        /\ UNCHANGED <<body, fetched, cut, turn, dropped, late, astray>>
    BY <1>1 DEF SendRequest
  <2>2. row \in Seq(Cells) /\ Written(kind) \in Seq(Cells)
    BY WrittenCells DEF TypeOKHttp
  <2>3. row' \in Seq(Cells) /\ Len(row') = Len(row) + Len(Written(kind))
    BY <2>1, <2>2, ConcatProperties
  <2>4. Len(row') \in Nat /\ Len(row) \in Nat /\ Len(row) <= Len(row')
    BY <2>2, <2>3
  <2>5. [kind |-> kind, last |-> Len(row')] \in [kind : RequestKinds, last : Nat]
    BY <2>4
  <2>6. requests' \in Seq([kind : RequestKinds, last : Nat])
    BY <2>1, <2>5 DEF TypeOKHttp
  <2>7. fetched' \in 0..Len(row')
    BY <2>1, <2>4 DEF TypeOKHttp
  <2> QED BY <2>1, <2>3, <2>6, <2>7 DEF TypeOKHttp
<1>2. CASE ReceiveHttp
  <2>1. PICK n \in 1..HttpReadSize : fetched + n <= Len(row) /\ fetched' = fetched + n
    BY <1>2 DEF ReceiveHttp
  <2>2. Len(row) \in Nat /\ fetched \in 0..Len(row) /\ n \in Nat
    BY HttpReadAssumption DEF TypeOKHttp
  <2>3. fetched' \in 0..Len(row)
    BY <2>1, <2>2
  <2>4. turn' = "application" /\ late' = FALSE /\ UNCHANGED <<body, row, requests, cut, dropped, astray>>
    BY <1>2 DEF ReceiveHttp
  <2> QED BY <2>3, <2>4 DEF TypeOKHttp
<1>3. CASE HttpTooLarge
  BY <1>3 DEF HttpTooLarge, TypeOKHttp
<1>4. CASE TakeRequest
  <2>1. PICK end \in HeaderEnds : ReadableLength(end) > 0 /\ cut' = cut + ReadableLength(end)
                                  /\ astray' = (astray \/ ~OneMessage(ReadableLength(end)))
    BY <1>4 DEF TakeRequest
  <2>2. cut' \in Nat
    BY <2>1, HttpPlaces DEF TypeOKHttp
  <2>3. astray' \in BOOLEAN
    BY <2>1
  <2>4. turn = "application" /\ turn' = (IF cut' > fetched THEN "overrun" ELSE turn)
        /\ UNCHANGED <<body, row, requests, fetched, dropped, late>>
    BY <1>4 DEF TakeRequest
  <2>5. turn' \in {"none", "application", "internal", "overrun"}
    BY <2>4
  <2> QED BY <2>2, <2>3, <2>4, <2>5, Zenon DEF TypeOKHttp
<1>5. CASE NoRequest
  BY <1>5 DEF NoRequest, TypeOKHttp
<1>6. CASE TakeInternal
  BY <1>6 DEF TakeInternal, TypeOKHttp
<1>7. CASE NoInternal
  BY <1>7 DEF NoInternal, TypeOKHttp
<1> QED
  BY <1>u, <1>1, <1>2, <1>3, <1>4, <1>5, <1>6, <1>7 DEF Next, HttpStep, vars

LEMMA OtherTypes ==
    /\ Init => part \in Parts /\ TypeOKTimeout /\ TypeOKUploads /\ TypeOKHttp
    /\ part \in Parts /\ [Next]_vars => (part \in Parts)'
<1>1. Init => part \in Parts
  BY DEF Init
<1>2. Init => TypeOKTimeout
  <2> SUFFICES ASSUME InitTimeout PROVE TypeOKTimeout
    BY DEF Init
  <2>1. 0 \in 0..MaxTime /\ 1 \in 1..MaxReads /\ -1 \in -1..MaxTime
    BY MaxTimeAssumption, MaxReadsAssumption
  <2>2. {1} \subseteq 1..1 /\ {} \subseteq 1..1 /\ 0 \in Int
    OBVIOUS
  <2>3. [r \in 1..MaxReads |-> 0] \in [1..MaxReads -> 0..MaxTime]
    BY <2>1
  <2>4. /\ timeout \in Timeouts /\ now = 0 /\ shift = 0 /\ read = 1 /\ phase = "pending"
        /\ armed = {1} /\ issued = [r \in 1..MaxReads |-> 0]
        /\ received = -1 /\ last = 0 /\ handling = {} /\ timed_out = FALSE
    BY DEF InitTimeout
  <2> QED BY <2>1, <2>2, <2>3, <2>4, Zenon DEF TypeOKTimeout
<1>3. Init => TypeOKUploads
  <2> SUFFICES ASSUME InitUploads PROVE TypeOKUploads
    BY DEF Init
  <2> QED BY DesiredAssumption, MaxPiecesAssumption DEF InitUploads, TypeOKUploads
<1>4. part \in Parts /\ [Next]_vars => (part \in Parts)'
  BY DEF Next, vars
<1>5. Init => TypeOKHttp
  <2> SUFFICES ASSUME InitHttp PROVE TypeOKHttp
    BY DEF Init
  <2>1. <<>> \in Seq(Cells) /\ <<>> \in Seq([kind : RequestKinds, last : Nat]) /\ 0 \in 0..Len(<<>>)
    OBVIOUS
  <2> QED BY <2>1 DEF InitHttp, TypeOKHttp
<1> QED BY <1>1, <1>2, <1>3, <1>4, <1>5

\* Each part keeps its types, whatever the values of the constants, and stays alone.
THEOREM ReceiveTypes == Spec => []TypeOK
<1>1. StreamInv /\ FileInv /\ RoleInv => TypeOKReceive /\ TypeOKFiles /\ TypeOKRoles
  BY FileInvImplies DEF StreamInv, RoleInv
<1>2. Spec => [](StreamInv /\ FileInv /\ RoleInv)
  BY StreamInit, StreamNext, FileInit, FileNext, RoleInit, RoleNext, PTL DEF Spec
<1>3. Spec => [](part \in Parts /\ TypeOKTimeout /\ TypeOKUploads /\ TypeOKHttp)
  BY OtherTypes, TimeoutTypes, UploadsTypes, HttpTypes, PTL DEF Spec
<1>4. TypeOK <=> /\ part \in Parts /\ TypeOKTimeout /\ TypeOKUploads /\ TypeOKHttp
                 /\ TypeOKReceive /\ TypeOKFiles /\ TypeOKRoles
  BY DEF TypeOK
<1> QED BY <1>1, <1>2, <1>3, <1>4, PTL
=============================================================================
