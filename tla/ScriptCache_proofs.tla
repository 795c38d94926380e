-------------------------- MODULE ScriptCache_proofs --------------------------
(***************************************************************************)
(* Proofs about ScriptCache for every number of threads, every set of      *)
(* modules and every history of the script: the byte code in use only      *)
(* moves forward, the index lacks no module but for the known reasons, and *)
(* changes are missed in the four known windows only.                      *)
(***************************************************************************)
EXTENDS ScriptCache, SequenceTheorems, TLAPS

USE FilesAssumption, SavesAssumption, RequiresAssumption, BrokenAssumption,
    NamesAssumption, NoneAssumption

\* Where a thread has replaced the byte code and not yet indexed its modules.
Updated == {"publishing", "clearing updated", "calling updated", "running updated",
            "indexing"}

\* Where a thread holds the lock.
Locked == Updated \union {"reading", "compiling", "clearing", "calling", "running locked"}

HolderInv == \A t \in Threads : pc[t] \in Locked => lock = t

\* The text that is about to be compiled is no older than the byte code.
TextInv ==
    /\ code <= disk[Script]
    /\ \A t \in Threads : pc[t] = "compiling" =>
           chunk[t] \in Versions /\ code <= chunk[t] /\ chunk[t] <= disk[Script]

\* What the index lacks was not in the newest list, or was in both under a name whose
\* case misleads their comparison.
Indexed ==
    /\ lists # <<>>
    /\ \A m \in Requires[code] \ dependents :
          m \in Current => m \in MixedCase /\ Len(lists) = 2 /\ m \in lists[1]

\* That holds but while the holder of the lock has yet to enter the modules of the
\* version that it put in use.
IndexInv ==
    /\ \A t \in Threads : pc[t] \in Updated => chunk[t] = code /\ code # Absent
    /\ (code # Absent /\ \A t \in Threads : pc[t] \notin Updated) => Indexed

\* The inductive invariant.
IInv == TypeOK /\ HolderInv /\ TextInv /\ IndexInv
-----------------------------------------------------------------------------
LEMMA VersionFacts == Versions \subseteq Nat /\ 0 \in Versions /\ Absent \notin Versions
BY DEF Versions, Files, Absent

\* The two newest lists are kept.
LEMMA ListsFacts ==
    ASSUME NEW S, NEW l \in Seq(S), Len(l) <= 2, NEW x \in S
    PROVE  LET n == IF Len(l) = 2 THEN <<l[2], x>> ELSE Append(l, x)
           IN  n \in Seq(S) /\ Len(n) <= 2
<1>1. CASE Len(l) = 2
  <2>1. l[2] \in S BY <1>1
  <2>2. <<l[2], x>> \in Seq(S) /\ Len(<<l[2], x>>) = 2 BY <2>1
  <2> QED BY <1>1, <2>2
<1>2. CASE Len(l) # 2
  <2>1. \A n \in Nat : n <= 2 /\ n # 2 => n + 1 <= 2 OBVIOUS
  <2>2. Len(l) \in Nat OBVIOUS
  <2>3. Append(l, x) \in Seq(S) /\ Len(Append(l, x)) = Len(l) + 1 OBVIOUS
  <2> QED BY ONLY <1>2, <2>1, <2>2, <2>3, Len(l) <= 2
<1> QED BY <1>1, <1>2

LEMMA InitIInv == Init => IInv
<1> SUFFICES ASSUME Init PROVE IInv OBVIOUS
<1> USE VersionFacts DEF Init
<1>1. TypeOK
  <2>1. lists \in Seq(SUBSET Modules) /\ Len(lists) <= 2 OBVIOUS
  <2>2. disk \in [Files -> Versions] /\ ver \in Nat /\ seen \in [Threads -> Nat] OBVIOUS
  <2>3. loaded \in [Threads -> [Modules -> Versions \union {Absent}]]
        /\ chunk \in [Threads -> Versions \union {Absent}]
    OBVIOUS
  <2>4. pc \in [Threads -> Places] BY DEF Places
  <2>5. required \subseteq Modules /\ missed = "nothing" OBVIOUS
  <2> QED BY <2>1, <2>2, <2>3, <2>4, <2>5, Zenon DEF TypeOK
<1>2. HolderInv BY DEF HolderInv, Locked, Updated
<1>3. TextInv BY DEF TextInv, Files, Absent
<1>4. IndexInv BY DEF IndexInv, Updated
<1> QED BY <1>1, <1>2, <1>3, <1>4 DEF IInv
-----------------------------------------------------------------------------
(* Types.                                                                  *)

\* The next versions stay within the bound of the file.
LEMMA SaveTyped ==
    ASSUME TypeOK, NEW f \in Files, Save(f) PROVE TypeOK'
<1>1. disk[f] + 1 \in Versions
  <2>1. disk[f] \in Nat /\ MaxSaves[f] \in Nat BY VersionFacts DEF TypeOK
  <2>2. disk[f] + 1 \in 0 .. MaxSaves[f] BY <2>1 DEF Save
  <2> QED BY <2>2 DEF Versions
<1> QED BY <1>1 DEF Save, TypeOK, cached, index, luaStates, history

LEMMA ForgetTyped ==
    ASSUME TypeOK, NEW t \in Threads, Forget(t)
    PROVE  /\ loaded' \in [Threads -> [Modules -> Versions \union {Absent}]]
           /\ seen' \in [Threads -> Nat]
           /\ missed' \in {missed, "kept"}
<1>1. CASE seen[t] # ver
  <2> DEFINE own == [m \in Modules |-> IF m \in Cleanup THEN Absent ELSE loaded[t][m]]
  <2>0. loaded \in [Threads -> [Modules -> Versions \union {Absent}]] BY DEF TypeOK
  <2>1. own \in [Modules -> Versions \union {Absent}] BY <2>0
  <2>2. loaded' = [loaded EXCEPT ![t] = own] /\ seen' = [seen EXCEPT ![t] = ver]
    BY <1>1, Zenon DEF Forget
  <2>3. missed' \in {missed, "kept"}
    <3>1. missed' = missed \/ missed' = (IF "kept" = "kept" /\ missed # "nothing" THEN missed ELSE "kept")
      BY <1>1, Zenon DEF Forget, Miss
    <3> QED BY <3>1
  <2> HIDE DEF own
  <2> QED BY <2>1, <2>2, <2>3 DEF TypeOK
<1>2. CASE seen[t] = ver BY <1>2 DEF TypeOK, Forget, luaStates
<1> QED BY <1>1, <1>2

LEMMA LoadModulesTyped ==
    ASSUME TypeOK, NEW t \in Threads, NEW modules, LoadModules(t, modules)
    PROVE  loaded' \in [Threads -> [Modules -> Versions \union {Absent}]]
<1> DEFINE own == [m \in Modules |->
                     IF m \in modules /\ loaded[t][m] = Absent
                     THEN disk[m] ELSE loaded[t][m]]
<1>0. /\ loaded \in [Threads -> [Modules -> Versions \union {Absent}]]
      /\ \A m \in Modules : disk[m] \in Versions
  BY DEF TypeOK, Files
<1>1. own \in [Modules -> Versions \union {Absent}] BY <1>0
<1>2. loaded' = [loaded EXCEPT ![t] = own] BY Zenon DEF LoadModules
<1> HIDE DEF own
<1> QED BY <1>1, <1>2 DEF TypeOK

LEMMA LeaveTyped ==
    ASSUME TypeOK, NEW t \in Threads, Leave(t)
    PROVE  /\ lock' = None
           /\ chunk' \in [Threads -> Versions \union {Absent}]
           /\ pc' = [pc EXCEPT ![t] = "idle"]
BY DEF TypeOK, Leave, Goto

LEMMA FilesTyped ==
    ASSUME TypeOK, NEW f \in Files, Close(f) \/ FileChanged(f) PROVE TypeOK'
<1> USE DEF TypeOK, Places, files, cached, index, luaStates, history
<1>1. CASE Close(f) BY <1>1 DEF Close
<1>2. CASE FileChanged(f) BY <1>2 DEF FileChanged, Miss
<1> QED BY <1>1, <1>2

LEMMA ReaderTyped ==
    ASSUME TypeOK, NEW t \in Threads, Reader(t) PROVE TypeOK'
<1> USE DEF TypeOK, Places, files, cached, index, luaStates, history, Goto
<1>1. CASE Request(t) BY <1>1 DEF Request
<1>2. CASE Check(t) BY <1>2, ForgetTyped DEF Check
<1>3. CASE Load(t) BY <1>3 DEF Load
<1>4. CASE Run(t) BY <1>4, LoadModulesTyped DEF Run
<1> QED BY <1>1, <1>2, <1>3, <1>4 DEF Reader

LEMMA UpdaterTyped ==
    ASSUME TypeOK, TextInv, IndexInv, NEW t \in Threads, Updater(t) PROVE TypeOK'
<1> USE DEF TypeOK, Places, files, cached, index, luaStates, history, Goto
<1>1. CASE Lock(t) BY <1>1 DEF Lock
<1>2. CASE ReadText(t) BY <1>2 DEF ReadText, Files
<1>3. CASE ReadFails(t)
  <2>1. CASE code = Absent BY <1>3, <2>1, LeaveTyped DEF ReadFails
  <2>2. CASE code # Absent
    <3>1. /\ chunk' = [chunk EXCEPT ![t] = code]
          /\ missed' = (IF "unreadable" = "kept" /\ missed # "nothing" THEN missed ELSE "unreadable")
          /\ pc' = [pc EXCEPT ![t] = "clearing"]
          /\ UNCHANGED <<disk, writing, notices, need, lock, cached, index, luaStates, marked>>
      BY <1>3, <2>2, Zenon DEF ReadFails, Miss
    <3> QED BY <3>1
  <2> QED BY <2>1, <2>2
<1>4. CASE Compile(t) BY <1>4 DEF Compile, TextInv
<1>5. CASE CompileFails(t) BY <1>5, LeaveTyped DEF CompileFails, Miss
<1>6. CASE Publish(t)
  <2>0. ver \in Nat /\ ver' = ver + 1 BY <1>6, Zenon DEF Publish
  <2>1. ver' \in Nat BY ONLY <2>0
  <2>2. pc' = [pc EXCEPT ![t] = "clearing updated"] BY <1>6 DEF Publish
  <2>3. UNCHANGED <<disk, writing, notices, need, lock, code, lists, dependents, loaded,
                    required, seen, chunk, marked, missed>>
    BY <1>6 DEF Publish
  <2> QED BY <2>1, <2>2, <2>3
<1>7. CASE ClearMark(t) BY <1>7 DEF ClearMark, Miss
<1>8. CASE CheckLocked(t) BY <1>8, ForgetTyped DEF CheckLocked
<1>9. CASE RunLocked(t) BY <1>9, LoadModulesTyped, LeaveTyped DEF RunLocked
<1>10. CASE RunUpdated(t)
  <2>1. PICK modules \in Runs(t) : LoadModules(t, modules) /\ required' = modules
    BY <1>10 DEF RunUpdated
  <2>2. Requires[chunk[t]] \in SUBSET Modules
    BY <1>10, RequiresAssumption DEF RunUpdated, IndexInv, Updated
  <2>3. required' \subseteq Modules BY <2>1, <2>2 DEF Runs
  <2>4. loaded' \in [Threads -> [Modules -> Versions \union {Absent}]]
    BY <2>1, LoadModulesTyped
  <2> QED BY <1>10, <2>3, <2>4 DEF RunUpdated
<1>11. CASE UpdateIndex(t)
  <2>0. required \in SUBSET Modules OBVIOUS
  <2>1. lists' \in Seq(SUBSET Modules) /\ Len(lists') <= 2
    <3>1. lists' = IF Len(lists) = 2 THEN <<lists[2], required>>
                   ELSE Append(lists, required)
      BY <1>11 DEF UpdateIndex
    <3> QED BY <3>1, <2>0, ListsFacts
  <2>2. dependents' \subseteq Modules BY <1>11, <2>0 DEF UpdateIndex
  <2>3. UNCHANGED <<disk, writing, notices, need, code, ver, required, loaded, seen, marked,
                    missed>>
    BY <1>11 DEF UpdateIndex
  <2> QED BY <1>11, <2>1, <2>2, <2>3, LeaveTyped DEF UpdateIndex
<1> QED BY <1>1, <1>2, <1>3, <1>4, <1>5, <1>6, <1>7, <1>8, <1>9, <1>10, <1>11 DEF Updater

LEMMA NextTyped == IInv /\ [Next]_vars => TypeOK'
<1> SUFFICES ASSUME IInv, [Next]_vars PROVE TypeOK' OBVIOUS
<1>1. CASE UNCHANGED vars BY <1>1 DEF IInv, TypeOK, vars
<1>2. CASE Next BY <1>2, SaveTyped, FilesTyped, ReaderTyped, UpdaterTyped DEF Next, IInv
<1> QED BY <1>1, <1>2
-----------------------------------------------------------------------------
(* The lock, the text and the index.                                       *)

\* What the rest needs to know of the types.
LEMMA TypeFacts ==
    ASSUME TypeOK
    PROVE  /\ disk \in [Files -> Nat]
           /\ code \in Int
           /\ chunk \in [Threads -> Int]
           /\ pc \in [Threads -> Places]
           /\ code # Absent => code \in Versions
           /\ code = Absent => \A v \in Nat : code <= v
<1>1. /\ disk \in [Files -> Versions]
      /\ code \in (Versions \ Broken) \union {Absent}
      /\ chunk \in [Threads -> Versions \union {Absent}]
  BY DEF TypeOK
<1>2. pc \in [Threads -> Places] BY Zenon DEF TypeOK
<1>3. Absent \in Int /\ \A v \in Nat : Absent <= v BY DEF Absent
<1>4. disk \in [Files -> Nat] BY <1>1, VersionFacts
<1>5. chunk \in [Threads -> Int]
  <2>1. Versions \union {Absent} \subseteq Int BY <1>3, VersionFacts
  <2> QED BY ONLY <1>1, <2>1
<1>6. code \in Int /\ (code # Absent => code \in Versions)
  BY <1>1, <1>3, VersionFacts
<1> QED BY ONLY <1>2, <1>3, <1>4, <1>5, <1>6

\* The version of a file only grows.
LEMMA SaveIInv ==
    ASSUME IInv, NEW f \in Files, Save(f) \/ Close(f) \/ FileChanged(f)
    PROVE  HolderInv' /\ TextInv' /\ IndexInv'
<1>1. UNCHANGED <<pc, lock, code, chunk, lists, dependents>>
  BY DEF Save, Close, FileChanged, cached, index
<1>2. disk[Script] \in Nat /\ disk'[Script] \in Nat /\ disk[Script] <= disk'[Script]
  <2>1. disk' = disk \/ disk' = [disk EXCEPT ![f] = disk[f] + 1]
    BY DEF Save, Close, FileChanged, files
  <2>2. Script \in Files BY DEF Files
  <2> QED BY <2>1, <2>2, TypeFacts DEF IInv
<1>3. HolderInv' BY <1>1 DEF IInv, HolderInv
<1>4. TextInv'
  <2>1. code \in Int /\ chunk \in [Threads -> Int] BY TypeFacts DEF IInv
  <2> QED BY <1>1, <1>2, <2>1 DEF IInv, TextInv
<1>5. IndexInv' BY <1>1 DEF IInv, IndexInv, Indexed, Current
<1> QED BY <1>3, <1>4, <1>5

\* A thread that does not hold the lock disturbs nothing.
LEMMA ReaderIInv ==
    ASSUME IInv, NEW t \in Threads, Reader(t) PROVE HolderInv' /\ TextInv' /\ IndexInv'
<1> USE TypeFacts DEF IInv, Places, Goto, files, cached, index, Locked, Updated
<1>1. /\ UNCHANGED <<disk, lock, code, lists, dependents>>
      /\ pc[t] \notin Locked /\ pc'[t] \notin Locked
      /\ \A u \in Threads \ {t} : pc'[u] = pc[u] /\ chunk'[u] = chunk[u]
  <2>1. CASE Request(t) BY <2>1 DEF Request
  <2>2. CASE Check(t) BY <2>2 DEF Check
  <2>3. CASE Load(t) BY <2>3 DEF Load
  <2>4. CASE Run(t) BY <2>4 DEF Run
  <2> QED BY <2>1, <2>2, <2>3, <2>4 DEF Reader
<1> QED BY <1>1 DEF IInv, HolderInv, TextInv, IndexInv, Indexed, Current, Locked

\* The lock has one holder, and only it moves.
LEMMA UpdaterHolds ==
    ASSUME IInv, NEW t \in Threads, Updater(t)
    PROVE  /\ lock # t => pc[t] = "locking" /\ lock = None
           /\ \A u \in Threads \ {t} : /\ pc[u] \notin Locked
                                       /\ pc'[u] = pc[u]
                                       /\ chunk'[u] = chunk[u]
           /\ pc'[t] \in Locked => lock' = t
<1> USE TypeFacts DEF IInv, HolderInv, Goto, Leave, Locked, Updated
<1>1. CASE Lock(t) BY <1>1 DEF Lock
<1>2. CASE ReadText(t) BY <1>2 DEF ReadText
<1>3. CASE ReadFails(t) BY <1>3 DEF ReadFails
<1>4. CASE Compile(t) BY <1>4 DEF Compile
<1>5. CASE CompileFails(t) BY <1>5 DEF CompileFails
<1>6. CASE Publish(t) BY <1>6 DEF Publish
<1>7. CASE ClearMark(t) BY <1>7 DEF ClearMark
<1>8. CASE CheckLocked(t) BY <1>8 DEF CheckLocked
<1>9. CASE RunLocked(t) BY <1>9 DEF RunLocked
<1>10. CASE RunUpdated(t) BY <1>10 DEF RunUpdated
<1>11. CASE UpdateIndex(t) BY <1>11 DEF UpdateIndex
<1> QED BY <1>1, <1>2, <1>3, <1>4, <1>5, <1>6, <1>7, <1>8, <1>9, <1>10, <1>11 DEF Updater

\* The byte code changes in Compile only, and to the text that was read.
LEMMA UpdaterTextInv ==
    ASSUME IInv, NEW t \in Threads, Updater(t) PROVE TextInv'
<1> USE TypeFacts DEF IInv, TextInv, Goto, Leave, cached, files
<1>1. CASE ReadText(t) \/ Compile(t)
  <2>1. disk[Script] \in Versions BY DEF TypeOK, Files
  <2>2. \A u \in Threads \ {t} : pc'[u] # "compiling" BY UpdaterHolds DEF Locked
  <2>3. CASE ReadText(t)
    <3>1. /\ chunk'[t] = disk[Script] /\ disk' = disk /\ code' = code
      BY <2>3 DEF ReadText
    <3>2. disk[Script] \in Nat BY <2>1, VersionFacts
    <3> QED BY <2>1, <2>2, <3>1, <3>2
  <2>4. CASE Compile(t) BY <2>2, <2>4 DEF Compile
  <2> QED BY <1>1, <2>3, <2>4
<1>2. CASE ~(ReadText(t) \/ Compile(t))
  <2>1. disk' = disk /\ code' = code /\ pc'[t] # "compiling"
    BY <1>2 DEF Updater, Lock, ReadFails, CompileFails, Publish, ClearMark, CheckLocked,
                RunLocked, RunUpdated, UpdateIndex
  <2> QED BY <2>1, UpdaterHolds
<1> QED BY <1>1, <1>2

\* What the comparison of the lists removes although it is in the newest.
LEMMA RemovedFacts ==
    ASSUME NEW new, NEW removed \in Removed(new), NEW m \in removed, m \in new
    PROVE  lists # <<>> /\ m \in Current /\ m \in MixedCase
<1>1. ~(lists = <<>> \/ new = {} \/ Current = {}) BY DEF Removed
<1>2. PICK names \in SUBSET (Current \intersect new \intersect MixedCase) :
          removed = (Current \ new) \union names
  BY <1>1 DEF Removed
<1> QED BY <1>1, <1>2

\* A reload enters what its run has required.
LEMMA UpdateIndexed ==
    ASSUME TypeOK, NEW t \in Threads, UpdateIndex(t) PROVE Indexed'
<1>1. /\ lists \in Seq(SUBSET Modules) /\ Len(lists) <= 2 /\ Len(lists) \in Nat
      /\ required \in SUBSET Modules
  BY DEF TypeOK
<1>2. lists' = IF Len(lists) = 2 THEN <<lists[2], required>> ELSE Append(lists, required)
  BY DEF UpdateIndex
<1>3. PICK removed \in Removed(required) :
          dependents' = (dependents \union required) \ removed
  BY DEF UpdateIndex
<1>4. lists' # <<>> /\ Current' = required
  <2>1. CASE Len(lists) = 2 BY <1>2, <2>1 DEF Current
  <2>2. CASE Len(lists) # 2
    <3>1. lists' = Append(lists, required) BY <1>2, <2>2
    <3>2. Len(lists') = Len(lists) + 1 /\ lists'[Len(lists) + 1] = required
      BY <1>1, <3>1
    <3> QED BY <1>1, <3>2 DEF Current
  <2> QED BY <2>1, <2>2
<1>5. lists # <<>> => Len(lists') = 2 /\ lists'[1] = Current
  <2>1. CASE Len(lists) = 2 BY <1>2, <2>1 DEF Current
  <2>2. CASE Len(lists) = 1
    <3>1. lists' = Append(lists, required) BY <1>2, <2>2
    <3>2. Len(lists') = Len(lists) + 1 /\ \A i \in 1 .. Len(lists) : lists'[i] = lists[i]
      BY <1>1, <3>1, AppendProperties
    <3> QED BY <2>2, <3>2 DEF Current
  <2>3. lists # <<>> => Len(lists) # 0 BY <1>1, EmptySeq
  <2>4. \A n \in Nat : n <= 2 /\ n # 0 => n = 1 \/ n = 2 OBVIOUS
  <2> QED BY ONLY <1>1, <2>1, <2>2, <2>3, <2>4
<1>6. ASSUME NEW m \in Requires[code'] \ dependents', m \in required
      PROVE  m \in MixedCase /\ Len(lists') = 2 /\ m \in lists'[1]
  <2>1. m \in removed BY <1>3, <1>6
  <2>2. lists # <<>> /\ m \in Current /\ m \in MixedCase BY <1>6, <2>1, RemovedFacts
  <2> QED BY <1>5, <2>2
<1> QED BY <1>4, <1>6 DEF Indexed

\* Only the last step of a reload touches the index.
LEMMA UpdaterIndexInv ==
    ASSUME IInv, NEW t \in Threads, Updater(t) PROVE IndexInv'
<1> USE TypeFacts DEF IInv, IndexInv, Goto, cached, index, Updated
<1>1. \A u \in Threads \ {t} : pc[u] \notin Updated /\ pc'[u] \notin Updated
  BY UpdaterHolds DEF Locked
<1>2. CASE Lock(t) \/ ReadText(t) \/ ReadFails(t) \/ CompileFails(t) \/ RunLocked(t)
  <2>1. code' = code /\ lists' = lists /\ dependents' = dependents
    BY <1>2 DEF Lock, ReadText, ReadFails, CompileFails, RunLocked
  <2>2. pc[t] \notin Updated /\ pc'[t] \notin Updated
    BY <1>2 DEF Lock, ReadText, ReadFails, CompileFails, RunLocked, Leave
  <2>3. Indexed => Indexed' BY <2>1 DEF Indexed, Current
  <2> QED BY <1>1, <2>1, <2>2, <2>3
<1>3. CASE Compile(t)
  <2>1. pc'[t] \in Updated /\ chunk'[t] = code' BY <1>3 DEF Compile
  <2>2. code' # Absent BY <1>3, VersionFacts DEF Compile, TextInv
  <2> QED BY <1>1, <2>1, <2>2
<1>4. CASE Publish(t) \/ RunUpdated(t)
  BY <1>1, <1>4 DEF Publish, RunUpdated
<1>5. CASE ClearMark(t) \/ CheckLocked(t)
  <2>1. UNCHANGED <<code, chunk, lists, dependents>>
    BY <1>5 DEF ClearMark, CheckLocked
  <2>2. pc'[t] \in Updated <=> pc[t] \in Updated BY <1>5 DEF ClearMark, CheckLocked
  <2>3. Indexed => Indexed' BY <2>1 DEF Indexed, Current
  <2> QED BY <1>1, <2>1, <2>2, <2>3
<1>6. CASE UpdateIndex(t)
  <2>1. pc[t] \in Updated /\ code' = code /\ pc'[t] \notin Updated
    BY <1>6 DEF UpdateIndex, Leave
  <2>2. Indexed' BY <1>6, <2>1, UpdateIndexed
  <2> QED BY <1>1, <2>1, <2>2
<1> QED BY <1>2, <1>3, <1>4, <1>5, <1>6 DEF Updater

LEMMA NextIInv == IInv /\ [Next]_vars => IInv'
<1> SUFFICES ASSUME IInv, [Next]_vars PROVE IInv' OBVIOUS
<1>1. TypeOK' BY NextTyped
<1>2. HolderInv' /\ TextInv' /\ IndexInv'
  <2>1. CASE UNCHANGED vars
    BY <2>1 DEF vars, IInv, HolderInv, TextInv, IndexInv, Indexed, Current
  <2>2. CASE \E f \in Files : Save(f) \/ Close(f) \/ FileChanged(f) BY <2>2, SaveIInv
  <2>3. ASSUME NEW t \in Threads, Reader(t) PROVE HolderInv' /\ TextInv' /\ IndexInv'
    BY <2>3, ReaderIInv
  <2>4. ASSUME NEW t \in Threads, Updater(t) PROVE HolderInv' /\ TextInv' /\ IndexInv'
    <3>1. HolderInv' BY <2>4, UpdaterHolds DEF HolderInv
    <3> QED BY <2>4, <3>1, UpdaterTextInv, UpdaterIndexInv
  <2> QED BY <2>1, <2>2, <2>3, <2>4 DEF Next
<1> QED BY <1>1, <1>2 DEF IInv

LEMMA Invariance == Spec => []IInv
BY InitIInv, NextIInv, PTL DEF Spec
-----------------------------------------------------------------------------
\* Every variable keeps its type: the byte code in use always is a version that
\* compiles, however saves, reloads and requests interleave.
THEOREM TypeCorrect == Spec => []TypeOK
<1>1. IInv => TypeOK BY DEF IInv
<1> QED BY <1>1, Invariance, PTL

\* UpdateLuaModuleReference leaves a module that the run of the version in use has
\* required without an entry only if the run of the reload before required it as well,
\* and GetReferenceRemove took its name for a removed one on account of its case.
THEOREM IndexComplete == Spec => []IndexIsComplete
<1>1. IInv => IndexIsComplete
  BY DEF IInv, HolderInv, IndexInv, IndexIsComplete, Indexed, Locked
<1> QED BY <1>1, Invariance, PTL

\* UpdateAndRunScriptCache never replaces the byte code by that of an older
\* version, for any number of threads that find the mark at once.
THEOREM ReloadsMoveForward == Spec => NeverGoesBack
<1>1. IInv /\ [Next]_vars => [code' >= code]_code
  <2> SUFFICES ASSUME IInv, [Next]_vars, code' # code PROVE code' >= code OBVIOUS
  <2>1. PICK t \in Threads : Compile(t)
    BY DEF Next, vars, Save, Close, FileChanged, Reader, Request, Check, Load, Run, Updater,
           Lock, ReadText, ReadFails, CompileFails, Publish, ClearMark, CheckLocked,
           RunLocked, RunUpdated, UpdateIndex, cached
  <2> QED BY <2>1, TypeFacts DEF Compile, IInv, TextInv
<1> QED BY <1>1, Invariance, PTL DEF Spec, NeverGoesBack
-----------------------------------------------------------------------------
(* Changes are missed in the four windows only.                            *)

\* The mark stays while its finder reloads; who found none removes none.
MarkInv ==
    \A t \in Threads :
        /\ pc[t] \in {"reading", "compiling", "publishing", "clearing updated"} => need
        /\ pc[t] = "clearing" /\ ~marked /\ missed = "nothing" => ~need

\* Unless the mark was set again, what the holder read is what is on disk or the
\* notice of the change is on its way.
ReadInv ==
    \A t \in Threads : ~marked /\ Script \notin notices =>
        /\ pc[t] = "compiling" => chunk[t] = disk[Script]
        /\ pc[t] \in {"publishing", "clearing updated"} => code = disk[Script]

\* A new version of the script is marked or its notice is on its way.
ScriptInv ==
    missed = "nothing" /\ code # disk[Script] /\ disk[Script] \notin Broken
        => need \/ Script \in notices

\* A thread that has met the version in use has an old module of it loaded.
Stale(t, m) ==
    m \in Requires[code] /\ seen[t] = ver /\ loaded[t][m] \notin {Absent, disk[m]}

\* That is marked or a notice is on its way; between the count of the version and
\* the removal of the mark it can only be a change not yet noticed.
StaleInv ==
    code # Absent /\ missed = "nothing" => \A t \in Threads, m \in Modules : Stale(t, m) =>
        /\ need \/ m \in notices \/ Script \in notices \/ code # disk[Script]
        /\ (\E u \in Threads : pc[u] = "clearing updated") /\ ~marked => m \in notices

SeenInv == \A t \in Threads : seen[t] <= ver

\* The inductive invariant for MissedInWindowsOnly.
MissInv ==
    IInv /\ MarkInv /\ ReadInv /\ ScriptInv /\ StaleInv /\ SeenInv

LEMMA InitMissInv == Init => MissInv
<1> SUFFICES ASSUME Init PROVE MissInv OBVIOUS
<1>1. IInv BY InitIInv
<1>2. \A t \in Threads : pc[t] = "idle" /\ seen[t] = 0 BY DEF Init
<1>3. need /\ ver = 0 /\ code = Absent BY DEF Init
<1>4. MarkInv BY <1>2 DEF MarkInv
<1>5. ReadInv BY <1>2 DEF ReadInv
<1>6. ScriptInv BY <1>3 DEF ScriptInv
<1>7. StaleInv BY <1>3 DEF StaleInv
<1>8. SeenInv
  <2>1. 0 <= 0 OBVIOUS
  <2> QED BY ONLY <1>2, <1>3, <2>1, Zenon DEF SeenInv
<1> QED BY <1>1, <1>4, <1>5, <1>6, <1>7, <1>8 DEF MissInv

\* What CheckLuaStateUpdateForThread does to the modules of a thread.
LEMMA ForgetFacts ==
    ASSUME TypeOK, NEW t \in Threads, Forget(t)
    PROVE  /\ seen' = [seen EXCEPT ![t] = ver]
           /\ \A u \in Threads \ {t} : loaded'[u] = loaded[u]
           /\ \A m \in Modules : loaded'[t][m] \in {loaded[t][m], Absent}
           /\ seen[t] # ver => \A m \in Cleanup : m \in Modules => loaded'[t][m] = Absent
           /\ seen[t] = ver => loaded' = loaded
<1>0. /\ loaded \in [Threads -> [Modules -> Versions \union {Absent}]]
      /\ seen \in [Threads -> Nat]
  BY DEF TypeOK
<1>1. CASE seen[t] # ver
  <2> DEFINE own == [m \in Modules |-> IF m \in Cleanup THEN Absent ELSE loaded[t][m]]
  <2>1. loaded' = [loaded EXCEPT ![t] = own] /\ seen' = [seen EXCEPT ![t] = ver]
    BY <1>1, Zenon DEF Forget
  <2>2. \A m \in Modules : own[m] = IF m \in Cleanup THEN Absent ELSE loaded[t][m]
    OBVIOUS
  <2> HIDE DEF own
  <2>3. loaded'[t] = own /\ \A u \in Threads \ {t} : loaded'[u] = loaded[u]
    BY <1>0, <2>1
  <2> QED BY <1>1, <2>1, <2>2, <2>3
<1>2. CASE seen[t] = ver
  <2>1. loaded' = loaded /\ seen' = seen BY <1>2 DEF Forget, luaStates
  <2> QED BY <1>0, <1>2, <2>1
<1> QED BY <1>1, <1>2

\* What the run of a chunk does to the modules of a thread.
LEMMA LoadFacts ==
    ASSUME TypeOK, NEW t \in Threads, NEW modules, LoadModules(t, modules)
    PROVE  /\ \A u \in Threads \ {t} : loaded'[u] = loaded[u]
           /\ \A m \in Modules : loaded'[t][m] \in {loaded[t][m], disk[m]}
<1> DEFINE own == [m \in Modules |->
                     IF m \in modules /\ loaded[t][m] = Absent
                     THEN disk[m] ELSE loaded[t][m]]
<1>1. loaded' = [loaded EXCEPT ![t] = own] BY Zenon DEF LoadModules
<1>2. \A m \in Modules : own[m] \in {loaded[t][m], disk[m]} OBVIOUS
<1> HIDE DEF own
<1>3. loaded \in [Threads -> [Modules -> Versions \union {Absent}]] BY DEF TypeOK
<1> QED BY <1>1, <1>2, <1>3

\* What the editor and the monitor leave alone, and what a notice does.
LEMMA FileFacts ==
    ASSUME IInv, NEW f \in Files, Save(f) \/ Close(f) \/ FileChanged(f)
    PROVE  /\ UNCHANGED <<lock, code, ver, lists, dependents, loaded, seen, pc, chunk>>
           /\ missed' = "nothing" => missed = "nothing"
           /\ \/ /\ UNCHANGED <<need, marked, missed>>
                 /\ notices \subseteq notices'
                 /\ disk' = [disk EXCEPT ![f] = disk'[f]]
                 /\ disk'[f] # disk[f] => f \in notices'
              \/ /\ disk' = disk
                 /\ f \in notices
                 /\ notices' = notices \ {f}
                 /\ ~Marks(f)
                 /\ UNCHANGED <<need, marked>>
                 /\ Unindexed(f) => missed' # "nothing"
              \/ /\ disk' = disk
                 /\ notices' = notices \ {f}
                 /\ need' /\ marked'
                 /\ missed' = missed
<1> USE DEF files, cached, index, luaStates, history
<1>0. disk \in [Files -> Versions] BY DEF IInv, TypeOK
<1>1. CASE Save(f) BY <1>0, <1>1 DEF Save
<1>2. CASE Close(f) BY <1>0, <1>2 DEF Close
<1>3. CASE FileChanged(f)
  <2>1. CASE Marks(f) BY <1>3, <2>1 DEF FileChanged
  <2>2. CASE ~Marks(f) BY <1>3, <2>2 DEF FileChanged, Miss
  <2> QED BY <2>1, <2>2
<1> QED BY <1>1, <1>2, <1>3

\* The parts of the invariant beside IInv.
MissParts == MarkInv /\ ReadInv /\ ScriptInv /\ StaleInv /\ SeenInv

LEMMA FilesMissInv ==
    ASSUME MissInv, NEW f \in Files, Save(f) \/ Close(f) \/ FileChanged(f)
    PROVE  MissParts'
<1> DEFINE Same == UNCHANGED <<lock, code, ver, lists, dependents, loaded, seen, pc, chunk>>
           Touched == /\ UNCHANGED <<need, marked, missed>>
                      /\ notices \subseteq notices'
                      /\ disk' = [disk EXCEPT ![f] = disk'[f]]
                      /\ disk'[f] # disk[f] => f \in notices'
           Ignored == /\ disk' = disk
                      /\ f \in notices
                      /\ notices' = notices \ {f}
                      /\ ~Marks(f)
                      /\ UNCHANGED <<need, marked>>
                      /\ Unindexed(f) => missed' # "nothing"
           Noticed == /\ disk' = disk
                      /\ notices' = notices \ {f}
                      /\ need' /\ marked'
                      /\ missed' = missed
<1>1. Same /\ (missed' = "nothing" => missed = "nothing") /\ (Touched \/ Ignored \/ Noticed)
  BY FileFacts DEF MissInv
<1>2. /\ disk \in [Files -> Nat] /\ Script \in Files /\ Modules \subseteq Files
      /\ disk'[Script] # disk[Script] => Script \in notices'
  <2>1. disk \in [Files -> Nat] /\ Script \in Files BY TypeFacts DEF MissInv, IInv, Files
  <2> QED BY <1>1, <2>1 DEF Files
<1>3. \A x \in Files : disk'[x] # disk[x] => x \in notices' /\ notices \subseteq notices'
  BY <1>1, <1>2
<1>a. /\ pc' = pc /\ chunk' = chunk /\ code' = code /\ lists' = lists
      /\ loaded' = loaded /\ seen' = seen /\ ver' = ver
  BY <1>1
<1>b. missed' = "nothing" => missed = "nothing" BY <1>1
<1>c. need => need' BY <1>1
<1>d. marked => marked' BY <1>1
<1>4. MarkInv'
  <2> SUFFICES ASSUME NEW t \in Threads
               PROVE  /\ pc[t] \in {"reading", "compiling", "publishing", "clearing updated"}
                            => need'
                      /\ pc[t] = "clearing" /\ ~marked' /\ missed' = "nothing" => ~need'
    BY <1>a DEF MarkInv
  <2>1. pc[t] \in {"reading", "compiling", "publishing", "clearing updated"} => need'
    BY <1>c DEF MissInv, MarkInv
  <2>2. ASSUME pc[t] = "clearing", ~marked', missed' = "nothing" PROVE ~need'
    <3>1. ~marked /\ missed = "nothing" BY <1>b, <1>d, <2>2
    <3>2. ~need BY <2>2, <3>1 DEF MissInv, MarkInv
    <3>3. need' = need BY <1>1, <2>2
    <3> QED BY <3>2, <3>3
  <2> QED BY <2>1, <2>2
<1>5. ReadInv'
  <2>1. CASE Touched \/ Ignored
    <3>1. Script \notin notices' => Script \notin notices /\ disk'[Script] = disk[Script]
      BY <1>1, <1>2, <2>1 DEF Marks
    <3>2. ~marked' => ~marked BY <2>1
    <3> HIDE DEF Touched, Ignored, Noticed, Same
    <3> QED BY <1>a, <3>1, <3>2 DEF MissInv, ReadInv
  <2>2. CASE Noticed BY <2>2 DEF ReadInv
  <2> QED BY <1>1, <2>1, <2>2
<1>6. ScriptInv'
  <2>1. CASE Noticed BY <2>1 DEF ScriptInv
  <2>2. CASE Touched \/ Ignored
    <3>1. Script \notin notices' => Script \notin notices /\ disk'[Script] = disk[Script]
      BY <1>1, <1>2, <2>2 DEF Marks
    <3>2. missed' = "nothing" => missed = "nothing" BY <1>1
    <3> QED BY <1>1, <2>2, <3>1, <3>2 DEF MissInv, ScriptInv
  <2> QED BY <1>1, <2>1, <2>2
<1>7. StaleInv'
  <2> SUFFICES ASSUME code' # Absent, missed' = "nothing", NEW t \in Threads, NEW m \in Modules,
                      Stale(t, m)'
               PROVE  /\ \/ need' \/ m \in notices' \/ Script \in notices'
                         \/ code' # disk'[Script]
                      /\ (\E u \in Threads : pc'[u] = "clearing updated") /\ ~marked'
                            => m \in notices'
    BY DEF StaleInv
  <2>1. m \in Files /\ missed = "nothing" /\ code # Absent BY <1>1, <1>2
  <2>2. CASE Noticed BY <2>2
  <2>3. CASE disk'[m] # disk[m]
    <3>1. m \in notices' BY <1>3, <2>1, <2>3
    <3> QED BY <3>1
  <2>4. CASE disk'[m] = disk[m] /\ ~Noticed
    <3>1. Stale(t, m) BY <1>1, <2>4 DEF Stale
    <3>2. /\ \/ need \/ m \in notices \/ Script \in notices \/ code # disk[Script]
          /\ (\E u \in Threads : pc[u] = "clearing updated") /\ ~marked => m \in notices
      BY <2>1, <3>1 DEF MissInv, StaleInv
    <3>3. m \in notices => m \in notices'
      <4>1. CASE Touched BY <4>1
      <4>2. CASE Ignored
        <5>1. m # f
          <6>1. m \in Requires[code] BY <3>1 DEF Stale
          <6> QED BY <2>1, <4>2, <6>1 DEF Unindexed
        <5> QED BY <4>2, <5>1
      <4> QED BY <1>1, <2>4, <4>1, <4>2
    <3>4. Script \in notices => Script \in notices' BY <1>1, <2>4 DEF Marks
    <3>5. code # disk[Script] => code' # disk'[Script] \/ Script \in notices'
      BY <1>1, <1>2
    <3> QED BY <1>1, <2>4, <3>2, <3>3, <3>4, <3>5
  <2> QED BY <2>2, <2>3, <2>4
<1>8. SeenInv' BY <1>1 DEF MissInv, SeenInv
<1> QED BY <1>4, <1>5, <1>6, <1>7, <1>8 DEF MissParts

\* A thread that forgets, and keeps none, has no module of the version in use any more.
LEMMA ForgetStale ==
    ASSUME MissInv, NEW t \in Threads, Forget(t), UNCHANGED <<code, ver, disk>>,
           code # Absent, missed' = "nothing",
           NEW u \in Threads, NEW m \in Modules, Stale(u, m)'
    PROVE  Stale(u, m)
<1> USE DEF MissInv, IInv
<1>1. CASE seen[t] = ver
  <2>1. loaded' = loaded /\ seen'[u] = seen[u] BY <1>1, ForgetFacts DEF TypeOK
  <2> QED BY <2>1 DEF Stale
<1>2. CASE seen[t] # ver
  <2>1. CASE u # t
    BY <2>1, ForgetFacts DEF Stale, TypeOK
  <2>2. CASE u = t
    <3>1. loaded'[t][m] # Absent /\ m \in Requires[code] BY <2>2 DEF Stale
    <3>2. ~Kept(t) BY <1>2, Zenon DEF Forget, Miss
    <3>3. loaded[t][m] = Absent \/ m \in Cleanup BY <3>1, <3>2 DEF Kept
    <3> QED BY <1>2, <3>1, <3>3, ForgetFacts
  <2> QED BY <2>1, <2>2
<1> QED BY <1>1, <1>2

\* What a run loads is current.
LEMMA LoadStale ==
    ASSUME MissInv, NEW t \in Threads, NEW modules, LoadModules(t, modules),
           UNCHANGED <<code, ver, disk, seen>>, NEW u \in Threads, NEW m \in Modules, Stale(u, m)'
    PROVE  Stale(u, m)
<1>1. CASE u # t BY <1>1, LoadFacts DEF Stale, MissInv, IInv
<1>2. CASE u = t
  <2>1. loaded'[t][m] \in {loaded[t][m], disk[m]} BY LoadFacts DEF MissInv, IInv
  <2> QED BY <1>2, <2>1 DEF Stale
<1> QED BY <1>1, <1>2

\* Steps that change neither what is stale nor what marks it.
LEMMA SameStale ==
    ASSUME MissInv, UNCHANGED <<need, notices, code, disk, marked>>,
           missed' = "nothing" => missed = "nothing",
           \A u \in Threads : pc'[u] = "clearing updated" => pc[u] = "clearing updated",
           \A u \in Threads, m \in Modules :
               code # Absent /\ missed' = "nothing" /\ Stale(u, m)' => Stale(u, m)
    PROVE  StaleInv'
<1>1. missed' = "nothing" => missed = "nothing" OBVIOUS
<1> QED BY <1>1 DEF MissInv, StaleInv

LEMMA ReaderMissInv ==
    ASSUME MissInv, NEW t \in Threads, Reader(t) PROVE MissParts'
<1> USE DEF files, cached, index, history, Goto
<1>1. /\ UNCHANGED <<disk, notices, need, code, ver, marked>>
      /\ missed' = "nothing" => missed = "nothing"
      /\ \A u \in Threads \ {t} : pc'[u] = pc[u] /\ chunk'[u] = chunk[u]
      /\ pc \in [Threads -> Places]
  <2>1. pc \in [Threads -> Places] /\ chunk \in [Threads -> Int]
    BY TypeFacts DEF MissInv, IInv
  <2>2. CASE Request(t) BY <2>1, <2>2 DEF Request
  <2>3. CASE Check(t) BY <2>1, <2>3 DEF Check, Forget, Miss
  <2>4. CASE Load(t) BY <2>1, <2>4 DEF Load
  <2>5. CASE Run(t) BY <2>1, <2>5 DEF Run
  <2> QED BY <2>2, <2>3, <2>4, <2>5 DEF Reader
<1>2. pc[t] \notin Locked /\ pc'[t] \notin Locked
  BY <1>1 DEF Reader, Request, Check, Load, Run, Locked, Updated
<1>3. MarkInv' /\ ReadInv'
  <2>1. \A u \in Threads : pc'[u] \in Locked => u # t /\ pc[u] = pc'[u] /\ chunk'[u] = chunk[u]
    BY <1>1, <1>2
  <2> QED BY <1>1, <2>1 DEF MissInv, MarkInv, ReadInv, Locked, Updated
<1>4. ScriptInv' BY <1>1 DEF MissInv, ScriptInv
<1>5. StaleInv'
  <2>1. \A u \in Threads, m \in Modules :
            code # Absent /\ missed' = "nothing" /\ Stale(u, m)' => Stale(u, m)
    <3>1. CASE Request(t) \/ Load(t)
      <4>1. UNCHANGED <<loaded, seen, code, ver, disk>>
        BY <3>1, <1>1 DEF Request, Load, luaStates
      <4> QED BY <4>1 DEF Stale
    <3>2. CASE Check(t) BY <1>1, <3>2, ForgetStale DEF Check
    <3>3. CASE Run(t) BY <1>1, <3>3, LoadStale DEF Run
    <3> QED BY <3>1, <3>2, <3>3 DEF Reader
  <2>2. \A u \in Threads : pc'[u] = "clearing updated" => pc[u] = "clearing updated"
    BY <1>1, <1>2 DEF Locked, Updated
  <2> QED BY <1>1, <2>1, <2>2, SameStale
<1>6. SeenInv'
  <2>1. seen \in [Threads -> Nat] /\ ver \in Nat BY DEF MissInv, IInv, TypeOK
  <2>2. seen' = seen \/ seen' = [seen EXCEPT ![t] = ver]
    BY ForgetFacts DEF Reader, Request, Check, Load, Run, luaStates, MissInv, IInv
  <2> QED BY <1>1, <2>1, <2>2 DEF MissInv, SeenInv
<1> QED BY <1>3, <1>4, <1>5, <1>6 DEF MissParts

\* The lock excludes the other threads from everything that the holder does.
LEMMA HolderFacts ==
    ASSUME MissInv, NEW t \in Threads, Updater(t)
    PROVE  /\ \A u \in Threads \ {t} : /\ pc[u] \notin Locked
                                       /\ pc'[u] = pc[u]
                                       /\ chunk'[u] = chunk[u]
           /\ \A place \in Places : (pc' = [pc EXCEPT ![t] = place]) => pc'[t] = place
           /\ \A v \in Versions \union {Absent} :
                 (chunk' = [chunk EXCEPT ![t] = v]) => chunk'[t] = v
<1>1. pc \in [Threads -> Places] /\ chunk \in [Threads -> Int]
  BY TypeFacts DEF MissInv, IInv
<1> QED BY <1>1, UpdaterHolds DEF MissInv

\* What is marked, read and on disk, step by step of the holder.
LEMMA UpdaterMarkInv ==
    ASSUME MissInv, NEW t \in Threads, Updater(t) PROVE MarkInv' /\ ReadInv'
<1> DEFINE Good == /\ pc'[t] \in {"reading", "compiling", "publishing", "clearing updated"}
                         => need'
                   /\ pc'[t] = "clearing" /\ ~marked' /\ missed' = "nothing" => ~need'
                   /\ ~marked' /\ Script \notin notices' =>
                        /\ pc'[t] = "compiling" => chunk'[t] = disk'[Script]
                        /\ pc'[t] \in {"publishing", "clearing updated"}
                             => code' = disk'[Script]
<1>0. \A u \in Threads \ {t} : pc'[u] \notin Locked BY HolderFacts
<1>1. SUFFICES Good
  BY <1>0 DEF MarkInv, ReadInv, Locked, Updated
<1> USE HolderFacts DEF Goto, Leave, files, cached, index, luaStates, history, Places
<1>a. /\ pc[t] \in {"reading", "compiling", "publishing", "clearing updated"} => need
      /\ ~marked /\ Script \notin notices =>
           /\ pc[t] = "compiling" => chunk[t] = disk[Script]
           /\ pc[t] \in {"publishing", "clearing updated"} => code = disk[Script]
  BY DEF MissInv, MarkInv, ReadInv
<1>b. pc \in [Threads -> Places] /\ chunk \in [Threads -> Int]
  BY TypeFacts DEF MissInv, IInv
<1>2. CASE Lock(t)
  <2>1. pc'[t] = (IF need THEN "reading" ELSE "clearing") /\ need' = need
    BY <1>2, <1>b DEF Lock
  <2> QED BY <2>1
<1>3. CASE ReadText(t)
  <2>1. /\ pc'[t] = "compiling" /\ need' = need /\ pc[t] = "reading"
        /\ chunk'[t] = disk[Script] /\ disk' = disk
    BY <1>3, <1>b DEF ReadText
  <2> QED BY <1>a, <2>1
<1>4. CASE ReadFails(t)
  <2>1. CASE code = Absent
    <3>1. pc'[t] = "idle" BY <1>4, <1>b, <2>1 DEF ReadFails
    <3> QED BY <3>1
  <2>2. CASE code # Absent
    <3>1. pc'[t] = "clearing" /\ missed' # "nothing" BY <1>4, <1>b, <2>2 DEF ReadFails, Miss
    <3> QED BY <3>1
  <2> QED BY <2>1, <2>2
<1>5. CASE Compile(t)
  <2>1. /\ pc[t] = "compiling" /\ pc'[t] = "publishing" /\ code' = chunk[t]
        /\ UNCHANGED <<need, marked, notices, disk>>
    BY <1>5, <1>b DEF Compile
  <2> QED BY <1>a, <2>1
<1>6. CASE Publish(t)
  <2>1. /\ pc[t] = "publishing" /\ pc'[t] = "clearing updated"
        /\ UNCHANGED <<need, marked, notices, disk, code>>
    BY <1>6, <1>b DEF Publish
  <2> QED BY <1>a, <2>1
<1>7. CASE CompileFails(t) \/ RunLocked(t) \/ UpdateIndex(t)
  <2>1. pc'[t] = "idle" BY <1>7, <1>b DEF CompileFails, RunLocked, UpdateIndex
  <2> QED BY <2>1
<1>8. CASE ClearMark(t) \/ CheckLocked(t) \/ RunUpdated(t)
  <2>1. pc'[t] \in {"calling", "calling updated", "running locked", "running updated",
                    "indexing"}
    BY <1>8, <1>b DEF ClearMark, CheckLocked, RunUpdated
  <2> QED BY <2>1
<1> QED BY <1>2, <1>3, <1>4, <1>5, <1>6, <1>7, <1>8 DEF Updater

\* The mark is removed by who has read what is on disk.
LEMMA UpdaterScriptInv ==
    ASSUME MissInv, NEW t \in Threads, Updater(t) PROVE ScriptInv'
<1> USE DEF Goto, Leave, files, cached, index, luaStates, history
<1>a. /\ pc[t] \in {"reading", "compiling", "publishing", "clearing updated"} => need
      /\ pc[t] = "clearing" /\ ~marked /\ missed = "nothing" => ~need
      /\ ~marked /\ Script \notin notices =>
           /\ pc[t] = "compiling" => chunk[t] = disk[Script]
           /\ pc[t] \in {"publishing", "clearing updated"} => code = disk[Script]
  BY DEF MissInv, MarkInv, ReadInv
<1>1. CASE Compile(t)
  <2>1. need' BY <1>1, <1>a DEF Compile
  <2> QED BY <2>1 DEF ScriptInv
<1>2. CASE CompileFails(t)
  <2>1. /\ UNCHANGED <<disk, notices, code>>
        /\ need' = (code = Absent)
        /\ missed' = IF marked /\ code # Absent THEN "raced" ELSE missed
        /\ chunk[t] \in Broken /\ pc[t] = "compiling"
    BY <1>2 DEF CompileFails, Miss
  <2>2. missed' = "nothing" /\ ~need' => ~marked BY <2>1
  <2> QED BY <1>a, <2>1, <2>2 DEF ScriptInv
<1>3. CASE ReadFails(t)
  <2>1. need' \/ missed' # "nothing"
    <3>1. CASE code = Absent BY <1>3, <3>1 DEF ReadFails
    <3>2. CASE code # Absent BY <1>3, <3>2 DEF ReadFails, Miss
    <3> QED BY <3>1, <3>2
  <2> QED BY <2>1 DEF ScriptInv
<1>4. CASE ClearMark(t)
  <2>1. /\ UNCHANGED <<disk, notices, code>>
        /\ missed' = IF marked THEN "raced" ELSE missed
        /\ pc[t] \in {"clearing", "clearing updated"}
    BY <1>4 DEF ClearMark, Miss
  <2>2. missed' = "nothing" => ~marked /\ missed = "nothing" BY <2>1
  <2>3. CASE pc[t] = "clearing" BY <1>a, <2>1, <2>2, <2>3 DEF MissInv, ScriptInv
  <2>4. CASE pc[t] = "clearing updated" BY <1>a, <2>1, <2>2, <2>4 DEF ScriptInv
  <2> QED BY <2>1, <2>3, <2>4
<1>5. CASE ~(Compile(t) \/ CompileFails(t) \/ ReadFails(t) \/ ClearMark(t))
  <2>1. /\ UNCHANGED <<disk, notices, code, need>>
        /\ missed' = "nothing" => missed = "nothing"
    BY <1>5 DEF Updater, Lock, ReadText, Publish, CheckLocked, RunLocked, RunUpdated,
                UpdateIndex, Forget, Miss
  <2> QED BY <2>1 DEF MissInv, ScriptInv
<1> QED BY <1>1, <1>2, <1>3, <1>4, <1>5

\* Nothing stale is left without a mark or a notice.
LEMMA UpdaterStaleInv ==
    ASSUME MissInv, NEW t \in Threads, Updater(t) PROVE StaleInv'
<1> USE DEF Goto, Leave, files, cached, index, luaStates, history
<1>a. /\ pc[t] \in {"reading", "compiling", "publishing", "clearing updated"} => need
      /\ pc[t] = "clearing" /\ ~marked /\ missed = "nothing" => ~need
      /\ ~marked /\ Script \notin notices /\ pc[t] = "compiling" => chunk[t] = disk[Script]
  BY DEF MissInv, MarkInv, ReadInv
<1>b. pc \in [Threads -> Places] /\ (code \notin Broken \/ code = Absent)
  BY TypeFacts DEF MissInv, IInv, TypeOK
<1>c. \A u \in Threads \ {t} : pc'[u] # "clearing updated"
  BY HolderFacts DEF Locked, Updated
<1>1. CASE Lock(t) \/ ReadText(t)
  <2>1. UNCHANGED <<disk, notices, code, need, missed, loaded, seen, ver>>
    BY <1>1 DEF Lock, ReadText
  <2>2. pc'[t] # "clearing updated" BY <1>1, <1>b DEF Lock, ReadText
  <2>3. \A u \in Threads, m \in Modules : Stale(u, m)' => Stale(u, m)
    BY <2>1 DEF Stale
  <2>4. ~\E u \in Threads : pc'[u] = "clearing updated" BY <1>c, <2>2
  <2> QED BY <2>1, <2>3, <2>4 DEF MissInv, StaleInv
<1>2. CASE ReadFails(t)
  <2>1. (need' \/ missed' # "nothing") /\ pc'[t] # "clearing updated"
    <3>1. CASE code = Absent BY <1>2, <1>b, <3>1 DEF ReadFails
    <3>2. CASE code # Absent BY <1>2, <1>b, <3>2 DEF ReadFails, Miss
    <3> QED BY <3>1, <3>2
  <2> QED BY <1>c, <2>1 DEF StaleInv
<1>3. CASE Compile(t)
  <2>1. need' /\ pc'[t] # "clearing updated" BY <1>3, <1>a, <1>b DEF Compile
  <2> QED BY <1>c, <2>1 DEF StaleInv
<1>4. CASE CompileFails(t)
  <2>1. /\ UNCHANGED <<disk, notices, code, loaded, seen, ver>>
        /\ missed' = IF marked /\ code # Absent THEN "raced" ELSE missed
        /\ chunk[t] \in Broken /\ pc[t] = "compiling"
    BY <1>4 DEF CompileFails, Miss
  <2>2. pc'[t] # "clearing updated" BY <1>4, <1>b DEF CompileFails
  <2>3. code # Absent /\ missed' = "nothing" => ~marked BY <2>1
  <2>4. code # Absent /\ missed' = "nothing" => Script \in notices' \/ code' # disk'[Script]
    BY <1>a, <1>b, <2>1, <2>3
  <2> QED BY <1>c, <2>1, <2>2, <2>4 DEF StaleInv
<1>5. CASE Publish(t)
  <2>1. ver' = ver + 1 /\ seen' = seen BY <1>5 DEF Publish
  <2>2. \A u \in Threads : seen[u] \in Nat /\ ver \in Nat /\ seen[u] <= ver
    BY DEF MissInv, IInv, TypeOK, SeenInv
  <2>3. \A u \in Threads : seen'[u] # ver' BY <2>1, <2>2
  <2> QED BY <2>3 DEF StaleInv, Stale
<1>6. CASE ClearMark(t)
  <2>1. /\ UNCHANGED <<disk, notices, code, loaded, seen, ver>>
        /\ missed' = IF marked THEN "raced" ELSE missed
        /\ pc[t] \in {"clearing", "clearing updated"}
    BY <1>6 DEF ClearMark, Miss
  <2>2. pc'[t] # "clearing updated" BY <1>6, <1>b DEF ClearMark
  <2>3. missed' = "nothing" => ~marked /\ missed = "nothing" BY <2>1
  <2>4. \A u \in Threads, m \in Modules : Stale(u, m)' => Stale(u, m)
    BY <2>1 DEF Stale
  <2>5. CASE pc[t] = "clearing"
    <3>1. missed' = "nothing" => ~need BY <1>a, <2>3, <2>5
    <3> QED BY <1>c, <2>1, <2>2, <2>3, <2>4, <3>1 DEF MissInv, StaleInv
  <2>6. CASE pc[t] = "clearing updated"
    BY <1>c, <2>1, <2>2, <2>3, <2>4, <2>6 DEF MissInv, StaleInv
  <2> QED BY <2>1, <2>5, <2>6
<1>7. CASE CheckLocked(t) \/ RunLocked(t) \/ RunUpdated(t) \/ UpdateIndex(t)
  <2>1. /\ UNCHANGED <<disk, notices, code, need, ver, marked>>
        /\ missed' = "nothing" => missed = "nothing"
    BY <1>7 DEF CheckLocked, RunLocked, RunUpdated, UpdateIndex, Forget, Miss
  <2>2. pc'[t] # "clearing updated"
    BY <1>7, <1>b DEF CheckLocked, RunLocked, RunUpdated, UpdateIndex
  <2>3. \A u \in Threads, m \in Modules :
            code # Absent /\ missed' = "nothing" /\ Stale(u, m)' => Stale(u, m)
    <3>1. CASE CheckLocked(t) BY <2>1, <3>1, ForgetStale DEF CheckLocked
    <3>2. CASE RunLocked(t) BY <2>1, <3>2, LoadStale DEF RunLocked
    <3>3. CASE RunUpdated(t) BY <2>1, <3>3, LoadStale DEF RunUpdated
    <3>4. CASE UpdateIndex(t) BY <2>1, <3>4 DEF UpdateIndex, Stale
    <3> QED BY <1>7, <3>1, <3>2, <3>3, <3>4
  <2> QED BY <1>c, <2>1, <2>2, <2>3, SameStale
<1> QED BY <1>1, <1>2, <1>3, <1>4, <1>5, <1>6, <1>7 DEF Updater

\* Only the count of a version puts threads behind.
LEMMA UpdaterSeenInv ==
    ASSUME MissInv, NEW t \in Threads, Updater(t) PROVE SeenInv'
<1> USE DEF Goto, Leave, files, cached, index, luaStates, history
<1>a. seen \in [Threads -> Nat] /\ ver \in Nat /\ \A u \in Threads : seen[u] <= ver
  BY DEF MissInv, IInv, TypeOK, SeenInv
<1>1. CASE Publish(t)
  <2>1. seen' = seen /\ ver' = ver + 1 BY <1>1 DEF Publish
  <2> QED BY <1>a, <2>1 DEF SeenInv
<1>2. CASE CheckLocked(t)
  <2>1. ver' = ver BY <1>2 DEF CheckLocked
  <2>2. seen' = [seen EXCEPT ![t] = ver]
    BY <1>2, ForgetFacts DEF CheckLocked, MissInv, IInv
  <2> QED BY <1>a, <2>1, <2>2 DEF SeenInv
<1>3. CASE ~(Publish(t) \/ CheckLocked(t))
  <2>1. seen' = seen /\ ver' = ver
    BY <1>3 DEF Updater, Lock, ReadText, ReadFails, Compile, CompileFails, ClearMark,
                RunLocked, RunUpdated, UpdateIndex
  <2> QED BY <1>a, <2>1 DEF SeenInv
<1> QED BY <1>1, <1>2, <1>3

LEMMA NextMissInv == MissInv /\ [Next]_vars => MissInv'
<1> SUFFICES ASSUME MissInv, [Next]_vars PROVE MissInv' OBVIOUS
<1>1. IInv' BY NextIInv DEF MissInv
<1>2. MissParts'
  <2>1. CASE UNCHANGED vars
    <3>1. UNCHANGED <<disk, notices, need, code, ver, loaded, seen, pc, chunk, marked,
                      missed>>
      BY <2>1 DEF vars
    <3>2. \A t \in Threads, m \in Modules : Stale(t, m)' <=> Stale(t, m)
      BY <3>1 DEF Stale
    <3>3. MarkInv' /\ ReadInv' /\ ScriptInv'
      BY <3>1 DEF MissInv, MarkInv, ReadInv, ScriptInv
    <3>4. StaleInv' BY <3>1, <3>2 DEF MissInv, StaleInv
    <3>5. SeenInv' BY <3>1 DEF MissInv, SeenInv
    <3> QED BY <3>3, <3>4, <3>5 DEF MissParts
  <2>2. CASE \E f \in Files : Save(f) \/ Close(f) \/ FileChanged(f)
    BY <2>2, FilesMissInv
  <2>3. ASSUME NEW t \in Threads, Reader(t) PROVE MissParts' BY <2>3, ReaderMissInv
  <2>4. ASSUME NEW t \in Threads, Updater(t) PROVE MissParts'
    BY <2>4, UpdaterMarkInv, UpdaterScriptInv, UpdaterStaleInv, UpdaterSeenInv
       DEF MissParts
  <2> QED BY <2>1, <2>2, <2>3, <2>4 DEF Next
<1> QED BY <1>1, <1>2 DEF MissInv, MissParts

\* Outside of the four windows, SetNeedUpdate, OnFileChangedFiltered and
\* CheckLuaStateUpdateForThread together bring every noticed change into effect,
\* whatever threads, modules and saves there are, whatever each version of the script
\* requires, and wherever its runs end.
THEOREM MissedOnlyInWindows == Spec => []MissedInWindowsOnly
<1>1. MissInv => MissedInWindowsOnly
  <2> SUFFICES ASSUME MissInv, Quiet, missed = "nothing", disk[Script] \notin Broken
               PROVE  UpToDate
    BY DEF MissedInWindowsOnly
  <2>1. code = disk[Script] BY DEF MissInv, ScriptInv, Quiet
  <2>2. disk[Script] \in Versions BY DEF MissInv, IInv, TypeOK, Files
  <2>3. code # Absent /\ Requires[code] \subseteq Modules BY <2>1, <2>2, VersionFacts
  <2>4. \A t \in Threads, m \in Modules : ~Stale(t, m)
    BY <2>1, <2>3 DEF MissInv, StaleInv, Quiet
  <2> QED BY <2>1, <2>3, <2>4 DEF UpToDate, Stale
<1>2. MissInv /\ [Next]_vars => MissInv' BY NextMissInv
<1> QED BY <1>1, <1>2, InitMissInv, PTL DEF Spec

=============================================================================
