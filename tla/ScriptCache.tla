----------------------------- MODULE ScriptCache -----------------------------
(***************************************************************************)
(* The reloading of one Lua script in UniversalIOCPServer.cpp and          *)
(* UniversalStringCache.h: an editor saves the script and the modules it   *)
(* requires, the folder monitor marks the cache (OnFileChangedFiltered),   *)
(* worker threads run the script (RunScriptCache) and the first of them    *)
(* that finds the mark reloads it under the lock of the cache              *)
(* (UpdateAndRunScriptCache).                                              *)
(*                                                                         *)
(* Every thread has a Lua state of its own, whose package.loaded keeps the *)
(* modules it has required.  A thread forgets the modules of the script    *)
(* when it meets a new version of it (CheckLuaStateUpdateForThread).       *)
(* A run may end at an error, or not reach all it could require.           *)
(***************************************************************************)
EXTENDS Integers, Sequences

CONSTANTS
    Threads,   \* threads that run the script
    Modules,   \* Lua modules
    Script,    \* the script file
    Requires,  \* the modules that a version of the script requires at most
    Broken,    \* versions of the script with a syntax error
    BaseName,  \* the name of a module's file, without its folder and extension
    MixedCase, \* modules whose names sort differently if case is ignored
    MaxSaves,  \* bound: how often a file is saved
    None       \* no thread

Files == Modules \union {Script}
Versions == UNION {0 .. MaxSaves[f] : f \in Files}
Absent == -1    \* no version

ASSUME FilesAssumption == Script \notin Modules
ASSUME SavesAssumption == MaxSaves \in [Files -> Nat]
ASSUME RequiresAssumption == Requires \in [Versions -> SUBSET Modules]
ASSUME BrokenAssumption == Broken \subseteq Versions
ASSUME NamesAssumption == DOMAIN BaseName = Modules /\ MixedCase \subseteq Modules
ASSUME NoneAssumption == None \notin Threads

VARIABLES
    disk,       \* the version of each file on disk (external)
    writing,    \* files the editor holds open for writing (external)
    notices,    \* changed files whose notice has yet to be processed
    need,       \* _needUpdate
    lock,       \* the thread that holds the lock of the cache
    code,       \* the version of the byte code in use
    ver,        \* _ver
    lists,      \* the newest of _referenceModulesHistory, then _referenceModules
    dependents, \* modules under which _mapLuaModuleReference has the cache
    loaded,     \* per thread, package.loaded: the version of each module
    seen,       \* per thread, its entry for the script in _scriptVersions
    pc,         \* where a thread is in RunScriptCache
    chunk,      \* per thread, the version it is about to compile or to run
    required,   \* g_loadedLuaModules of the thread that reloads
    marked,     \* history: the mark was set since the holder looked at it
    missed      \* history: how a change may have been missed

vars == <<disk, writing, notices, need, lock, code, ver, lists, dependents,
          loaded, seen, pc, chunk, required, marked, missed>>

Init ==
    /\ disk = [f \in Files |-> 0]
    /\ writing = {}
    /\ notices = {}
    /\ need = TRUE
    /\ lock = None
    /\ code = Absent
    /\ ver = 0
    /\ lists = <<>>
    /\ dependents = {}
    /\ loaded = [t \in Threads |-> [m \in Modules |-> Absent]]
    /\ seen = [t \in Threads |-> 0]
    /\ pc = [t \in Threads |-> "idle"]
    /\ chunk = [t \in Threads |-> Absent]
    /\ required = {}
    /\ marked = FALSE
    /\ missed = "nothing"

files == <<disk, writing>>
cached == <<code, ver>>
index == <<lists, dependents, required>>
luaStates == <<loaded, seen>>
history == <<marked, missed>>

\* Where a thread can be in RunScriptCache.
Places ==
    {"idle", "checking", "loading", "running", "locking", "reading", "compiling",
     "publishing", "clearing", "clearing updated", "calling", "calling updated",
     "running locked", "running updated", "indexing"}

Goto(t, place) == pc' = [pc EXCEPT ![t] = place]

\* One way to miss a change is remembered; that a module was kept yields to others.
Miss(how) == missed' = IF how = "kept" /\ missed # "nothing" THEN missed ELSE how
-----------------------------------------------------------------------------
(* The editor and the folder monitor.                                      *)

\* A save changes the file while the editor still holds it.
Save(f) ==
    /\ f \notin writing
    /\ disk[f] < MaxSaves[f]
    /\ disk' = [disk EXCEPT ![f] = @ + 1]
    /\ writing' = writing \union {f}
    /\ notices' = notices \union {f}
    /\ UNCHANGED <<need, lock, cached, index, luaStates, pc, chunk, history>>

\* The notice of the close is filtered out if it carries the modification time
\* already known (OnInternalFileChanged).
Close(f) ==
    /\ f \in writing
    /\ writing' = writing \ {f}
    /\ notices' \in {notices, notices \union {f}}
    /\ UNCHANGED <<disk, need, lock, cached, index, luaStates, pc, chunk, history>>

\* The cache is found by the base name of the file that changed, but the index has
\* the names that scripts give to require: a module in a folder is not found.
Marks(f) == f = Script \/ (f \in Modules /\ BaseName[f] \in dependents)

\* The byte code in use may require the module, whose change marks nothing.
Unindexed(f) == code # Absent /\ f \in Requires[code] /\ ~Marks(f)

FileChanged(f) ==
    /\ f \in notices
    /\ notices' = notices \ {f}
    /\ IF Marks(f)
       THEN /\ need' = TRUE
            /\ marked' = TRUE
            /\ UNCHANGED missed
       ELSE /\ IF Unindexed(f) THEN Miss("unindexed") ELSE UNCHANGED missed
            /\ UNCHANGED <<need, marked>>
    /\ UNCHANGED <<files, lock, cached, index, luaStates, pc, chunk>>
-----------------------------------------------------------------------------
(* A thread that finds no mark: LoadScriptCache and the call, unlocked.    *)

\* RunScriptCache reads the mark without the lock.
Request(t) ==
    /\ pc[t] = "idle"
    /\ Goto(t, IF need THEN "locking" ELSE "checking")
    /\ UNCHANGED <<files, notices, need, lock, cached, index, luaStates, chunk, history>>

\* GetCleanupModules: the modules of the version before the current one, or
\* those of the current one if there was none before.
Cleanup == IF lists = <<>> THEN {} ELSE lists[1]

\* A module that the version in use may require is loaded, and is not forgotten.
Kept(t) == code # Absent /\ \E m \in Requires[code] \ Cleanup : loaded[t][m] # Absent

\* CheckLuaStateUpdateForThread: a thread new to this version forgets modules.
Forget(t) ==
    IF seen[t] # ver
    THEN /\ seen' = [seen EXCEPT ![t] = ver]
         /\ loaded' = [loaded EXCEPT ![t] =
                [m \in Modules |-> IF m \in Cleanup THEN Absent ELSE @[m]]]
         /\ IF Kept(t) THEN Miss("kept") ELSE UNCHANGED missed
    ELSE UNCHANGED <<luaStates, missed>>

Check(t) ==
    /\ pc[t] = "checking"
    /\ Forget(t)
    /\ Goto(t, "loading")
    /\ UNCHANGED <<files, notices, need, lock, cached, index, chunk, marked>>

\* LoadScriptCache: the thread takes the byte code that is in use by now.
Load(t) ==
    /\ pc[t] = "loading"
    /\ chunk' = [chunk EXCEPT ![t] = code]
    /\ Goto(t, "running")
    /\ UNCHANGED <<files, notices, need, lock, cached, index, luaStates, history>>

\* What a run may have required before it ends, at an error or not.
Runs(t) == SUBSET Requires[chunk[t]]

\* The required modules that are not loaded are read from disk.
LoadModules(t, modules) ==
    loaded' = [loaded EXCEPT ![t] =
        [m \in Modules |-> IF m \in modules /\ @[m] = Absent THEN disk[m] ELSE @[m]]]

Run(t) ==
    /\ pc[t] = "running"
    /\ \E modules \in Runs(t) : LoadModules(t, modules)
    /\ chunk' = [chunk EXCEPT ![t] = Absent]
    /\ Goto(t, "idle")
    /\ UNCHANGED <<files, notices, need, lock, cached, index, seen, history>>
-----------------------------------------------------------------------------
(* A thread that found the mark: UpdateAndRunScriptCache, under the lock.  *)

\* Mutation of Lock: the lock of the cache excludes nobody.
LockShared(t) ==
    /\ pc[t] = "locking"
    /\ lock' = t
    /\ marked' = FALSE
    /\ Goto(t, IF need THEN "reading" ELSE "clearing")
    /\ chunk' = [chunk EXCEPT ![t] = IF need THEN Absent ELSE code]
    /\ UNCHANGED <<files, notices, need, cached, index, luaStates, missed>>

\* Under the lock the mark is read again; if another thread has removed it the
\* byte code in use is run as it is.
Lock(t) ==
    /\ pc[t] = "locking"
    /\ lock = None
    /\ lock' = t
    /\ marked' = FALSE
    /\ Goto(t, IF need THEN "reading" ELSE "clearing")
    /\ chunk' = [chunk EXCEPT ![t] = IF need THEN Absent ELSE code]
    /\ UNCHANGED <<files, notices, need, cached, index, luaStates, missed>>

\* The request is over; chunk[t] is reset.
Leave(t) ==
    /\ lock' = None
    /\ chunk' = [chunk EXCEPT ![t] = Absent]
    /\ Goto(t, "idle")

\* GetFileContentText.
ReadText(t) ==
    /\ pc[t] = "reading"
    /\ Script \notin writing
    /\ chunk' = [chunk EXCEPT ![t] = disk[Script]]
    /\ marked' = FALSE
    /\ Goto(t, "compiling")
    /\ UNCHANGED <<files, notices, need, lock, cached, index, luaStates, missed>>

\* The editor still holds the file: the byte code in use is run, if there is
\* any; if there is none the cache stays marked.
ReadFails(t) ==
    /\ pc[t] = "reading"
    /\ Script \in writing
    /\ IF code = Absent
       THEN need' = TRUE /\ Leave(t) /\ UNCHANGED missed
       ELSE /\ chunk' = [chunk EXCEPT ![t] = code]
            /\ Miss("unreadable")
            /\ Goto(t, "clearing")
            /\ UNCHANGED <<lock, need>>
    /\ UNCHANGED <<files, notices, cached, index, luaStates, marked>>

\* Mutation of Compile: a version that does not compile replaces the working one.
CompileAny(t) ==
    /\ pc[t] = "compiling"
    /\ code' = chunk[t]
    /\ required' = {}
    /\ Goto(t, "publishing")
    /\ UNCHANGED <<files, notices, need, lock, ver, lists, dependents, luaStates,
                   chunk, history>>

\* SetByteCode; what the thread has required so far is forgotten.
Compile(t) ==
    /\ pc[t] = "compiling"
    /\ chunk[t] \notin Broken
    /\ code' = chunk[t]
    /\ required' = {}
    /\ Goto(t, "publishing")
    /\ UNCHANGED <<files, notices, need, lock, ver, lists, dependents, luaStates,
                   chunk, history>>

\* A syntax error: the previous version stays in use, this request runs nothing,
\* and the mark is removed unless there is no previous version.
CompileFails(t) ==
    /\ pc[t] = "compiling"
    /\ chunk[t] \in Broken
    /\ need' = (code = Absent)
    /\ IF marked /\ code # Absent THEN Miss("raced") ELSE UNCHANGED missed
    /\ Leave(t)
    /\ UNCHANGED <<files, notices, cached, index, luaStates, marked>>

\* Mutation of Publish: the new version is not counted.
PublishUncounted(t) ==
    /\ pc[t] = "publishing"
    /\ Goto(t, "clearing updated")
    /\ UNCHANGED <<files, notices, need, lock, cached, index, luaStates, chunk, history>>

\* SetStringPtr counts the version.
Publish(t) ==
    /\ pc[t] = "publishing"
    /\ ver' = ver + 1
    /\ Goto(t, "clearing updated")
    /\ UNCHANGED <<files, notices, need, lock, code, index, luaStates, chunk, history>>

\* SetNeedUpdate(FALSE), whatever has marked the cache in the meantime.
ClearMark(t) ==
    /\ pc[t] \in {"clearing", "clearing updated"}
    /\ need' = FALSE
    /\ IF marked THEN Miss("raced") ELSE UNCHANGED missed
    /\ Goto(t, IF pc[t] = "clearing" THEN "calling" ELSE "calling updated")
    /\ UNCHANGED <<files, notices, lock, cached, index, luaStates, chunk, marked>>

\* A thread that did not reload has called this already, in LoadScriptCache,
\* under the same lock and with the same outcome.
CheckLocked(t) ==
    /\ pc[t] \in {"calling", "calling updated"}
    /\ Forget(t)
    /\ Goto(t, IF pc[t] = "calling" THEN "running locked" ELSE "running updated")
    /\ UNCHANGED <<files, notices, need, lock, cached, index, chunk, marked>>

RunLocked(t) ==
    /\ pc[t] = "running locked"
    /\ \E modules \in Runs(t) : LoadModules(t, modules)
    /\ Leave(t)
    /\ UNCHANGED <<files, notices, need, cached, index, seen, history>>

\* require records a module once it is loaded; the index is updated from these
\* whatever lua_pcall returns.
RunUpdated(t) ==
    /\ pc[t] = "running updated"
    /\ \E modules \in Runs(t) : LoadModules(t, modules) /\ required' = modules
    /\ Goto(t, "indexing")
    /\ UNCHANGED <<files, notices, need, lock, cached, lists, dependents, seen, chunk,
                   history>>

\* The list of the reload before this one.
Current == lists[Len(lists)]

\* Mutation of Removed: the modules that both lists have are removed.
RemovedShared(new) == {IF lists = <<>> THEN {} ELSE Current \intersect new}

\* What GetReferenceRemove may return: nothing if either list is empty, or else what
\* only the old one has.  set_difference takes both for sorted alike, but the old one
\* ignores case: it may step over a new name that it meets in the old list later.
Removed(new) ==
    IF lists = <<>> \/ new = {} \/ Current = {} THEN {{}}
    ELSE {(Current \ new) \union names : names \in SUBSET (Current \intersect new \intersect MixedCase)}

\* UpdateLuaModuleReference and SetReferenceModule, then the lock is released.
\* The newest two lists are all that is ever looked at.
UpdateIndex(t) ==
    /\ pc[t] = "indexing"
    /\ \E removed \in Removed(required) :
          dependents' = (dependents \union required) \ removed
    /\ lists' = IF Len(lists) = 2 THEN <<lists[2], required>> ELSE Append(lists, required)
    /\ Leave(t)
    /\ UNCHANGED <<files, notices, need, cached, required, luaStates, history>>

Reader(t) == Request(t) \/ Check(t) \/ Load(t) \/ Run(t)

Updater(t) ==
    \/ Lock(t) \/ ReadText(t) \/ ReadFails(t) \/ Compile(t) \/ CompileFails(t)
    \/ Publish(t) \/ ClearMark(t) \/ CheckLocked(t) \/ RunLocked(t)
    \/ RunUpdated(t) \/ UpdateIndex(t)

Next ==
    \/ \E f \in Files : Save(f) \/ Close(f) \/ FileChanged(f)
    \/ \E t \in Threads : Reader(t) \/ Updater(t)

Spec == Init /\ [][Next]_vars
-----------------------------------------------------------------------------
TypeOK ==
    /\ disk \in [Files -> Versions]
    /\ writing \subseteq Files
    /\ notices \subseteq Files
    /\ need \in BOOLEAN
    /\ lock \in Threads \union {None}
    /\ code \in (Versions \ Broken) \union {Absent}
    /\ ver \in Nat
    /\ lists \in Seq(SUBSET Modules)
    /\ Len(lists) <= 2
    /\ dependents \subseteq Modules
    /\ loaded \in [Threads -> [Modules -> Versions \union {Absent}]]
    /\ seen \in [Threads -> Nat]
    /\ pc \in [Threads -> Places]
    /\ chunk \in [Threads -> Versions \union {Absent}]
    /\ required \subseteq Modules
    /\ marked \in BOOLEAN
    /\ missed \in {"nothing", "raced", "unreadable", "unindexed", "kept"}

\* However requests and reloads interleave, the byte code in use never goes back
\* to an older version of the script.
NeverGoesBack == [][code' >= code]_code

\* Nothing is being saved, noticed or reloaded, and the cache is not marked.
Quiet == writing = {} /\ notices = {} /\ ~need /\ lock = None

\* The version on disk is in use, and a thread that has met it and is not running
\* it has only current modules of it loaded.
UpToDate ==
    /\ code = disk[Script]
    /\ \A t \in Threads, m \in Requires[code] :
           seen[t] = ver /\ pc[t] \in {"idle", "locking"}
               => loaded[t][m] \in {Absent, disk[m]}

\* A change is missed in four windows only: the cache is marked between the reading
\* of the file and the removal of the mark; the editor still holds the file when it
\* is read; the changed module cannot be found in the index (IndexIsComplete says
\* when); or a thread does not forget a module, which the list it forgets by lacks.
MissedInWindowsOnly ==
    Quiet /\ missed = "nothing" /\ disk[Script] \notin Broken => UpToDate

\* "Changes on scripts take effect immediately": once a change is noticed, and marks
\* the cache in time, it is in effect when nothing is pending.
ChangesTakeEffect ==
    Quiet /\ missed \in {"nothing", "kept"} /\ disk[Script] \notin Broken => UpToDate

\* The index lacks a module that the version in use may require for two reasons only:
\* the run that followed the last reload did not get to it, or it was listed twice
\* in a row under a name whose case misleads the comparison of the lists.
IndexIsComplete ==
    code # Absent /\ lock = None =>
        /\ lists # <<>>
        /\ \A m \in Requires[code] \ dependents :
              m \in Current => m \in MixedCase /\ Len(lists) = 2 /\ m \in lists[1]

=============================================================================
