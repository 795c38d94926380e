---------------------------- MODULE FolderMonitor ----------------------------
(***************************************************************************)
(* A monitored folder: MonitorFolder, the directory read that is kept      *)
(* outstanding (WTProcessDirMonitor), the notices that are posted as       *)
(* custom operations, and CloseAllMonitoredFolder.  Its context key is not *)
(* freed while notices may refer to it but put in m_setMonitoredDirToRemove *)
(* and freed by Run.                                                       *)
(***************************************************************************)
EXTENDS ServerStatus

CONSTANTS
    MaxNotices   \* bound: notices not yet handled

ASSUME MaxNoticesAssumption == MaxNotices \in Nat

VARIABLES
    folder_call,   \* where MonitorFolder is
    folder_open,   \* the handle of the directory is open
    folder_closed, \* hMonitoredDir of the key is INVALID_HANDLE_VALUE
    in_set,        \* the handle is in m_setMonitoredDir
    in_map,        \* the handle is in m_mapMonitoredDir
    watching,      \* a directory read is outstanding
    rewatching,    \* a worker is about to issue the next one
    notices,       \* notices posted and not handled
    to_remove,     \* the key is in m_setMonitoredDirToRemove
    folder_key,    \* the context key
    overtaken      \* the watch ended before MonitorFolder had recorded it

folder_vars ==
    <<folder_call, folder_open, folder_closed, in_set, in_map, watching, rewatching, notices,
      to_remove, folder_key, overtaken>>

InitFolder ==
    /\ folder_call = "idle"
    /\ folder_open = FALSE /\ folder_closed = FALSE
    /\ in_set = FALSE /\ in_map = FALSE
    /\ watching = FALSE /\ rewatching = FALSE
    /\ notices = 0
    /\ to_remove = FALSE
    /\ folder_key = "none"
    /\ overtaken = FALSE

\* MonitorFolder issues the first read and records the handle afterwards.  A call that
\* fails before or at the read leaves nothing behind.
MonitorFolder ==
    /\ folder_call = "idle"
    /\ folder_call' = "issued"
    /\ folder_open' = TRUE
    /\ in_map' = TRUE
    /\ watching' = TRUE
    /\ folder_key' = "live"
    /\ UNCHANGED <<folder_closed, in_set, rewatching, notices, to_remove, overtaken,
                   server_vars>>

Record ==
    /\ folder_call = "issued"
    /\ folder_call' = "done"
    /\ in_set' = TRUE
    /\ Arrives("folders", "folder")
    /\ UNCHANGED <<folder_open, folder_closed, in_map, watching, rewatching, notices,
                   to_remove, folder_key, overtaken, status_vars, pool_vars, faults, undefined>>

\* Mutation: the key is freed when the watch ends.
UnwatchFrees ==
    /\ watching' = FALSE
    /\ to_remove' = TRUE
    /\ folder_key' = "deleted"
    /\ overtaken' = (overtaken \/ folder_call = "issued")

\* The end of a watch: the entries are removed and the key is kept for Run.
Unwatch ==
    /\ watching' = FALSE
    /\ to_remove' = TRUE
    /\ overtaken' = (overtaken \/ folder_call = "issued")
    /\ UNCHANGED folder_key

\* The read is over without a change: an error, too many changes, or the end.
Nothing ==
    /\ watching /\ Idle
    /\ IF "preterminate" \in status
       THEN /\ Unwatch
            /\ in_set' = (in_set /\ folder_closed)
            /\ in_map' = (in_map /\ folder_closed)
            /\ UNCHANGED <<rewatching, busy>>
       ELSE /\ watching' = FALSE
            /\ rewatching' = TRUE
            /\ busy' = busy + 1
            /\ UNCHANGED <<to_remove, overtaken, in_set, in_map, folder_key>>
    /\ UNCHANGED <<folder_call, folder_open, folder_closed, notices, workers,
                   status_vars, faults, late, undefined>>

\* Changes: they are posted; then the watch ends, or goes on.
Changes ==
    /\ watching /\ Idle
    /\ notices < MaxNotices
    /\ notices' = notices + 1
    /\ IF folder_closed \/ "terminate" \in status
       THEN /\ Unwatch
            /\ in_map' = FALSE
            /\ UNCHANGED <<rewatching, busy>>
       ELSE /\ watching' = FALSE
            /\ rewatching' = TRUE
            /\ busy' = busy + 1
            /\ UNCHANGED <<to_remove, overtaken, in_map, folder_key>>
    /\ UNCHANGED <<folder_call, folder_open, folder_closed, in_set, workers,
                   status_vars, faults, late, undefined>>

\* ReadDirectoryChangesW.
Rewatch ==
    /\ rewatching
    /\ folder_open
    /\ rewatching' = FALSE
    /\ watching' = TRUE
    /\ Finish
    /\ UNCHANGED <<folder_call, folder_open, folder_closed, in_set, in_map, notices,
                   to_remove, folder_key, overtaken, status_vars, faults, late, undefined>>

\* The handle was closed, before or after it was tested again, or the call fails.
RewatchFails ==
    /\ rewatching
    /\ IF folder_open THEN Fault ELSE UNCHANGED faults
    /\ rewatching' = FALSE
    /\ folder_open' = FALSE
    /\ \/ folder_closed /\ in_map' = FALSE /\ UNCHANGED in_set
       \/ in_set' = FALSE /\ in_map' = (in_map /\ folder_closed)
    /\ Unwatch
    /\ Finish
    /\ UNCHANGED <<folder_call, folder_closed, notices, status_vars, late,
                   undefined>>

\* OnInternalCustomOperationComplete: the notice refers to the key.
Notice ==
    /\ notices > 0 /\ Idle
    /\ notices' = notices - 1
    /\ IF folder_key = "deleted" THEN Undefined("notice") ELSE UNCHANGED undefined
    /\ UNCHANGED <<folder_call, folder_open, folder_closed, in_set, in_map, watching,
                   rewatching, to_remove, folder_key, overtaken, status_vars, pool_vars,
                   faults, late>>

FolderStep ==
    MonitorFolder \/ Record \/ Nothing \/ Changes \/ Rewatch \/ RewatchFails \/ Notice

\* CloseAllMonitoredFolder looks each recorded handle up and writes to what it finds.
CloseFolders ==
    /\ IF in_set /\ ~in_map THEN Undefined("folder") ELSE UNCHANGED undefined
    /\ IF in_set
       THEN folder_closed' = TRUE /\ folder_open' = FALSE
       ELSE UNCHANGED <<folder_closed, folder_open>>
    /\ UNCHANGED <<folder_call, in_set, in_map, watching, rewatching, notices, to_remove,
                   folder_key, overtaken>>

\* Run, at its end: ClearAllFolderMonitor.
ClearFolders ==
    /\ folder_key' = IF to_remove THEN "deleted" ELSE folder_key
    /\ UNCHANGED <<folder_call, folder_open, folder_closed, in_set, in_map, watching,
                   rewatching, notices, to_remove, overtaken>>
-----------------------------------------------------------------------------
TypeOKFolder ==
    /\ folder_call \in {"idle", "issued", "done"}
    /\ folder_open \in BOOLEAN /\ folder_closed \in BOOLEAN
    /\ in_set \in BOOLEAN /\ in_map \in BOOLEAN
    /\ watching \in BOOLEAN /\ rewatching \in BOOLEAN
    /\ notices \in 0..MaxNotices
    /\ to_remove \in BOOLEAN /\ overtaken \in BOOLEAN
    /\ folder_key \in {"none", "live", "deleted"}
=============================================================================
