----------------------------- MODULE HotReload -----------------------------
(***************************************************************************)
(* gui/src/hot_reload.cpp: a debug host watches the sources of its user    *)
(* interface, builds them with a child process when they change, and swaps *)
(* the module DLL while it runs.  The host calls load once, update once in *)
(* every turn of its loop, destroy at the end; the code editor destroys    *)
(* and loads again when another folder is opened.                          *)
(*                                                                         *)
(* Parties: the host, the build process, whoever edits the sources.  A     *)
(* version of a source stands for its write time (a missing file is one    *)
(* more version of it).  What is built is the versions the build read.     *)
(* Errors that depend on the descriptor alone (a path that is too long)    *)
(* and the text of the log are left out.                                   *)
(***************************************************************************)
EXTENDS Integers

CONSTANTS
  Files,        \* watched_files
  LastVersion,  \* bound: the last version of a file
  PipeSize      \* what the output pipes of the build hold

VARIABLES
  host,      \* unloaded, loading (in rebuild_module_now), frame, polling (in
             \* update, after finish_rebuild), closing (in destroy), stopped
  disk,      \* the sources
  seen,      \* watched_write_times
  running,   \* rebuild_running
  requested, \* rebuild_requested
  phase,     \* idle, compiling, complete, failed
  process,   \* rebuild_process: where it is, what it read, its unread output
  dll,       \* the module file: whether it exists, its write time, its contents
  module,    \* HotReloadState::dll: write time and contents; time 0: none
  valid,     \* runtime_valid
  active,    \* active_storage
  storage,   \* the module that created the runtime in each storage, 0: none
  copies,    \* loaded copies of the module, by write time
  missed     \* (history) files with an edit that no build was asked to read

watchVars   == <<seen, missed>>
rebuildVars == <<running, requested, phase>>
moduleVars  == <<module, valid, active, storage, copies>>
vars == <<host, disk, watchVars, rebuildVars, process, dll, moduleVars>>

Unread == -1
NoContents == [f \in Files |-> 0]
NoModule == [time |-> 0, files |-> NoContents]
NothingRead == [f \in Files |-> Unread]
NoProcess == [at |-> "none", read |-> NothingRead, output |-> 0]

\* HotReloadState as init_hot_reload_module leaves it.  The module file may
\* be absent, or built from sources that changed since.
Init ==
  /\ host = "unloaded" /\ disk = [f \in Files |-> 1]
  /\ seen = NoContents /\ missed = {}
  /\ running = FALSE /\ requested = FALSE /\ phase = "idle"
  /\ process = NoProcess
  /\ \E e \in BOOLEAN, c \in [Files -> 0..1] : dll = [exists |-> e, time |-> 1, files |-> c]
  /\ module = NoModule /\ valid = FALSE /\ active = 0
  /\ storage = [s \in {0, 1} |-> 0] /\ copies = {}

Differs(a, b) == {f \in Files : a[f] # b[f]}

-----------------------------------------------------------------------------
(* Calls the entry points are made of *)

\* start_rebuild, no build running: the process is created.  It reads every
\* file anew, what was missed before included.
StartRebuild ==
  /\ running' = TRUE /\ requested' = FALSE /\ phase' = "compiling"
  /\ process' = [at |-> "working", read |-> NothingRead, output |-> 0]
  /\ missed' = {}

\* start_rebuild, no build running: the pipes or the process are refused.
StartRebuildFails ==
  /\ phase' = "failed" /\ UNCHANGED <<running, requested, process, missed>>

\* Mutant: the runtime of the old module is not destroyed.
BadActivate ==
  /\ module' = [time |-> dll.time, files |-> dll.files]
  /\ valid' = TRUE /\ active' = 1 - active
  /\ storage' = [storage EXCEPT ![1 - active] = dll.time]
  /\ copies' = (copies \ {module.time}) \cup {dll.time}

\* load_module_dll, activate_module: a copy is loaded and creates its runtime
\* in the other storage; the old runtime is destroyed, its copy unloaded.
Activate ==
  /\ module' = [time |-> dll.time, files |-> dll.files]
  /\ valid' = TRUE /\ active' = 1 - active
  /\ storage' = [storage EXCEPT ![1 - active] = dll.time,
                               ![active] = IF valid THEN 0 ELSE @]
  /\ copies' = (copies \ {module.time}) \cup {dll.time}

\* reload_module finds the file, and it is not the one that is loaded.
ModuleIsNew == dll.exists /\ ~(valid /\ dll.time = module.time)

\* unload_module_dll for a copy that was loaded and refused (export, version,
\* create): nothing stays of it.
Refuse == UNCHANGED moduleVars

\* finish_rebuild, the process ended: its exit code is not 0.
BuildFailed == phase' = "failed" /\ UNCHANGED watchVars

\* finish_rebuild, the process ended with 0: refresh_watched_files forgets
\* what was edited since the last poll, read by the build or not.
BuildFinished ==
  /\ seen' = disk
  /\ missed' = Differs(process.read, disk) \cap Differs(seen, disk)

\* close_rebuild_process
CloseProcess == running' = FALSE /\ process' = NoProcess

Ended == process.at \in {"built", "broken"}

\* read_rebuild_output while the process works.
Drain == process' = [process EXCEPT !.output = 0]

-----------------------------------------------------------------------------
(* load_hot_reload_module *)

LoadExisting ==
  /\ host = "unloaded" /\ dll.exists
  /\ seen' = disk /\ Activate
  /\ missed' = Differs(dll.files, disk)
  /\ host' = "frame"
  /\ UNCHANGED <<disk, rebuildVars, process, dll>>

\* The file is missing or refused: rebuild_module_now.
LoadBuilds ==
  /\ host = "unloaded"
  /\ seen' = disk /\ Refuse
  /\ \/ StartRebuild /\ host' = "loading"
     \/ StartRebuildFails /\ host' = "stopped"
  /\ UNCHANGED <<disk, dll>>

LoadWaits ==
  /\ host = "loading" /\ ~Ended /\ Drain
  /\ UNCHANGED <<host, disk, watchVars, rebuildVars, dll, moduleVars>>

\* finish_rebuild at the end of rebuild_module_now.
LoadFinishes ==
  /\ host = "loading" /\ Ended /\ CloseProcess
  /\ \/ /\ process.at = "broken" /\ BuildFailed /\ Refuse /\ host' = "stopped"
     \/ /\ process.at = "built" /\ BuildFinished
        /\ \/ ModuleIsNew /\ Activate /\ phase' = "complete" /\ host' = "frame"
           \/ Refuse /\ phase' = "failed" /\ host' = "stopped"
  /\ UNCHANGED <<disk, requested, dll>>

-----------------------------------------------------------------------------
(* update_hot_reload_module *)

\* Mutant: the output of the build is not read before it ends.
BadUpdateWaits ==
  /\ host = "frame" /\ (running => ~Ended)
  /\ host' = "polling"
  /\ UNCHANGED <<disk, watchVars, rebuildVars, process, dll, moduleVars>>

UpdateWaits ==
  /\ host = "frame" /\ host' = "polling"
  /\ IF running THEN ~Ended /\ Drain ELSE UNCHANGED process
  /\ UNCHANGED <<disk, watchVars, rebuildVars, dll, moduleVars>>

UpdateFails ==
  /\ host = "frame" /\ running /\ process.at = "broken"
  /\ CloseProcess /\ BuildFailed
  /\ host' = "polling"
  /\ UNCHANGED <<disk, requested, dll, moduleVars>>

UpdateReloads ==
  /\ host = "frame" /\ running /\ process.at = "built"
  /\ CloseProcess /\ BuildFinished
  /\ \/ ModuleIsNew /\ Activate /\ phase' = "complete"
     \/ Refuse /\ phase' = "failed"
  /\ host' = "polling"
  /\ UNCHANGED <<disk, requested, dll>>

\* Mutant: a change seen during a build is not remembered.
BadPollRequests ==
  /\ host = "polling" /\ running /\ seen # disk
  /\ seen' = disk
  /\ host' = "frame"
  /\ UNCHANGED <<disk, missed, rebuildVars, process, dll, moduleVars>>

\* watched_files_changed while a build runs: start_rebuild asks for another.
PollRequests ==
  /\ host = "polling" /\ running /\ seen # disk
  /\ seen' = disk /\ requested' = TRUE
  /\ host' = "frame"
  /\ UNCHANGED <<disk, missed, running, phase, process, dll, moduleVars>>

\* A change, or the request: one or two calls of start_rebuild.
PollRebuilds ==
  /\ host = "polling" /\ ~running /\ (seen # disk \/ requested)
  /\ seen' = disk
  /\ StartRebuild \/ StartRebuildFails
  /\ host' = "frame"
  /\ UNCHANGED <<disk, dll, moduleVars>>

PollSeesNothing ==
  /\ host = "polling" /\ seen = disk /\ (running \/ ~requested)
  /\ host' = "frame"
  /\ UNCHANGED <<disk, watchVars, rebuildVars, process, dll, moduleVars>>

-----------------------------------------------------------------------------
(* destroy_hot_reload_module *)

Destroy ==
  /\ host = "frame" /\ host' = "closing"
  /\ UNCHANGED <<disk, watchVars, rebuildVars, process, dll, moduleVars>>

DestroyWaits ==
  /\ host = "closing" /\ running /\ ~Ended /\ Drain
  /\ UNCHANGED <<host, disk, watchVars, rebuildVars, dll, moduleVars>>

\* The host leaves its loop, or loads again for another folder.
DestroyFinishes ==
  /\ host = "closing" /\ (running => Ended)
  /\ CloseProcess
  /\ storage' = [storage EXCEPT ![active] = IF valid THEN 0 ELSE @]
  /\ valid' = FALSE /\ module' = NoModule /\ copies' = copies \ {module.time}
  /\ host' \in {"unloaded", "stopped"}
  /\ UNCHANGED <<disk, watchVars, requested, phase, dll, active>>

-----------------------------------------------------------------------------
(* The build process and the sources *)

Prints == process.output < PipeSize

BuildReads(f) ==
  /\ process.at = "working" /\ process.read[f] = Unread /\ Prints
  /\ process' = [process EXCEPT !.read[f] = disk[f], !.output = @ + 1]
  /\ UNCHANGED <<host, disk, watchVars, rebuildVars, dll, moduleVars>>

\* The module is linked unless it is up to date.
BuildSucceeds ==
  /\ process.at = "working" /\ Unread \notin {process.read[f] : f \in Files} /\ Prints
  /\ process' = [process EXCEPT !.at = "built", !.output = @ + 1]
  /\ dll' = IF dll.exists /\ dll.files = process.read THEN dll
            ELSE [exists |-> TRUE, time |-> dll.time + 1, files |-> process.read]
  /\ UNCHANGED <<host, disk, watchVars, rebuildVars, moduleVars>>

\* A link that fails may leave no module behind.
BuildBreaks ==
  /\ process.at = "working" /\ Prints
  /\ process' = [process EXCEPT !.at = "broken", !.output = @ + 1]
  /\ \E e \in BOOLEAN : dll' = [dll EXCEPT !.exists = @ /\ e]
  /\ UNCHANGED <<host, disk, watchVars, rebuildVars, moduleVars>>

Edit(f) ==
  /\ host # "stopped" /\ disk[f] < LastVersion
  /\ disk' = [disk EXCEPT ![f] = @ + 1]
  /\ UNCHANGED <<host, watchVars, rebuildVars, process, dll, moduleVars>>

-----------------------------------------------------------------------------
Load == LoadExisting \/ LoadBuilds \/ LoadWaits \/ LoadFinishes

Update == UpdateWaits \/ UpdateFails \/ UpdateReloads
          \/ PollRequests \/ PollRebuilds \/ PollSeesNothing

Close == DestroyWaits \/ DestroyFinishes

Build == (\E f \in Files : BuildReads(f)) \/ BuildSucceeds \/ BuildBreaks

Next == Load \/ Update \/ Destroy \/ Close \/ Build \/ (\E f \in Files : Edit(f))

Spec == Init /\ [][Next]_vars

\* The loop of the host turns, waits end when the process does, and the
\* process runs as long as its output is read.
Fairness == WF_vars(Load) /\ WF_vars(Update) /\ WF_vars(Close) /\ WF_vars(Build)

FairSpec == Spec /\ Fairness

-----------------------------------------------------------------------------
Versions == [Files -> Nat]

TypeOK ==
  /\ host \in {"unloaded", "loading", "frame", "polling", "closing", "stopped"}
  /\ disk \in Versions /\ seen \in Versions /\ missed \subseteq Files
  /\ running \in BOOLEAN /\ requested \in BOOLEAN
  /\ phase \in {"idle", "compiling", "complete", "failed"}
  /\ process \in [at: {"none", "working", "built", "broken"},
                  read: [Files -> Nat \cup {Unread}], output: 0..PipeSize]
  /\ dll \in [exists: BOOLEAN, time: Nat, files: Versions]
  /\ module \in [time: Nat, files: Versions]
  /\ valid \in BOOLEAN /\ active \in {0, 1}
  /\ storage \in [{0, 1} -> Nat] /\ copies \subseteq Nat

InLoop == host \in {"frame", "polling"}

\* What render_frame is called with is always a live runtime of a module
\* that is loaded, whatever failed before; no other runtime exists and no
\* other copy stays loaded (activate_module, unload_module_dll).
RuntimeIsAlive ==
  /\ InLoop => valid
  /\ copies = IF valid THEN {module.time} ELSE {}
  /\ \A s \in {0, 1} : storage[s] = IF valid /\ s = active THEN module.time ELSE 0

\* A build that runs or is asked for will read the file as it is now, or the
\* next poll sees that it changed.
WillBeBuilt(f) ==
  \/ seen[f] # disk[f]
  \/ requested
  \/ running /\ (process.read[f] \in {Unread, disk[f]} \/ process.at = "broken")

\* The handle of a process is held while one runs; outside load, update and
\* destroy nothing runs and no runtime is left.
ProcessIsTracked ==
  /\ running <=> process.at # "none"
  /\ host = "loading" => running /\ ~valid
  /\ host \in {"unloaded", "stopped"} => ~running /\ ~valid

\* A build that succeeded left a module of what it read.
BuiltIsLinked ==
  process.at = "built" => dll.exists /\ dll.files = process.read

\* An edit behind the reads of the build is seen by the next poll, or was
\* seen by one and another build asked for.
LateEditIsNoticed ==
  \A f \in Files :
    /\ seen[f] <= disk[f]
    /\ running /\ process.read[f] \notin {Unread, disk[f]}
         => seen[f] # disk[f] \/ requested

\* While the host runs, each source is in the module it shows, or on its way
\* into it, or the status tells of a failure; but for the edits in missed.
NoEditIsForgotten ==
  InLoop => \A f \in Files :
    \/ module.files[f] = disk[f] \/ WillBeBuilt(f)
    \/ phase = "failed" \/ f \in missed

\* "reload app/UI DLL modules after source changes" (README.md:37): when a
\* reload completed and nothing is left to do, the module is the sources.
CompleteIsCurrent ==
  (host = "frame" /\ phase = "complete" /\ ~running /\ ~requested /\ seen = disk)
    => module.files = disk

\* A source that differs from the module shown is built into it in the end,
\* or a failure is shown, or the host leaves its loop.
EditIsReloaded ==
  \A f \in Files :
    (InLoop /\ module.files[f] # disk[f])
      ~> (module.files[f] = disk[f] \/ phase = "failed" \/ f \in missed \/ ~InLoop)

\* The waits of rebuild_module_now and destroy end: the build is not blocked
\* on output that nobody reads.
WaitEnds == (host \in {"loading", "closing"}) ~> (host \notin {"loading", "closing"})
=============================================================================
