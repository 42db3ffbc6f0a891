---------------------------- MODULE TreeRefresh ----------------------------
(***************************************************************************)
(* examples/code_editor/host.cpp: the file tree of the code editor.  The   *)
(* host thread shows a tree and edits it in place for its own operations;  *)
(* a worker thread reads the directory into the one of two arenas that     *)
(* does not hold the tree; a directory watcher tells the host of changes,  *)
(* its own included.  The threads talk through four base/spsc_queue.h,     *)
(* which SpscQueue shows to be first-in first-out.                         *)
(*                                                                         *)
(* The tree and the directory are sets of changes: a change is in disk     *)
(* once it was made and in tree once the tree shows it.  Each change is    *)
(* made at most once, which bounds the model.  Requests and results for    *)
(* git are counted; what they carry is left out.                           *)
(***************************************************************************)
EXTENDS Integers, Sequences

CONSTANTS
  Ops,        \* changes the user makes in the tree of the editor
  External,   \* changes another program makes, or an operation that fails
              \* half-way: the host hears of them from the watcher alone
  Writes,     \* changes to the contents of a file, which move no tree entry
  TreeQueue,  \* TREE_FETCH_QUEUE_CAPACITY
  GitQueue,   \* GIT_WORK_QUEUE_CAPACITY
  MaxGit      \* bound: requests the user makes of git

TreeChanges == Ops \cup External
Changes == TreeChanges \cup Writes

ASSUME ChangesAreDisjoint == Ops \cap External = {} /\ TreeChanges \cap Writes = {}
ASSUME QueueAssumption == TreeQueue \in Nat \ {0} /\ GitQueue \in Nat \ {0}
ASSUME BoundAssumption == MaxGit \in Nat

VARIABLES
  host,         \* running, joining (in destroy_background_worker), stopped
  stop,         \* stop_requested
  disk,         \* the directory
  tree,         \* tree_files
  index,        \* tree_arena_index
  contents,     \* the tree each of tree_arenas holds, or none
  fetch,        \* tree_fetch_pending, tree_fetch_refresh_requested,
                \* tree_loading, tree_fetch_generation
  requests,     \* worker.requests
  results,      \* worker.results
  worker,       \* the thread: where it is and the request it serves
  watching,     \* the watcher has a read pending
  unseen,       \* changes the watcher has not reported yet
  changed,      \* reported changes; tree_change_pending: there are some
  ticks,        \* file_change_ticks: none, recent, settled
  ignoring,     \* now <= ignore_tree_change_ticks
  git,          \* number of git_requests, git_results, and requests to come
  discarded     \* (history) external changes whose report was thrown away

treeVars  == <<disk, tree, index, contents>>
fetchVars == <<fetch, requests>>
watchVars == <<watching, unseen, changed, ticks, ignoring>>
lifeVars  == <<host, stop>>
vars == <<treeVars, fetchVars, results, worker, watchVars, git, discarded, lifeVars>>

NoTree == {}
Holds(files) == {files}

Idle == [pc |-> "poll", arena |-> 0, gen |-> 0, files |-> {}, ok |-> FALSE]

\* prepare_launch, start_workspace: an empty tree in arena 0, the watcher
\* open if it can be, and the initial request_launch_tree_refresh queued.
FirstContents == [a \in 0..1 |-> IF a = 0 THEN Holds({}) ELSE NoTree]
FirstFetch == [pending |-> TRUE, again |-> FALSE, loading |-> TRUE, gen |-> 1]
FirstRequests == <<[gen |-> 1, arena |-> 1]>>
NoGit == [requests |-> 0, results |-> 0, left |-> MaxGit]

Init ==
  /\ host = "running" /\ stop = FALSE
  /\ disk = {} /\ tree = {} /\ index = 0 /\ contents = FirstContents
  /\ fetch = FirstFetch /\ requests = FirstRequests /\ results = <<>>
  /\ worker = Idle
  /\ watching \in BOOLEAN /\ unseen = {} /\ changed = {} /\ ticks = "none" /\ ignoring = FALSE
  /\ git = NoGit /\ discarded = {}

-----------------------------------------------------------------------------
(* The host *)

\* Mutant: the arena that holds the tree is the one that is read into.
BadRequestRefresh(f, at, mem) ==
  IF f.pending
    THEN /\ fetch' = [f EXCEPT !.again = TRUE, !.loading = TRUE]
         /\ contents' = mem /\ UNCHANGED requests
    ELSE /\ contents' = [mem EXCEPT ![at] = NoTree]
         /\ requests' = Append(requests, [gen |-> f.gen + 1, arena |-> at])
         /\ fetch' = [f EXCEPT !.pending = TRUE, !.loading = TRUE, !.gen = @ + 1]

\* request_launch_tree_refresh with fetch fields f, tree_arena_index at and
\* arenas mem.
RequestRefresh(f, at, mem) ==
  IF f.pending
    THEN /\ fetch' = [f EXCEPT !.again = TRUE, !.loading = TRUE]
         /\ contents' = mem /\ UNCHANGED requests
    ELSE /\ contents' = [mem EXCEPT ![1 - at] = NoTree]
         /\ IF Len(requests) < TreeQueue
              THEN /\ requests' = Append(requests, [gen |-> f.gen + 1, arena |-> 1 - at])
                   /\ fetch' = [f EXCEPT !.pending = TRUE, !.loading = TRUE, !.gen = @ + 1]
              ELSE /\ fetch' = [f EXCEPT !.loading = FALSE]
                   /\ UNCHANGED requests

\* insert_, remove_, rename_launch_tree_path succeed, and
\* mark_launch_tree_changed_from_operation: reports that came and did not
\* settle are forgotten, and those that come now are ignored for a while.
OpInPlace(c) ==
  /\ tree' = tree \cup {c}
  /\ contents' = [contents EXCEPT ![index] = Holds(tree')]
  /\ ticks' = "none" /\ changed' = {} /\ ignoring' = TRUE
  /\ fetch' = [fetch EXCEPT !.again = @ \/ fetch.pending]
  /\ discarded' = discarded \cup (changed \cap External)
  /\ UNCHANGED <<index, requests>>

\* The tree has no place for the change: refresh_launch_tree.
OpRefreshes(c) ==
  /\ RequestRefresh(fetch, index, contents)
  /\ UNCHANGED <<tree, index, ticks, changed, ignoring, discarded>>

\* process_tree_operation_request, an operation that changes the directory.
TreeOperation(c) ==
  /\ host = "running" /\ c \in Ops \ disk
  /\ disk' = disk \cup {c}
  /\ unseen' = IF watching THEN unseen \cup {c} ELSE unseen
  /\ OpInPlace(c) \/ OpRefreshes(c)
  /\ UNCHANGED <<results, worker, watching, git, lifeVars>>

\* Mutant: the refresh asked for during the fetch is forgotten.
BadSync ==
  /\ host = "running" /\ results # <<>>
  /\ results' = Tail(results)
  /\ LET r == Head(results)
     IN  IF r.ok
           THEN tree' = r.files /\ index' = r.arena
                /\ contents' = [contents EXCEPT ![index] = NoTree]
                /\ UNCHANGED discarded
           ELSE discarded' = discarded \cup (r.files \ tree)
                /\ UNCHANGED <<tree, index, contents>>
  /\ fetch' = [fetch EXCEPT !.pending = FALSE, !.again = FALSE, !.loading = FALSE]
  /\ UNCHANGED <<disk, requests, worker, watchVars, git, lifeVars>>

\* sync_launch_tree_fetch_results, one result.
Sync ==
  /\ host = "running" /\ results # <<>>
  /\ results' = Tail(results)
  /\ LET r == Head(results)
         f == [fetch EXCEPT !.pending = FALSE, !.again = FALSE]
         at == IF r.ok THEN r.arena ELSE index
         m == IF r.ok THEN [contents EXCEPT ![index] = NoTree] ELSE contents
     IN  IF r.gen # fetch.gen
           THEN UNCHANGED <<tree, index, contents, fetchVars, discarded>>
           ELSE /\ tree' = IF r.ok THEN r.files ELSE tree
                /\ index' = at
                /\ discarded' = IF r.ok \/ fetch.again THEN discarded
                                ELSE discarded \cup (r.files \ tree)
                /\ IF fetch.again
                     THEN RequestRefresh(f, at, m)
                     ELSE /\ fetch' = [f EXCEPT !.loading = FALSE]
                          /\ contents' = m /\ UNCHANGED requests
  /\ UNCHANGED <<disk, worker, watchVars, git, lifeVars>>

\* process_launch_file_changes when the watcher has a report: some changes,
\* and another read is started, or cannot be.
ConsumeChange ==
  /\ host = "running" /\ watching /\ unseen # {}
  /\ \E report \in SUBSET unseen \ {{}}, restarted \in BOOLEAN :
       /\ watching' = restarted
       /\ unseen' = IF restarted THEN unseen \ report ELSE {}
       /\ changed' = IF ignoring THEN changed ELSE changed \cup (report \ Writes)
       /\ discarded' = discarded \cup (External \cap
            ((IF ignoring THEN report ELSE {}) \cup (IF restarted THEN {} ELSE unseen \ report)))
  /\ ticks' = "recent"
  /\ UNCHANGED <<treeVars, fetchVars, results, worker, ignoring, git, lifeVars>>

\* Mutant: the tree is not refreshed while it is loading.
BadSettleChange ==
  /\ host = "running" /\ ticks = "settled"
  /\ ticks' = "none" /\ changed' = {}
  /\ IF changed # {} /\ ~fetch.loading
       THEN RequestRefresh(fetch, index, contents)
       ELSE UNCHANGED <<contents, fetchVars>>
  /\ UNCHANGED <<disk, tree, index, results, worker, watching, unseen, ignoring, git,
                 discarded, lifeVars>>

\* process_launch_file_changes when the last report is old enough.
SettleChange ==
  /\ host = "running" /\ ticks = "settled"
  /\ ticks' = "none" /\ changed' = {}
  /\ IF changed # {}
       THEN RequestRefresh(fetch, index, contents)
       ELSE UNCHANGED <<contents, fetchVars>>
  /\ UNCHANGED <<disk, tree, index, results, worker, watching, unseen, ignoring, git,
                 discarded, lifeVars>>

\* HOT_RELOAD_POLL_MS, TREE_OPERATION_WATCHER_IGNORE_MS pass.
Debounced == /\ ticks = "recent" /\ ticks' = "settled"
             /\ UNCHANGED <<treeVars, fetchVars, results, worker, watching, unseen, changed,
                            ignoring, git, discarded, lifeVars>>
IgnoreEnds == /\ ignoring /\ ignoring' = FALSE
              /\ UNCHANGED <<treeVars, fetchVars, results, worker, watching, unseen, changed,
                             ticks, git, discarded, lifeVars>>

\* submit_git_worker_requests, sync_git_worker_results in a frame.
SubmitGit == /\ host = "running" /\ git.left > 0 /\ git.requests < GitQueue
             /\ git' = [git EXCEPT !.requests = @ + 1, !.left = @ - 1]
             /\ UNCHANGED <<treeVars, fetchVars, results, worker, watchVars, discarded, lifeVars>>
SyncGit   == /\ host = "running" /\ git.results > 0
             /\ git' = [git EXCEPT !.results = @ - 1]
             /\ UNCHANGED <<treeVars, fetchVars, results, worker, watchVars, discarded, lifeVars>>

\* destroy_background_worker: stop_requested, then a wait for the thread.
Stop == /\ host = "running"
        /\ stop' = TRUE /\ host' = "joining"
        /\ UNCHANGED <<treeVars, fetchVars, results, worker, watchVars, git, discarded>>

\* restart_workspace after the wait: another folder, everything anew.
Restart ==
  /\ host = "joining" /\ worker.pc = "exited"
  /\ host' = "running" /\ stop' = FALSE
  /\ disk' = {} /\ tree' = {} /\ index' = 0 /\ contents' = FirstContents
  /\ fetch' = FirstFetch /\ requests' = FirstRequests /\ results' = <<>>
  /\ worker' = Idle
  /\ watching' \in BOOLEAN /\ unseen' = {} /\ changed' = {} /\ ticks' = "none" /\ ignoring' = FALSE
  /\ git' = NoGit /\ discarded' = {}

\* The end of run_windowed: the arenas go.
Quit == /\ host = "joining" /\ worker.pc = "exited"
        /\ host' = "stopped"
        /\ requests' = <<>> /\ results' = <<>>
        /\ contents' = [a \in 0..1 |-> NoTree]
        /\ git' = [git EXCEPT !.requests = 0, !.results = 0]
        /\ UNCHANGED <<disk, tree, index, fetch, worker, watchVars, discarded, stop>>

-----------------------------------------------------------------------------
(* Other programs *)

ExternalChange(c) ==
  /\ host = "running" /\ c \in (External \cup Writes) \ disk
  /\ disk' = disk \cup {c}
  /\ unseen' = IF watching THEN unseen \cup {c} ELSE unseen
  /\ discarded' = IF watching THEN discarded ELSE discarded \cup ({c} \cap External)
  /\ UNCHANGED <<tree, index, contents, fetchVars, results, worker, watching, changed, ticks,
                 ignoring, git, lifeVars>>

-----------------------------------------------------------------------------
(* background_worker_thread *)

WorkerExit ==
  /\ worker.pc = "poll" /\ stop
  /\ worker' = [worker EXCEPT !.pc = "exited"]
  /\ UNCHANGED <<treeVars, fetchVars, results, watchVars, git, discarded, lifeVars>>

\* Requests of git come first.
WorkerTakesGit ==
  /\ worker.pc = "poll" /\ ~stop /\ git.requests > 0
  /\ git' = [git EXCEPT !.requests = @ - 1]
  /\ worker' = [worker EXCEPT !.pc = "git"]
  /\ UNCHANGED <<treeVars, fetchVars, results, watchVars, discarded, lifeVars>>

WorkerTakesFetch ==
  /\ worker.pc = "poll" /\ ~stop /\ git.requests = 0 /\ requests # <<>>
  /\ requests' = Tail(requests)
  /\ worker' = [pc |-> "reading", arena |-> Head(requests).arena, gen |-> Head(requests).gen,
                files |-> disk \ Writes, ok |-> FALSE]
  /\ UNCHANGED <<treeVars, fetch, results, watchVars, git, discarded, lifeVars>>

\* read_directory_files walks the directory: what was there when it started
\* is read, what was made since may be.  Or it fails.
WorkerReads ==
  /\ worker.pc = "reading"
  /\ \/ \E files \in SUBSET (disk \ Writes) :
          /\ worker.files \subseteq files
          /\ contents' = [contents EXCEPT ![worker.arena] = Holds(files)]
          /\ worker' = [worker EXCEPT !.pc = "push", !.files = files, !.ok = TRUE]
     \/ worker' = [worker EXCEPT !.pc = "push"] /\ UNCHANGED contents
  /\ UNCHANGED <<disk, tree, index, fetchVars, results, watchVars, git, discarded, lifeVars>>

\* The result is pushed, or dropped when the thread has to stop; a tree that
\* was read is followed by a refresh of git.
WorkerPushes ==
  /\ worker.pc = "push"
  /\ \/ /\ ~stop /\ Len(results) < TreeQueue
        /\ results' = Append(results, [gen |-> worker.gen, arena |-> worker.arena,
                                       files |-> worker.files, ok |-> worker.ok])
     \/ stop /\ UNCHANGED results
  /\ worker' = IF worker.ok THEN [worker EXCEPT !.pc = "git"] ELSE Idle
  /\ UNCHANGED <<treeVars, fetchVars, watchVars, git, discarded, lifeVars>>

\* Mutant: the loop around push does not look at stop_requested.
BadWorkerPushesGit ==
  /\ worker.pc = "git"
  /\ git.results < GitQueue
  /\ git' = [git EXCEPT !.results = @ + 1]
  /\ worker' = Idle
  /\ UNCHANGED <<treeVars, fetchVars, results, watchVars, discarded, lifeVars>>

\* execute_git_work ends and its result is pushed, or dropped.
WorkerPushesGit ==
  /\ worker.pc = "git"
  /\ \/ ~stop /\ git.results < GitQueue /\ git' = [git EXCEPT !.results = @ + 1]
     \/ stop /\ UNCHANGED git
  /\ worker' = Idle
  /\ UNCHANGED <<treeVars, fetchVars, results, watchVars, discarded, lifeVars>>

-----------------------------------------------------------------------------
HostHandlers == Sync \/ ConsumeChange \/ SettleChange \/ SyncGit
Host == HostHandlers \/ SubmitGit \/ Stop \/ Restart \/ Quit \/ \E c \in Ops : TreeOperation(c)
Clock == Debounced \/ IgnoreEnds
Worker == \/ WorkerExit \/ WorkerTakesGit \/ WorkerTakesFetch
          \/ WorkerReads \/ WorkerPushes \/ WorkerPushesGit
Others == \E c \in External \cup Writes : ExternalChange(c)

Next == Host \/ Clock \/ Worker \/ Others

SafeSpec == Init /\ [][Next]_vars

\* The main loop runs each handler in every turn, it waits 250 ms at most,
\* time passes, and the worker thread is scheduled: directories and git
\* commands end.
Fairness == /\ WF_vars(Sync) /\ WF_vars(ConsumeChange) /\ WF_vars(SettleChange)
            /\ WF_vars(SyncGit) /\ WF_vars(Restart \/ Quit)
            /\ WF_vars(Debounced) /\ WF_vars(IgnoreEnds) /\ WF_vars(Worker)

Spec == SafeSpec /\ Fairness

-----------------------------------------------------------------------------
(* Properties *)

FetchRequest == [gen : Nat, arena : 0..1]
FetchResult  == [gen : Nat, arena : 0..1, files : SUBSET TreeChanges, ok : BOOLEAN]

\* Every variable has its type; the counts of git stay within the queue.
TypeOK ==
  /\ host \in {"running", "joining", "stopped"} /\ stop \in BOOLEAN
  /\ disk \in SUBSET Changes /\ tree \in SUBSET TreeChanges /\ index \in 0..1
  /\ contents \in [0..1 -> SUBSET SUBSET TreeChanges]
  /\ fetch \in [pending : BOOLEAN, again : BOOLEAN, loading : BOOLEAN, gen : Nat]
  /\ requests \in Seq(FetchRequest) /\ results \in Seq(FetchResult)
  /\ worker \in [pc : {"poll", "reading", "push", "git", "exited"}, arena : 0..1, gen : Nat,
                 files : SUBSET TreeChanges, ok : BOOLEAN]
  /\ watching \in BOOLEAN /\ unseen \in SUBSET Changes /\ changed \in SUBSET TreeChanges
  /\ ticks \in {"none", "recent", "settled"} /\ ignoring \in BOOLEAN
  /\ git \in [requests : 0..GitQueue, results : 0..GitQueue, left : 0..MaxGit]
  /\ discarded \in SUBSET TreeChanges

\* The worker has a tree request in its hands.
Serving == worker.pc \in {"reading", "push"}

\* At most one fetch is outstanding: a request, in the hands of the worker,
\* or a result, of the current generation, and only while the host knows.
OneFetch ==
  host = "running" =>
    /\ Len(requests) + (IF Serving THEN 1 ELSE 0) + Len(results) = IF fetch.pending THEN 1 ELSE 0
    /\ \A i \in DOMAIN requests : requests[i].gen = fetch.gen
    /\ \A i \in DOMAIN results : results[i].gen = fetch.gen
    /\ Serving => worker.gen = fetch.gen

\* The arena that holds the tree is left alone by the worker and holds the
\* tree; a result that was read is still there when the host takes it.
TreeIsIntact ==
  host # "stopped" =>
    /\ contents[index] = Holds(tree)
    /\ Serving => worker.arena # index
    /\ worker.pc = "push" /\ worker.ok => contents[worker.arena] = Holds(worker.files)
    /\ \A i \in DOMAIN requests : requests[i].arena # index
    /\ \A i \in DOMAIN results :
         /\ results[i].arena # index
         /\ results[i].ok => contents[results[i].arena] = Holds(results[i].files)

\* The outstanding fetch shows change c: it has not started, or it started
\* after c was made, or c was met on the way.
Covers(c) == \/ requests # <<>>
             \/ Serving /\ c \in worker.files
             \/ \E i \in DOMAIN results : c \in results[i].files

\* A change is in the tree, or a fetch that shows it is outstanding or will
\* be asked for, or the watcher has yet to report it, or its report was
\* thrown away; an operation of the editor does not depend on the watcher.
NothingIsForgotten ==
  host = "running" =>
    \A c \in disk \ Writes :
      \/ IF fetch.pending THEN fetch.again \/ Covers(c) ELSE c \in tree
      \/ c \in discarded
      \/ c \in External \cap (unseen \cup changed)

\* What makes these invariants inductive: the thread exits and results are
\* dropped only after stop_requested, nothing more than one fetch is ever in
\* the queues, another is wanted only while one is pending.
Protocol ==
  /\ stop = (host # "running")
  /\ worker.pc = "exited" => stop
  /\ worker.pc = "reading" => ~worker.ok
  /\ Len(requests) + (IF Serving THEN 1 ELSE 0) + Len(results) <= 1
  /\ host = "running" /\ fetch.again => fetch.pending

Inv == TypeOK /\ Protocol /\ OneFetch /\ TreeIsIntact /\ NothingIsForgotten

\* A change in the directory is shown in the end, unless its report was
\* thrown away or the workspace is closed.
EventuallyShown ==
  \A c \in TreeChanges :
    c \in disk ~> c \in tree \/ c \in discarded \/ host # "running"

\* What the user waits for comes to an end: the tree does not stay in its loading
\* state, and the worker never keeps the host waiting when a workspace is closed.
WaitsEnd ==
  /\ fetch.loading ~> ~fetch.loading \/ host # "running"
  /\ host = "joining" ~> host # "joining"
=============================================================================
