------------------------------- MODULE GitClient -------------------------------
(***************************************************************************)
(* The Git sidebar of the code editor and the worker that runs git for it  *)
(* (app.cpp, editor_model.cpp, host.cpp).  A frame takes the results the   *)
(* worker has left (sync_git_worker_results), handles the keys, queues at  *)
(* most one request (submit_git_worker_requests) and draws the buttons.    *)
(* What the user asks for waits in one slot, git_request.  The worker      *)
(* serves the queue in order; after every read of the directory it also    *)
(* pushes the result of a refresh nobody asked for.                        *)
(*                                                                         *)
(* A path is clean, changed or staged.  A commit is a number, and the log  *)
(* is the commits from the newest to 1.  COMMIT stands for the operations  *)
(* that move the log, STAGE_ALL for those that only move the status, DIFF  *)
(* for those that change nothing.  Branches, the graph's layout, selection *)
(* and texts are left out; the repository exists (git_root_ready), and an  *)
(* error, once shown, is not dismissed.                                    *)
(***************************************************************************)
EXTENDS Naturals, Sequences, FiniteSets, SequencesExt, FiniteSetsExt

CONSTANTS Paths,         \* files of the repository
          EmptyCommits,  \* commits without a changed file
          FirstLog,      \* commits there are at first
          FirstStatus,   \* what a file may be at first
          Limit, Page,   \* commits of a first read, and of one more page
          GitQueue,      \* room in the two queues
          MaxSteps       \* bound: what the user and other programs do, and failures

VARIABLES ed,        \* the Git part of EditorState
          phase,     \* where the frame is: "sync" or "input"
          requests,  \* git_requests
          results,   \* git_results
          worker,    \* "idle", or "tree" while it reads the directory
          tree,      \* a read of the directory is queued for the worker
          loadLog,   \* not git_log_prefetched
          repo,      \* [status, log] of the repository
          steps      \* acts of the user and of other programs, and failed commands

vars == <<ed, phase, requests, results, worker, tree, loadLog, repo, steps>>

Status == {"clean", "changed", "staged"}
Actions == {"STAGE", "UNSTAGE", "STAGE_ALL", "COMMIT", "DIFF"}
PathActions == {"STAGE", "UNSTAGE"}
None == [kind |-> "NONE"]

Slots == {None, [kind |-> "REFRESH"]} \cup [kind : Actions \ PathActions]
             \cup [kind : PathActions, path : Paths]
Log(n) == [i \in 1..n |-> n + 1 - i]
Clean == [p \in Paths |-> "clean"]

\* the sidebar and the graph are as the last session left them
Init ==
    /\ \E sidebar, graph \in BOOLEAN :
         ed = [sidebar |-> sidebar, graph |-> graph, slot |-> None, pending |-> FALSE,
               kind |-> "NONE", refresh |-> sidebar, logAsked |-> sidebar /\ graph,
               status |-> Clean, commits |-> <<>>, more |-> FALSE, loading |-> FALSE,
               wantMore |-> FALSE, gen |-> 0, open |-> {}, files |-> {}, error |-> FALSE]
    /\ phase = "sync"
    /\ requests = <<>> /\ results = <<>>
    /\ worker = "idle" /\ tree = TRUE /\ loadLog = TRUE
    /\ repo \in [status : [Paths -> FirstStatus], log : {FirstLog}]
    /\ steps = 0

(***************************************************************************)
(* Results                                                                 *)
(***************************************************************************)
NotPending(e) == [e EXCEPT !.pending = FALSE, !.kind = "NONE"]

\* pops the sentinel that tells whether the log goes on
Trimmed(e, all) ==
    [e EXCEPT !.commits = SubSeq(all, 1, IF Len(all) > Limit THEN Len(all) - 1 ELSE Len(all)),
              !.more = Len(all) > Limit, !.files = {}, !.open = {}]

ApplyRefresh(e, r) ==
    LET ended == [NotPending(e) EXCEPT !.refresh = FALSE, !.logAsked = @ /\ ~r.logLoaded]
        read  == [ended EXCEPT !.status = r.status]
    IN IF ~r.ok THEN [ended EXCEPT !.error = TRUE]
       ELSE IF r.logLoaded THEN Trimmed(read, r.commits) ELSE read

BadAppendPageAnyOffset(e, r) ==
    LET ended == [e EXCEPT !.loading = FALSE]
    IN IF r.gen # e.gen THEN e
       ELSE IF ~r.ok THEN [ended EXCEPT !.error = TRUE]
       ELSE [ended EXCEPT !.commits = @ \o SubSeq(r.commits, 1, Min({Len(r.commits), Page})),
                          !.more = Len(r.commits) > Page]

BadAppendPageKeepsLoading(e, r) ==
    IF r.gen # e.gen THEN e
    ELSE [e EXCEPT !.commits = @ \o SubSeq(r.commits, 1, Min({Len(r.commits), Page})),
                   !.more = Len(r.commits) > Page]

AppendPage(e, r) ==
    LET ended == [e EXCEPT !.loading = FALSE]
    IN IF r.gen # e.gen THEN e
       ELSE IF r.offset # Len(e.commits) THEN ended
       ELSE IF ~r.ok THEN [ended EXCEPT !.error = TRUE]
       ELSE [ended EXCEPT !.commits = @ \o SubSeq(r.commits, 1, Min({Len(r.commits), Page})),
                          !.more = Len(r.commits) > Page]

BadAppendFiles(e, r) ==
    IF ~r.ok THEN [NotPending(e) EXCEPT !.error = TRUE]
    ELSE [e EXCEPT !.files = @ \cup ({r.oid} \ EmptyCommits)]

AppendFiles(e, r) ==
    IF ~r.ok THEN [NotPending(e) EXCEPT !.error = TRUE]
    ELSE [NotPending(e) EXCEPT !.files = @ \cup ({r.oid} \ EmptyCommits)]

MovesLog(kind) == kind = "COMMIT"

BadApplyActionNoRefresh(e, r) ==
    IF ~r.ok THEN [NotPending(e) EXCEPT !.error = TRUE, !.refresh = TRUE, !.logAsked = TRUE]
    ELSE IF r.kind \in PathActions
         THEN [NotPending(e) EXCEPT !.status[r.path] = r.status[r.path]]
    ELSE [NotPending(e) EXCEPT !.logAsked = @ \/ MovesLog(r.kind)]

ApplyAction(e, r) ==
    IF ~r.ok THEN [NotPending(e) EXCEPT !.error = TRUE, !.refresh = TRUE, !.logAsked = TRUE]
    ELSE IF r.kind \in PathActions
         THEN [NotPending(e) EXCEPT !.status[r.path] = r.status[r.path]]
    ELSE [NotPending(e) EXCEPT !.refresh = @ \/ r.kind # "DIFF",
                               !.logAsked = @ \/ MovesLog(r.kind)]

Apply(r, e) ==
    CASE r.kind = "REFRESH"      -> ApplyRefresh(e, r)
      [] r.kind = "COMMIT_PAGE"  -> AppendPage(e, r)
      [] r.kind = "COMMIT_FILES" -> AppendFiles(e, r)
      [] OTHER                   -> ApplyAction(e, r)

\* sync_git_worker_results, at the start of a frame: until the queue is seen empty
TakeResult ==
    /\ phase = "sync" /\ results # <<>>
    /\ ed' = Apply(Head(results), ed)
    /\ results' = Tail(results)
    /\ UNCHANGED <<phase, requests, worker, tree, loadLog, repo, steps>>

SyncEnds ==
    /\ phase = "sync" /\ results = <<>>
    /\ phase' = "input"
    /\ UNCHANGED <<ed, requests, results, worker, tree, loadLog, repo, steps>>

Sync == TakeResult \/ SyncEnds

(***************************************************************************)
(* What the user does                                                      *)
(***************************************************************************)
Asks(e, kind) == [e EXCEPT !.slot = [kind |-> kind]]
AsksFor(e, kind, p) == [e EXCEPT !.slot = [kind |-> kind, path |-> p]]
Flip(S, c) == IF c \in S THEN S \ {c} ELSE S \cup {c}

\* what a key makes of the editor: handle_git_normal_char, activate_git_selection
Typed(e) ==
    {e, [e EXCEPT !.sidebar = ~@]} \cup
    IF ~e.sidebar THEN {}
    ELSE {[e EXCEPT !.refresh = TRUE, !.logAsked = TRUE], [e EXCEPT !.graph = ~@]}
         \cup {AsksFor(e, "STAGE", p) : p \in {q \in Paths : e.status[q] = "changed"}}
         \cup {AsksFor(e, "UNSTAGE", p) : p \in {q \in Paths : e.status[q] = "staged"}}
         \cup {[e EXCEPT !.open = Flip(@, c)] : c \in IF e.graph THEN ToSet(e.commits) ELSE {}}

\* request_more_git_commits_for_scroll; request_more_git_commits_if_needed does the
\* same for a key
MoreWanted(e) == e.graph /\ e.more /\ ~e.loading /\ e.commits # <<>>

\* what the mouse does while the frame is drawn: "Refresh" is off while an operation
\* is pending (draw_git_panel_header), "Commit" (git_commit_ready) and the rows are not
Clicked(e) ==
    {e} \cup
    IF ~e.sidebar THEN {}
    ELSE {Asks(e, "STAGE_ALL")}
         \cup (IF e.pending THEN {} ELSE {Asks(e, "REFRESH")})
         \cup {Asks(e, "COMMIT") : p \in {q \in Paths : e.status[q] = "staged"}}
         \cup {Asks(e, "DIFF") : p \in {q \in Paths : e.status[q] # "clean"}}
         \cup (IF MoreWanted(e) THEN {[e EXCEPT !.wantMore = TRUE]} ELSE {})

(***************************************************************************)
(* What the editor sends (submit_git_worker_requests)                      *)
(***************************************************************************)
NotSent(e) == [ed |-> e, sent |-> <<>>]
Room == Len(requests) < GitQueue

SubmitOperation(e, x) ==
    IF Room THEN [ed |-> [e EXCEPT !.pending = TRUE, !.kind = x.kind], sent |-> <<x>>]
    ELSE NotSent([e EXCEPT !.error = TRUE])

SubmitAction(e) ==
    IF e.pending \/ e.slot = None THEN NotSent(e)
    ELSE IF e.slot.kind = "REFRESH"
         THEN NotSent([e EXCEPT !.slot = None, !.refresh = TRUE, !.logAsked = TRUE])
    ELSE LET s == SubmitOperation(e, e.slot)
         IN IF s.sent = <<>> THEN s ELSE [s EXCEPT !.ed.slot = None]

\* the flags and the lists go before the push that may fail
SubmitRefresh(e) ==
    LET withLog == e.graph /\ e.logAsked
        cleared == [e EXCEPT !.refresh = FALSE, !.status = Clean, !.logAsked = @ /\ ~withLog]
        emptied == [cleared EXCEPT !.commits = <<>>, !.open = {}, !.files = {}, !.gen = @ + 1,
                                   !.wantMore = FALSE, !.loading = FALSE, !.more = FALSE]
    IN IF e.pending \/ ~e.sidebar \/ ~(e.refresh \/ withLog) THEN NotSent(e)
       ELSE SubmitOperation(IF withLog THEN emptied ELSE cleared,
                            [kind |-> "REFRESH", withLog |-> withLog])

\* the places of the open commits whose files are not there
FilesWanted(e) == {i \in 1..Len(e.commits) : e.commits[i] \in e.open \ e.files}

\* the first of them
SubmitFiles(e) ==
    IF e.pending \/ ~e.graph \/ FilesWanted(e) = {} THEN NotSent(e)
    ELSE SubmitOperation(e, [kind |-> "COMMIT_FILES",
                             oid |-> e.commits[Min(FilesWanted(e))]])

SubmitPage(e) ==
    LET x == [kind |-> "COMMIT_PAGE", gen |-> e.gen + 1, offset |-> Len(e.commits)]
        off == [e EXCEPT !.wantMore = FALSE]
    IN IF ~e.wantMore \/ e.pending THEN NotSent(e)
       ELSE IF ~e.graph \/ ~e.more \/ e.loading THEN NotSent(off)
       ELSE IF ~Room THEN NotSent([off EXCEPT !.error = TRUE])
       ELSE [ed |-> [off EXCEPT !.gen = @ + 1, !.loading = TRUE], sent |-> <<x>>]

\* at most one request a frame, the first of these that can be sent
Submit(e) ==
    LET a == SubmitAction(e)
        r == SubmitRefresh(a.ed)
        f == SubmitFiles(r.ed)
    IN IF a.sent # <<>> THEN a
       ELSE IF r.sent # <<>> THEN r
       ELSE IF f.sent # <<>> THEN f
       ELSE SubmitPage(f.ed)

Acts(before, after) == IF before = after THEN 0 ELSE 1

Input ==
    /\ phase = "input"
    /\ phase' = "sync"
    /\ \E typed \in Typed(ed) :
         LET done == Submit(typed)
         IN \E clicked \in Clicked(done.ed) :
              /\ steps' = steps + Acts(ed, typed) + Acts(done.ed, clicked)
              /\ steps' <= MaxSteps
              /\ ed' = clicked
              /\ requests' = requests \o done.sent
    /\ UNCHANGED <<results, worker, tree, loadLog, repo>>

(***************************************************************************)
(* The worker                                                              *)
(***************************************************************************)
\* git_stage_path, git_commit...: what a command makes of the repository
Run(x, r) ==
    CASE x.kind = "STAGE"     -> [r EXCEPT !.status[x.path] = IF @ = "changed" THEN "staged" ELSE @]
      [] x.kind = "UNSTAGE"   -> [r EXCEPT !.status[x.path] = IF @ = "staged" THEN "changed" ELSE @]
      [] x.kind = "STAGE_ALL" -> [r EXCEPT !.status = [p \in Paths |->
                                     IF @[p] = "changed" THEN "staged" ELSE @[p]]]
      [] x.kind = "COMMIT"    -> [status |-> [p \in Paths |-> IF r.status[p] = "staged"
                                                             THEN "clean" ELSE r.status[p]],
                                  log |-> r.log + 1]
      [] OTHER                -> r

Works(x, r) == x.kind = "COMMIT" => \E p \in Paths : r.status[p] = "staged"

\* log_loaded is set when the rest was read, and stays set when the log is not
RefreshResults(withLog, ok) ==
    {[kind |-> "REFRESH", ok |-> ok, status |-> repo.status, logLoaded |-> loaded,
      commits |-> SubSeq(Log(repo.log), 1, Min({repo.log, Limit + 1}))]
       : loaded \in IF ok THEN {withLog} ELSE {withLog, FALSE}}

PageOf(offset) == SubSeq(Log(repo.log), offset + 1, Min({repo.log, offset + Page + 1}))

\* execute_git_work
Executed(x, ok) ==
    CASE x.kind = "REFRESH" -> RefreshResults(x.withLog, ok)
      [] x.kind = "COMMIT_PAGE" ->
           {[kind |-> x.kind, ok |-> ok, gen |-> x.gen, offset |-> x.offset,
             commits |-> PageOf(x.offset)]}
      [] x.kind = "COMMIT_FILES" -> {[kind |-> x.kind, ok |-> ok, oid |-> x.oid]}
      [] x.kind \in PathActions ->
           {[kind |-> x.kind, ok |-> ok, path |-> x.path, status |-> Run(x, repo).status]}
      [] OTHER -> {[kind |-> x.kind, ok |-> ok]}

MayFail(ok) == IF ok THEN steps' = steps ELSE steps < MaxSteps /\ steps' = steps + 1

GitWork ==
    /\ worker = "idle" /\ requests # <<>> /\ Len(results) < GitQueue
    /\ \E ok \in BOOLEAN :
         LET x == Head(requests)
             done == ok /\ Works(x, repo)
         IN /\ MayFail(ok)
            /\ repo' = IF done THEN Run(x, repo) ELSE repo
            /\ \E r \in Executed(x, done) : results' = Append(results, r)
    /\ requests' = Tail(requests)
    /\ UNCHANGED <<ed, phase, worker, tree, loadLog>>

\* the worker turns to the directory only when no git request waits
TakeTree ==
    /\ worker = "idle" /\ requests = <<>> /\ tree
    /\ worker' = "tree" /\ tree' = FALSE
    /\ UNCHANGED <<ed, phase, requests, results, loadLog, repo, steps>>

\* and then refreshes the Git status, whatever has been queued meanwhile
FinishTree ==
    /\ worker = "tree" /\ Len(results) < GitQueue
    /\ \E ok \in BOOLEAN :
         /\ MayFail(ok)
         /\ \E r \in RefreshResults(loadLog, ok) : results' = Append(results, r)
    /\ worker' = "idle" /\ loadLog' = FALSE
    /\ UNCHANGED <<ed, phase, requests, tree, repo>>

\* another program writes a file; the watcher asks for a read of the directory
Edit(p) ==
    /\ steps < MaxSteps
    /\ repo.status[p] # "changed"
    /\ repo' = [repo EXCEPT !.status[p] = "changed"]
    /\ tree' = TRUE
    /\ steps' = steps + 1
    /\ UNCHANGED <<ed, phase, requests, results, worker, loadLog>>

Next == Sync \/ Input \/ GitWork \/ TakeTree \/ FinishTree \/ \E p \in Paths : Edit(p)

\* frames go on, and the worker's thread runs
Fairness == WF_vars(Sync) /\ WF_vars(Input) /\ WF_vars(GitWork \/ TakeTree \/ FinishTree)
Spec == Init /\ [][Next]_vars /\ Fairness

--------------------------------------------------------------------------------
(***************************************************************************)
(* Properties                                                              *)
(***************************************************************************)
\* Type invariant.
TypeOK ==
    /\ ed.slot \in Slots
    /\ ed.kind \in Actions \cup {"NONE", "REFRESH", "COMMIT_FILES"}
    /\ ed.status \in [Paths -> Status] /\ repo.status \in [Paths -> Status]
    /\ ed.pending = (ed.kind # "NONE")
    /\ Len(requests) <= GitQueue /\ Len(results) <= GitQueue

\* An operation shown as pending is on its way to the worker or back
\* (git_operation_pending, app.cpp): the buttons it turns off come back.
PendingIsInFlight ==
    ed.pending => \E x \in ToSet(requests) \cup ToSet(results) : x.kind = ed.kind

\* The commits listed are consecutive, though pages are asked for, the log moves and
\* reloads nobody asked for arrive in between (append_git_commit_page, app.cpp),
\* unless a reload is asked for or on its way, or an error is shown.
CommitsAreConsecutive ==
    \/ \A i \in 1..Len(ed.commits) - 1 : ed.commits[i] = ed.commits[i + 1] + 1
    \/ ed.logAsked \/ ed.error
    \/ \E x \in ToSet(requests) : x.kind = "REFRESH" /\ x.withLog
    \/ \E x \in ToSet(results) : x.kind = "COMMIT" \/ (x.kind = "REFRESH" /\ x.logLoaded)

\* Nothing is asked, under way or to be taken.
AtRest ==
    /\ requests = <<>> /\ results = <<>> /\ worker = "idle" /\ ~tree
    /\ ed.slot = None /\ ~ed.pending /\ ~ed.loading /\ ~ed.wantMore
    /\ ed.sidebar => ~ed.refresh /\ ~(ed.graph /\ ed.logAsked)

\* When nothing is under way the open sidebar shows the files as they are, and the
\* graph the newest commits, unless an error is shown (apply_git_action_result and
\* apply_git_refresh_result, app.cpp): results clear each other's flags, nobody's
\* change may be forgotten by that.
AtRestAllIsShown ==
    AtRest /\ ed.sidebar /\ ~ed.error =>
        /\ ed.status = repo.status
        /\ ed.graph => ed.commits = SubSeq(Log(repo.log), 1, Len(ed.commits))

\* Requests, pages and flags come to an end when the user does
\* (submit_git_worker_requests, app.cpp); the files of an open commit that has none
\* are asked for again and again (git_commit_files_loaded).
Settles == <>[](AtRest \/ ed.open \cap EmptyCommits # {})
================================================================================
