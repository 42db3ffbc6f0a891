------------------------------ MODULE LspResults ------------------------------
(***************************************************************************)
(* What the editor does with the answers of a language server: the parsers *)
(* of lsp_client_win32.cpp put a result on the bridge and count its        *)
(* generation, and every frame the editor compares the generations with    *)
(* those it has seen (sync_lsp_result_popups and handle_lsp_pending_actions*)
(* in editor_render.cpp).  For a JSON file the editor looks at a bridge of *)
(* its own (update_editor_json_analysis in editor_model.cpp).              *)
(* A document is a path and a revision; the server is taken to be started  *)
(* and ready (LspSession has the rest of its life).                        *)
(***************************************************************************)
EXTENDS Naturals, FiniteSets

CONSTANTS Paths,        \* files
          JsonPaths,    \* those the editor analyses itself
          MaxRev,       \* bound: edits of a file
          MaxRequests,  \* bound: requests
          MaxMoves      \* bound: changes of the file in focus, and restarts

VARIABLES bridge,    \* generations and results on the client's bridge
          client,    \* current_path and current_revision of the client
          asked,     \* requests the server has still to answer
          editor,    \* file, revisions, lsp_bridge, seen generations, popup
          sent,      \* history: number of requests sent
          done,      \* history: how often edits or a location were acted on
          json,      \* history: a JSON file has been shown
          moves      \* history: changes of the file in focus, and restarts

vars == <<bridge, client, asked, editor, sent, done, json, moves>>

Kinds == {"COMPLETION", "DEFINITION", "EDITS"}
Ids == 1..MaxRequests
Doc == [path : Paths, rev : 0..MaxRev]
Request == [id : Ids, kind : Kinds, doc : Doc]
Result == [id : Ids, path : Paths, target : Paths]
Nothing == [id |-> 0]
Popups == {"NONE", "COMPLETION"}
BridgeType == [gen : [Kinds -> 0..MaxRequests], result : [Kinds -> Result \cup {Nothing}]]
EditorType ==
    [file : Paths, revs : [Paths -> 0..MaxRev], external : BOOLEAN,
     seen : [Kinds -> 0..MaxRequests], popup : Popups, open : BOOLEAN]

NoResults == [gen |-> [k \in Kinds |-> 0], result |-> [k \in Kinds |-> Nothing]]

Init ==
    /\ bridge = NoResults
    /\ editor \in [file : Paths \ JsonPaths, revs : {[p \in Paths |-> 0]}, external : {TRUE},
                   seen : {[k \in Kinds |-> 0]}, popup : {"NONE"}, open : {FALSE}]
    /\ client = [path |-> editor.file, rev |-> 0]
    /\ asked = {}
    /\ sent = 0
    /\ done = [i \in Ids |-> 0]
    /\ json = FALSE
    /\ moves = 0

-----------------------------------------------------------------------------
(* One frame works on a record of what it changes. *)
State ==
    [bridge |-> bridge, client |-> client, asked |-> asked, e |-> editor,
     sent |-> sent, done |-> done, json |-> json]

Become(x) ==
    /\ bridge' = x.bridge
    /\ client' = x.client
    /\ asked' = x.asked
    /\ editor' = x.e
    /\ sent' = x.sent
    /\ done' = x.done
    /\ json' = x.json

Focused(x) == [path |-> x.e.file, rev |-> x.e.revs[x.e.file]]
Typed(x, p) == [x EXCEPT !.e.revs[p] = IF @ < MaxRev THEN @ + 1 ELSE @]
ActedOn(x, r) == [x EXCEPT !.done[r.id] = IF @ < 2 THEN @ + 1 ELSE @]

\* update_editor_json_analysis and update_editor_lsp_document: the client
\* keeps its document while a JSON file is shown
Update(x) ==
    IF x.e.file \in JsonPaths THEN [x EXCEPT !.e.external = FALSE, !.json = TRUE]
    ELSE [x EXCEPT !.e.external = TRUE, !.client = Focused(x)]

\* the bridge lsp_bridge points to; that of JSON never has these results
Visible(x) == IF x.e.external THEN x.bridge ELSE NoResults

Fresh(x, k) == x.e.seen[k] # Visible(x).gen[k] /\ Visible(x).result[k] # Nothing

\* mutant of Seen: the generation of edits is only taken when it grows
BadSeen(x) ==
    [x EXCEPT !.e.seen = [k \in Kinds |-> IF k = "EDITS" THEN @[k] ELSE Visible(x).gen[k]]]

Seen(x) == [x EXCEPT !.e.seen = Visible(x).gen]

\* sync_lsp_result_popups
SyncPopups(x) ==
    LET y == IF Fresh(x, "COMPLETION") THEN [x EXCEPT !.e.popup = "COMPLETION"] ELSE x
    IN  IF Fresh(x, "DEFINITION") THEN [y EXCEPT !.e.popup = "NONE", !.e.open = TRUE] ELSE y

\* apply_lsp_workspace_edits: the edits name their file
ApplyEdits(x) ==
    LET r == Visible(x).result["EDITS"]
    IN  IF Fresh(x, "EDITS") THEN ActedOn(Typed(x, r.path), r) ELSE x

\* open_lsp_location: set_editor_text_impl closes the popup
OpenLocation(x) ==
    LET r == Visible(x).result["DEFINITION"]
        y == [x EXCEPT !.e.open = FALSE]
    IN  IF ~x.e.open \/ r = Nothing THEN y
        ELSE ActedOn([y EXCEPT !.e.file = r.target, !.e.popup = "NONE"], r)

\* draw_editor_ui begins with both
Draw(x) ==
    LET y == SyncPopups(x)
        z == ApplyEdits(y)
    IN  OpenLocation(Seen(z))

Frame(Input(_)) == \E x \in Input(Update(State)) : Become(Draw(Update(x)))

-----------------------------------------------------------------------------
\* request_lsp, for a file with a server
Send(x, k) ==
    IF x.e.file \in JsonPaths THEN x
    ELSE LET y == Update(x)
         IN  [y EXCEPT !.asked = @ \cup {[id |-> y.sent + 1, kind |-> k, doc |-> Focused(y)]},
                       !.sent = @ + 1]

Idle ==
    LET Nothing_(x) == {x}
    IN  /\ Frame(Nothing_)
        /\ UNCHANGED moves

\* a key is typed: an open completion popup closes, and some keys ask again
Type ==
    LET Key(x) == LET y == Typed([x EXCEPT !.e.popup = "NONE"], x.e.file)
                  IN  {y} \cup (IF y.sent < MaxRequests THEN {Send(y, "COMPLETION")} ELSE {})
    IN  /\ editor.revs[editor.file] < MaxRev
        /\ Frame(Key)
        /\ UNCHANGED moves

Ask(k) ==
    LET Asked(x) == {Send(x, k)}
    IN  /\ sent < MaxRequests
        /\ editor.popup = "NONE"
        /\ Frame(Asked)
        /\ UNCHANGED moves

\* accept_lsp_popup, apply_lsp_completion: the edit goes into the focused file
Accept ==
    LET Accepted(x) ==
            LET r == Visible(x).result["COMPLETION"]
                y == [x EXCEPT !.e.popup = "NONE"]
            IN  {IF r = Nothing THEN y
                 ELSE Typed(y, x.e.file)}
    IN  /\ editor.popup = "COMPLETION"
        /\ Frame(Accepted)
        /\ UNCHANGED moves

Dismiss ==
    LET Closed(x) == {[x EXCEPT !.e.popup = "NONE"]}
    IN  /\ editor.popup = "COMPLETION"
        /\ Frame(Closed)
        /\ UNCHANGED moves

\* the mouse focuses a pane with another file, or opens a file in this one,
\* which closes the popup; both are handled while the frame is drawn
Move ==
    /\ moves < MaxMoves
    /\ moves' = moves + 1
    /\ \E p \in Paths \ {editor.file} :
           LET x == Draw(Update(State))
           IN  \E q \in {x.e.popup, "NONE"} :
                   Become([x EXCEPT !.e.file = p, !.e.popup = q])

\* lsp_control with RESTART: the client is as constructed; the results and
\* the requests that were not looked at go with it
Restart ==
    LET Restarted(x) == {[x EXCEPT !.bridge = NoResults, !.asked = {}]}
    IN  /\ moves < MaxMoves
        /\ moves' = moves + 1
        /\ Frame(Restarted)

-----------------------------------------------------------------------------
(* lsp_client_poll hands an answer to its parser: completions for another
   document or revision than the client's are dropped, the others are not
   compared.  An answer may be empty. *)
Answer(r) ==
    /\ r \in asked
    /\ asked' = asked \ {r}
    /\ IF r.kind = "COMPLETION" /\ r.doc # client
       THEN UNCHANGED bridge
       ELSE \E result \in {Nothing} \cup [id : {r.id}, path : {r.doc.path}, target : Paths] :
                /\ (result # Nothing /\ r.kind # "DEFINITION") => result.target = result.path
                /\ bridge' = [bridge EXCEPT !.gen[r.kind] = @ + 1, !.result[r.kind] = result]
    /\ UNCHANGED <<client, editor, sent, done, json, moves>>

Next ==
    \/ Idle \/ Type \/ Accept \/ Dismiss \/ Move \/ Restart
    \/ \E k \in Kinds : Ask(k)
    \/ \E r \in asked : Answer(r)

Spec == Init /\ [][Next]_vars

-----------------------------------------------------------------------------
TypeOK ==
    /\ bridge \in BridgeType
    /\ client \in Doc
    /\ asked \in SUBSET Request
    /\ editor \in EditorType
    /\ sent \in 0..MaxRequests
    /\ done \in [Ids -> 0..2]
    /\ json \in BOOLEAN
    /\ moves \in 0..MaxMoves
    /\ \A r \in asked : r.id <= sent
    /\ ~editor.open

Kept == {bridge.result[k].id : k \in {"DEFINITION", "EDITS"}} \ {0}
Waiting(k) == ~editor.external \/ editor.seen[k] # bridge.gen[k]

\* What is on the bridge has been acted on, or the next frame with this bridge
\* will find its generation new.
NoneOverlooked ==
    \A k \in {"DEFINITION", "EDITS"} :
        bridge.result[k] # Nothing => done[bridge.result[k].id] >= 1 \/ Waiting(k)

\* No result is acted on twice while no JSON file has been shown.
NoneRepeated == ~json => \A i \in Ids : done[i] <= 1

(* The edits and the location of an answer are acted on, and once, however
   answers, restarts and frames interleave: a result is neither overlooked
   because its generation was seen before, nor taken for new again. *)
AnswersActedOn == NoneOverlooked /\ NoneRepeated
===============================================================================
