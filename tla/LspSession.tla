------------------------------ MODULE LspSession ------------------------------
(***************************************************************************)
(* The editor's session with a language server: the client that starts,    *)
(* polls and stops the server process (lsp_client_win32.cpp), the host's   *)
(* control of it (lsp_control in host.cpp) and the editor's document       *)
(* synchronisation (update_editor_lsp_document in editor_model.cpp).  All  *)
(* of it runs on the UI thread; the server is a process of its own that    *)
(* answers, stops reading or exits when it likes.                          *)
(* A document is a path and the revision of its text.  What the server     *)
(* has been told is kept in docs, as the server sees it once it has read   *)
(* its input; LspPipe has the order of that input.                         *)
(***************************************************************************)
EXTENDS Naturals, FiniteSets

CONSTANTS Paths,        \* files
          JsonPaths,    \* those analysed by the editor itself
          NoPath,       \* no file
          Servers,      \* configured language servers
          NoServer,
          ServerFor,    \* lsp_server_for_file
          Clangd,       \* servers that want a compile_commands.json
          MaxRev,       \* bound: edits of a text
          MaxCommands   \* bound: commands and deaths of a server

ASSUME SessionAssumption ==
    /\ JsonPaths \subseteq Paths
    /\ NoPath \notin Paths
    /\ NoServer \notin Servers
    /\ Clangd \subseteq Servers
    /\ ServerFor \in [Paths \cup {NoPath} -> Servers \cup {NoServer}]
    /\ ServerFor[NoPath] = NoServer
    /\ MaxRev \in Nat
    /\ MaxCommands \in Nat

VARIABLES client,   \* LspClient and its LspBridge
          server,   \* the process at the other end
          editor,   \* the LSP fields of EditorState and the focused buffer
          commands  \* history: commands given and servers lost

vars == <<client, server, editor, commands>>

Files == Paths \cup {NoPath}
Doc == [path : Files, rev : 0..MaxRev]
NoDoc == [path |-> NoPath, rev |-> 0]
Statuses == {"OFF", "STARTING", "READY", "WARNING", "FAILED"}
Background == {"SEMANTIC_TOKENS", "INLAY_HINTS"}
Kinds == Background \cup {"INITIALIZE", "HOVER"}
Request == [kind : Kinds, doc : Doc, uri : Files]
Closed == MaxRev + 1
ProtocolErrors == {"open twice", "change closed", "close closed", "request closed"}
Views == {"CODE", "DIFF", "OTHER"}

ClientType ==
    [started : BOOLEAN, initialized : BOOLEAN, status : Statuses,
     id : Servers \cup {NoServer}, stdin : BOOLEAN, database : BOOLEAN,
     doc : Doc, caps : SUBSET Background, requests : SUBSET Request, hints : Doc]
ServerType ==
    [alive : BOOLEAN, reads : BOOLEAN, docs : [Paths -> 0..Closed],
     asked : SUBSET Request, errors : SUBSET ProtocolErrors]
EditorType ==
    [file : Files, rev : 0..MaxRev, view : Views, synced : Doc, asked : Doc]

\* lsp_client_init after the constructor
OffClient ==
    [started |-> FALSE, initialized |-> FALSE, status |-> "OFF", id |-> NoServer,
     stdin |-> FALSE, database |-> TRUE, doc |-> NoDoc, caps |-> {},
     requests |-> {}, hints |-> NoDoc]

NoProcess ==
    [alive |-> FALSE, reads |-> FALSE, docs |-> [p \in Paths |-> Closed],
     asked |-> {}, errors |-> {}]

Init ==
    /\ client = OffClient
    /\ server = NoProcess
    /\ editor \in [file : Files, rev : {0}, view : {"CODE"}, synced : {NoDoc}, asked : {NoDoc}]
    /\ commands = 0

-----------------------------------------------------------------------------
(* The operators below take and return the state of a session,
   [c |-> client, s |-> server, e |-> editor]. *)
Error(x, e, broken) == IF broken THEN [x EXCEPT !.s.errors = @ \cup {e}] ELSE x

\* write_json: a closed handle drops the message, a broken pipe closes the handle
Deliver(x, effect) ==
    IF ~x.c.stdin THEN x
    ELSE IF ~x.s.reads THEN [x EXCEPT !.c.stdin = FALSE]
    ELSE effect

SendOpen(x, d) ==
    LET y == [x EXCEPT !.c.doc = d]
    IN  Deliver(y, [Error(y, "open twice", y.s.docs[d.path] # Closed)
                        EXCEPT !.s.docs[d.path] = d.rev])

\* mutant of SendChange: the client does not look at its current path
BadSendChange(x, d) ==
    Deliver(x, [Error(x, "change closed", x.s.docs[d.path] = Closed)
                    EXCEPT !.s.docs[d.path] = d.rev])

SendChange(x, d) ==
    LET y == [x EXCEPT !.c.doc = d]
    IN  IF d.path # x.c.doc.path THEN SendOpen(x, d)
        ELSE Deliver(y, [Error(y, "change closed", y.s.docs[d.path] = Closed)
                             EXCEPT !.s.docs[d.path] = d.rev])

SendClose(x, p) ==
    Deliver(x, [Error(x, "close closed", x.s.docs[p] = Closed)
                    EXCEPT !.s.docs[p] = Closed])

\* send_request_json: the request is remembered whether or not it is written;
\* its URI is the client's current document, its path the editor's
SendRequest(x, kind, d) ==
    LET r == [kind |-> kind, doc |-> d, uri |-> x.c.doc.path]
        y == [x EXCEPT !.c.requests = @ \cup {r}]
    IN  Deliver(y, [Error(y, "request closed",
                          kind # "INITIALIZE" /\ (r.uri = NoPath \/ y.s.docs[r.uri] = Closed))
                        EXCEPT !.s.asked = @ \cup {r}])

\* lsp_client_send_editor_request
Send(x, kind, d) ==
    IF ~x.c.started \/ (~x.c.initialized /\ kind # "DID_CLOSE") THEN x
    ELSE CASE kind = "DID_OPEN" -> SendOpen(x, d)
           [] kind = "DID_CHANGE" -> SendChange(x, d)
           [] kind = "DID_CLOSE" -> SendClose(x, d.path)
           [] kind = "HOVER" -> SendRequest(x, kind, d)
           [] OTHER -> IF kind \in x.c.caps THEN SendRequest(x, kind, d) ELSE x

\* mutant of Stop: the table of requests survives
BadStop(x) ==
    [x EXCEPT !.c = [OffClient EXCEPT !.requests = x.c.requests],
              !.s = [NoProcess EXCEPT !.errors = x.s.errors]]

\* lsp_client_stop: shutdown and exit are written, the process is terminated,
\* and the client is as constructed and initialised
Stop(x) ==
    [x EXCEPT !.c = OffClient, !.s = [NoProcess EXCEPT !.errors = x.s.errors]]

\* lsp_client_start: no executable; no pipe, directory or process; or a new
\* process, which is sent initialize
Start(x, id) ==
    IF x.c.started THEN {x}
    ELSE {[x EXCEPT !.c.status = "FAILED"],
          [x EXCEPT !.c.status = "FAILED", !.c.id = id]}
         \cup
         {SendRequest(
              [x EXCEPT !.c = [@ EXCEPT !.started = TRUE, !.id = id, !.stdin = TRUE,
                                        !.database = db,
                                        !.status = IF id \in Clangd /\ ~db
                                                   THEN "WARNING" ELSE "STARTING"],
                        !.s = [@ EXCEPT !.alive = TRUE, !.reads = TRUE,
                                        !.docs = [p \in Paths |-> Closed],
                                        !.asked = {}]],
              "INITIALIZE", NoDoc) : db \in BOOLEAN}

\* lsp_control_start
ControlStart(x, id, retry) ==
    IF x.c.started /\ x.c.id = id THEN {x}
    ELSE LET y == IF x.c.started THEN Stop(x) ELSE x
         IN  IF y.c.status = "FAILED"
             THEN IF ~retry /\ y.c.id = id THEN {y} ELSE Start(Stop(y), id)
             ELSE Start(y, id)

\* lsp_control
Control(x, kind, id) ==
    CASE kind = "ENSURE_STARTED" -> ControlStart(x, id, FALSE)
      [] kind = "START" -> ControlStart(x, id, TRUE)
      [] kind = "STOP" -> {IF x.c.started \/ x.c.status # "OFF" THEN Stop(x) ELSE x}
      [] kind = "RESTART" -> ControlStart(Stop(x), id, TRUE)

-----------------------------------------------------------------------------
Focused(x) == [path |-> x.e.file, rev |-> x.e.rev]
Forget(x) == [x EXCEPT !.e.synced = NoDoc, !.e.asked = NoDoc]
Unsync(x) ==
    IF x.e.synced.path = NoPath THEN x
    ELSE Forget(Send(x, "DID_CLOSE", x.e.synced))

\* mutants of Ready: a server that is starting counts; a warning does not
BadReady(x) == x.c.status \in {"STARTING", "READY", "WARNING"}
BadReadyWarning(x) == x.c.status = "READY"

\* editor_lsp_ready, editor_lsp_file
Ready(x) == x.c.status \in {"READY", "WARNING"}
LspFile(x) == x.e.view # "DIFF" /\ ServerFor[x.e.file] # NoServer

EnsureStarted(x) ==
    IF ~LspFile(x) THEN {x} ELSE Control(x, "ENSURE_STARTED", ServerFor[x.e.file])

RequestInlayHints(x) ==
    IF x.e.asked = Focused(x) THEN x
    ELSE [Send(x, "INLAY_HINTS", Focused(x)) EXCEPT !.e.asked = Focused(x)]

\* the part of update_editor_lsp_document past the early returns
Synchronise(x) ==
    LET same == x.e.synced.path = x.e.file
        y == Send(x, IF same THEN "DID_CHANGE" ELSE "DID_OPEN", Focused(x))
        z == RequestInlayHints(Send(y, "SEMANTIC_TOKENS", Focused(y)))
    IN  IF x.e.synced = Focused(x)
        THEN IF x.c.hints # Focused(x) THEN RequestInlayHints(x) ELSE x
        ELSE [z EXCEPT !.e.synced = Focused(z)]

Update(x) ==
    IF x.e.file \in JsonPaths THEN {Unsync(x)}
    ELSE LET y == IF x.e.synced.path # x.e.file THEN Unsync(x) ELSE x
         IN  {IF Ready(z) /\ LspFile(z) /\ z.e.view = "CODE"
              THEN Synchronise(z) ELSE Unsync(z) : z \in EnsureStarted(y)}

\* request_lsp: update_editor_lsp_document, then the request
RequestLsp(x, kind) ==
    IF ~Ready(x) \/ ~LspFile(x) THEN {x}
    ELSE {IF y.e.synced.path = y.e.file THEN Send(y, kind, Focused(y)) ELSE y : y \in Update(x)}

-----------------------------------------------------------------------------
session == [c |-> client, s |-> server, e |-> editor]

(* One frame, as build_ui_commands runs it: the document is synchronised,
   the input is handled and the document is synchronised again. *)
Frame(Input(_)) ==
    \E x \in Update(session) : \E y \in Input(x) : \E z \in Update(y) :
        /\ client' = z.c
        /\ server' = z.s
        /\ editor' = z.e

NoInput(x) == {x}
Idle ==
    /\ Frame(NoInput)
    /\ UNCHANGED commands

Edit ==
    LET Typed(x) == {[x EXCEPT !.e.rev = @ + 1]}
    IN  /\ editor.rev < MaxRev
        /\ editor.view = "CODE"
        /\ editor.file # NoPath
        /\ Frame(Typed)
        /\ UNCHANGED commands

\* another file is shown, from another buffer with a revision of its own
ShowFile(f, r) ==
    LET Shown(x) == {[x EXCEPT !.e.file = f, !.e.rev = r, !.e.view = "CODE"]}
    IN  /\ commands < MaxCommands
        /\ commands' = commands + 1
        /\ f # editor.file
        /\ Frame(Shown)

\* the focus moves to a diff, to another pane, or back
ShowView(v, f) ==
    LET Viewed(x) == {[x EXCEPT !.e.view = v, !.e.file = f]}
    IN  /\ commands < MaxCommands
        /\ commands' = commands + 1
        /\ v # editor.view
        /\ Frame(Viewed)

Hover ==
    LET Asked(x) == RequestLsp(x, "HOVER")
    IN  /\ editor.view = "CODE"
        /\ Frame(Asked)
        /\ UNCHANGED commands

\* request_lsp_control
Command(kind) ==
    LET Done(x) == Control(x, kind, ServerFor[x.e.file])
    IN  /\ commands < MaxCommands
        /\ commands' = commands + 1
        /\ editor.view # "DIFF"
        /\ ServerFor[editor.file] # NoServer
        /\ Frame(Done)

-----------------------------------------------------------------------------
\* lsp_client_poll finds the process gone
PollExited ==
    /\ client.started
    /\ ~server.alive
    /\ client' = [client EXCEPT !.status = "FAILED", !.started = FALSE]
    /\ UNCHANGED <<server, editor, commands>>

(* lsp_client_poll reads the answer to a request: take_pending, then the
   parser of its kind.  Capabilities are what the server says; an answer
   about another document or revision is not taken for its hints. *)
Answer(r) ==
    /\ client.started
    /\ server.alive
    /\ r \in server.asked
    /\ server' = [server EXCEPT !.asked = @ \ {r}]
    /\ \E caps \in (IF r.kind = "INITIALIZE" THEN SUBSET Background ELSE {client.caps}) :
           client' = [client EXCEPT
               !.requests = @ \ {r},
               !.caps = caps,
               !.initialized = @ \/ r.kind = "INITIALIZE",
               !.status = IF r.kind # "INITIALIZE" THEN @
                          ELSE IF client.database THEN "READY" ELSE "WARNING",
               !.hints = IF r.kind = "INLAY_HINTS" /\ r.doc = client.doc THEN r.doc ELSE @]
    /\ UNCHANGED <<editor, commands>>

\* the server exits, or only closes its standard input
ServerExits ==
    /\ commands < MaxCommands
    /\ commands' = commands + 1
    /\ server.alive
    /\ \E a \in BOOLEAN :
           server' = [server EXCEPT !.alive = a, !.reads = FALSE]
    /\ UNCHANGED <<client, editor>>

Next ==
    \/ Idle \/ Edit \/ Hover
    \/ \E f \in Files, r \in 0..MaxRev : ShowFile(f, r)
    \/ \E v \in Views, f \in {editor.file, NoPath} : ShowView(v, f)
    \/ \E kind \in {"START", "STOP", "RESTART"} : Command(kind)
    \/ PollExited
    \/ \E r \in server.asked : Answer(r)
    \/ ServerExits

Spec == Init /\ [][Next]_vars

-----------------------------------------------------------------------------
(* Fairness: the host draws a frame and polls the client again and again, and
   a server that is alive answers what it was asked. *)
FairSpec ==
    /\ Spec
    /\ WF_vars(Idle)
    /\ WF_vars(PollExited)
    /\ WF_vars(\E r \in server.asked : Answer(r))

TypeOK ==
    /\ client \in ClientType
    /\ server \in ServerType
    /\ editor \in EditorType
    /\ commands \in 0..MaxCommands
    /\ client.started => client.id \in Servers

\* the server is given what is written; it was started with status WARNING,
\* which the editor takes for ready, before it was initialised
Heard == client.stdin /\ server.reads
Early == client.id \in Clangd /\ ~client.database

(* The server never sees a document opened twice without a close between, nor
   a change of a document that is not open, across commands, restarts, files
   of two servers and requests that the client dropped.  (A request or a close
   of a document that is not open does happen, with an Early server.) *)
ProtocolKept == server.errors \cap {"open twice", "change closed"} = {}

(* What the editor has recorded as synchronised is open at the server with
   that revision: a text is not forgotten between the editor and the server. *)
SyncedMeansOpen ==
    (client.started /\ Heard /\ ~Early /\ editor.synced # NoDoc)
        => server.docs[editor.synced.path] = editor.synced.rev

(* Client and server know of each other, however starts, stops, restarts and
   exits interleave: no process outlives its client, and while the pipe works
   the client's table of requests and the requests the server still has to
   answer are the same, none is lost or kept for ever. *)
Answerable ==
    /\ server.alive => client.started
    /\ Heard => client.requests = server.asked

(* A file in view that has a server becomes synchronised with it, unless the
   server fails or stops reading, or the file leaves the view. *)
FileGetsSynced ==
    \A f \in Paths : ServerFor[f] # NoServer =>
        ((editor.file = f /\ editor.view = "CODE")
            ~> \/ editor.synced = Focused(session)
               \/ editor.file # f
               \/ editor.view # "CODE"
               \/ client.status = "FAILED"
               \/ ~Heard)
===============================================================================
