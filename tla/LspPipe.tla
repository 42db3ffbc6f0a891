-------------------------------- MODULE LspPipe --------------------------------
(***************************************************************************)
(* The pipe to the standard input of a language server                     *)
(* (examples/code_editor/lsp_client_win32.cpp): write_json appends a       *)
(* message to io.bytes, or to io.backlog while an overlapped write reads   *)
(* io.bytes; pump_write starts one write of at most LSP_WRITE_CHUNK_SIZE   *)
(* bytes; finish_write collects a write that was pending.  One thread.     *)
(* A message is a run of units that carry its number, Chunk units are the  *)
(* most one write takes, and io.bytes is kept without the prefix that      *)
(* io.offset has passed.                                                   *)
(***************************************************************************)
EXTENDS Naturals, Sequences, FiniteSets

CONSTANTS Chunk,        \* units one WriteFile takes
          Sizes,        \* sizes of the messages, in units
          MaxMessages   \* bound: messages written to one server

VARIABLES bytes,     \* stdin_io.bytes from stdin_io.offset on
          backlog,   \* stdin_io.backlog
          pending,   \* units of the overlapped write in progress, 0: none
          open,      \* handle_valid(stdin_write)
          wire,      \* what the server has been given
          sizes,     \* history: the sizes of the messages written
          batch      \* history: the longest io.bytes a pending write started on

vars == <<bytes, backlog, pending, open, wire, sizes, batch>>

io == [bytes |-> bytes, backlog |-> backlog, pending |-> pending,
       open |-> open, wire |-> wire, batch |-> batch]

Become(i) ==
    /\ bytes' = i.bytes
    /\ backlog' = i.backlog
    /\ pending' = i.pending
    /\ open' = i.open
    /\ wire' = i.wire
    /\ batch' = i.batch

Smaller(a, b) == IF a < b THEN a ELSE b
Larger(a, b) == IF a < b THEN b ELSE a
Units(message, n) == [k \in 1..n |-> message]

Init ==
    /\ bytes = <<>>
    /\ backlog = <<>>
    /\ pending = 0
    /\ open = TRUE
    /\ wire = <<>>
    /\ sizes = <<>>
    /\ batch = 0

-----------------------------------------------------------------------------
\* the queue a pump works on: the backlog moves in when the bytes are written
Refill(i) ==
    IF i.bytes = <<>> THEN [i EXCEPT !.bytes = i.backlog, !.backlog = <<>>] ELSE i

\* WriteFile succeeds at once, is pending, or fails and the pipe is closed
Written(i) ==
    LET n == Smaller(Chunk, Len(i.bytes))
    IN  {[i EXCEPT !.bytes = SubSeq(@, n + 1, Len(@)),
                   !.wire = @ \o SubSeq(i.bytes, 1, n)],
         [i EXCEPT !.pending = n, !.batch = Larger(@, Len(i.bytes))],
         [i EXCEPT !.open = FALSE]}

\* mutant of PumpWrite: the backlog is not looked at
BadPumpWrite(i) ==
    IF i.pending > 0 \/ ~i.open \/ i.bytes = <<>> THEN {i} ELSE Written(i)

PumpWrite(i) ==
    IF i.pending > 0 \/ ~i.open THEN {i}
    ELSE IF Refill(i).bytes = <<>> THEN {Refill(i)}
    ELSE Written(Refill(i))

\* the event is not signalled, or the write has failed, or it is complete
FinishWrite(i) ==
    IF i.pending = 0 THEN {i}
    ELSE {i, [i EXCEPT !.pending = 0, !.open = FALSE]}
         \cup PumpWrite([i EXCEPT !.pending = 0,
                                  !.bytes = SubSeq(@, i.pending + 1, Len(@)),
                                  !.wire = @ \o SubSeq(i.bytes, 1, i.pending)])

\* the queue write_json appends to
Queue(i, units) ==
    IF i.pending > 0 THEN [i EXCEPT !.backlog = @ \o units]
    ELSE [i EXCEPT !.bytes = @ \o units]

-----------------------------------------------------------------------------
(* A message is written; when the queue cannot take all of it the pipe is
   closed behind what was copied.  A closed pipe drops the message. *)
WriteJson(n) ==
    /\ open
    /\ Len(sizes) < MaxMessages
    /\ sizes' = Append(sizes, n)
    /\ \/ \E i \in PumpWrite(Queue(io, Units(Len(sizes) + 1, n))) : Become(i)
       \/ \E copied \in 0..(n - 1) :
              Become([Queue(io, Units(Len(sizes) + 1, copied)) EXCEPT !.open = FALSE])

\* mutant of Poll: only finish_write pumps
BadPoll ==
    /\ \E i \in FinishWrite(io) : Become(i)
    /\ UNCHANGED sizes

\* lsp_client_poll: finish_write and pump_write
Poll ==
    /\ \E i \in FinishWrite(io) : \E j \in PumpWrite(i) : Become(j)
    /\ UNCHANGED sizes

\* lsp_client_shutdown, init and start: a new process behind a new pipe
Restart ==
    /\ sizes # <<>>
    /\ bytes' = <<>>
    /\ backlog' = <<>>
    /\ pending' = 0
    /\ open' = TRUE
    /\ wire' = <<>>
    /\ sizes' = <<>>
    /\ batch' = 0

Next ==
    \/ \E n \in Sizes : WriteJson(n)
    \/ Poll
    \/ Restart

Spec == Init /\ [][Next]_vars

(* Fairness: the host polls before every frame and the server reads its
   input, so a poll that hands more bytes to the server is not put off for ever. *)
FairSpec == Spec /\ WF_vars(Poll /\ wire' # wire)

-----------------------------------------------------------------------------
All == wire \o bytes \o backlog

TypeOK ==
    /\ bytes \in Seq(1..MaxMessages)
    /\ backlog \in Seq(1..MaxMessages)
    /\ pending \in 0..Chunk
    /\ open \in BOOLEAN
    /\ wire \in Seq(1..MaxMessages)
    /\ sizes \in Seq(Sizes)
    /\ pending <= Len(bytes)

\* The units of a message stay together between the wire and the two queues.
Together ==
    \A i, j \in 1..Len(All) :
        (i < j /\ All[i] = All[j]) => \A k \in i..j : All[k] = All[i]

\* None of a message's units is lost while the pipe is open.
AllThere ==
    open => \A m \in 1..Len(sizes) :
                Cardinality({i \in 1..Len(All) : All[i] = m}) = sizes[m]

\* Messages keep their order as long as no write is pending over more than two
\* chunks of bytes: then the second pump of a poll is what keeps the backlog in
\* front of a later message.  (Past that bound finish_write leaves bytes and a
\* backlog with no write pending, and write_json appends a new message to the
\* bytes, before the backlog.)
InOrder ==
    batch <= 2 * Chunk => \A i, j \in 1..Len(All) : i < j => All[i] <= All[j]

(* However writes, pending writes and messages of other handlers interleave,
   messages reach the server whole, and in their order while writes are short. *)
MessagesArrive == Together /\ AllThere /\ InOrder

(* A message that had to wait in the backlog gets its turn: the backlog is
   handed over, or the pipe is closed. *)
BacklogDrains == (backlog # <<>>) ~> (backlog = <<>> \/ ~open)
===============================================================================
