------------------------------- MODULE MCQueues -------------------------------
(***************************************************************************)
(* The two queues that carry messages, in one run: SpscQueue between two    *)
(* threads of the program, and LspPipe to the process of a language server. *)
(* They share no variable, so their interleavings add nothing: each moves   *)
(* while the other is as it was at first.                                   *)
(* Two values tell a stale, a torn and a duplicated value apart; a ring of  *)
(* four slots wraps and fills.                                              *)
(***************************************************************************)
EXTENDS SpscQueue

CONSTANTS Chunk, Sizes, MaxMessages

\* A write takes something, and no message is empty: write_json adds a header.
ASSUME PipeAssumption ==
  Chunk \in Nat \ {0} /\ Sizes \subseteq Nat \ {0} /\ MaxMessages \in Nat

VARIABLES bytes, backlog, pending, open, wire, sizes, batch

Pipe == INSTANCE LspPipe

pipe == <<bytes, backlog, pending, open, wire, sizes, batch>>

PipeRests == Pipe!Init /\ UNCHANGED pipe
RingRests == Init /\ UNCHANGED vars

QueuesInit == Init /\ Pipe!Init

QueuesNext ==
  \/ \E v \in Value : PushBegin(v) /\ PipeRests
  \/ PushCopied /\ PipeRests
  \/ PushPublish /\ PipeRests
  \/ PopBegin /\ PipeRests
  \/ PopCopied /\ PipeRests
  \/ PopRelease /\ PipeRests
  \/ Clear /\ PipeRests
  \/ ReadVisible /\ PipeRests
  \/ WriteVisible /\ PipeRests
  \/ \E n \in Sizes : Pipe!WriteJson(n) /\ RingRests
  \/ Pipe!Poll /\ RingRests
  \/ Pipe!Restart /\ RingRests

QueuesFairness ==
  /\ Fairness
  /\ WF_pipe(Pipe!Poll /\ wire' # wire)

QueuesSpec == QueuesInit /\ [][QueuesNext]_<<vars, pipe>> /\ QueuesFairness

\* Messages to a server arrive whole, and in order while writes are short (LspPipe).
MessagesArrive == Pipe!MessagesArrive

\* What waits behind a pending write gets its turn (LspPipe).
BacklogDrains == Pipe!BacklogDrains
================================================================================
