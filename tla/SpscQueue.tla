----------------------------- MODULE SpscQueue -----------------------------
(***************************************************************************)
(* base/spsc_queue.h: the lock-free ring through which the host's main     *)
(* thread and its background worker exchange requests and results.         *)
(*                                                                         *)
(* One producer calls push, one consumer calls pop, with no lock between   *)
(* them.  m_read and m_write are plain words accessed through atomic_ref   *)
(* with acquire and release order, so a thread that loads the other's      *)
(* index may get an old value of it, though never one older than it got    *)
(* before: readSeen is the m_read the producer's next load returns,        *)
(* writeSeen the m_write the consumer's next load returns, and the two     *)
(* Visible actions bring them forward one store at a time.  The memcpy of  *)
(* a value is two steps, so that a reader of a half-written slot would     *)
(* read Torn.                                                              *)
(*                                                                         *)
(* A push that finds the ring full, and a pop that finds it empty, return  *)
(* false and change nothing: they are stuttering steps.                    *)
(***************************************************************************)
EXTENDS Integers, Sequences

CONSTANTS
  Capacity,  \* the argument of init; the ring has one slot more
  Value,     \* the values pushed
  Torn       \* the content of a slot whose memcpy has not finished

ASSUME CapacityAssumption == Capacity \in Nat \ {0}
ASSUME TornAssumption == Torn \notin Value

VARIABLES
  data,       \* m_data
  read,       \* m_read, as the consumer last stored it
  write,      \* m_write, as the producer last stored it
  readSeen,   \* m_read as the producer sees it
  writeSeen,  \* m_write as the consumer sees it
  pushing,    \* where the producer is in push
  pushed,     \* the value it is pushing
  popping,    \* where the consumer is in pop
  popped,     \* what it has copied out of the slot
  out         \* what the last finished pop returned

vars == <<data, read, write, readSeen, writeSeen, pushing, pushed,
          popping, popped, out>>
producerVars == <<pushing, pushed>>
consumerVars == <<popping, popped, out>>

Slots == 0..Capacity
\* Torn stands for "no value" where a variable has not been assigned.
Content == Value \cup {Torn}

Increment(index) == IF index = Capacity THEN 0 ELSE index + 1

\* The number of increments that lead from index a to index b.
Distance(a, b) == IF a <= b THEN b - a ELSE b - a + Capacity + 1

Init == /\ data = [s \in Slots |-> Torn]
        /\ read = 0 /\ write = 0
        /\ readSeen = 0 /\ writeSeen = 0
        /\ pushing = "idle" /\ pushed = Torn
        /\ popping = "idle" /\ popped = Torn
        /\ out = Torn

-----------------------------------------------------------------------------
(* push *)

\* Each definition named Bad... is a plausible mistake in the definition it
\* precedes (a mutant); nothing else uses it.
BadPushBegin(v) ==  \* no full test
  /\ pushing = "idle"
  /\ pushing' = "copying" /\ pushed' = v
  /\ data' = [data EXCEPT ![write] = Torn]
  /\ UNCHANGED <<read, write, readSeen, writeSeen, consumerVars>>

\* Both loads and the full test; the memcpy starts.
PushBegin(v) ==
  /\ pushing = "idle"
  /\ Increment(write) # readSeen
  /\ pushing' = "copying"
  /\ pushed' = v
  /\ data' = [data EXCEPT ![write] = Torn]
  /\ UNCHANGED <<read, write, readSeen, writeSeen, consumerVars>>

\* The memcpy ends.
PushCopied ==
  /\ pushing = "copying"
  /\ pushing' = "copied"
  /\ data' = [data EXCEPT ![write] = pushed]
  /\ UNCHANGED <<read, write, readSeen, writeSeen, pushed, consumerVars>>

BadPushPublish ==  \* the store may overtake the memcpy
  /\ pushing \in {"copying", "copied"}
  /\ pushing' = "idle" /\ write' = Increment(write)
  /\ UNCHANGED <<data, read, readSeen, writeSeen, pushed, consumerVars>>

\* The release store of m_write; push returns true.
PushPublish ==
  /\ pushing = "copied"
  /\ pushing' = "idle"
  /\ write' = Increment(write)
  /\ UNCHANGED <<data, read, readSeen, writeSeen, pushed, consumerVars>>

-----------------------------------------------------------------------------
(* pop *)

\* Both loads and the empty test; the memcpy starts.
PopBegin ==
  /\ popping = "idle"
  /\ read # writeSeen
  /\ popping' = "copying"
  /\ UNCHANGED <<data, read, write, readSeen, writeSeen, producerVars, popped, out>>

\* The memcpy ends.
PopCopied ==
  /\ popping = "copying"
  /\ popping' = "copied"
  /\ popped' = data[read]
  /\ UNCHANGED <<data, read, write, readSeen, writeSeen, producerVars, out>>

BadPopRelease ==  \* the slot is never given back
  /\ popping = "copied"
  /\ popping' = "idle" /\ out' = popped
  /\ UNCHANGED <<data, read, write, readSeen, writeSeen, producerVars, popped>>

\* The release store of m_read; pop returns true.
PopRelease ==
  /\ popping = "copied"
  /\ popping' = "idle"
  /\ read' = Increment(read)
  /\ out' = popped
  /\ UNCHANGED <<data, write, readSeen, writeSeen, producerVars, popped>>

-----------------------------------------------------------------------------
(* clear, and the visibility of the stores *)

\* Two relaxed stores: a caller must keep both threads out of the queue
\* and order clear before their next operation.
Clear ==
  /\ pushing = "idle" /\ popping = "idle"
  /\ read' = 0 /\ write' = 0
  /\ readSeen' = 0 /\ writeSeen' = 0
  /\ UNCHANGED <<data, producerVars, consumerVars>>

\* One more of the consumer's stores reaches the producer.
ReadVisible ==
  /\ readSeen # read
  /\ readSeen' = Increment(readSeen)
  /\ UNCHANGED <<data, read, write, writeSeen, producerVars, consumerVars>>

\* One more of the producer's stores reaches the consumer.
WriteVisible ==
  /\ writeSeen # write
  /\ writeSeen' = Increment(writeSeen)
  /\ UNCHANGED <<data, read, write, readSeen, producerVars, consumerVars>>

Next ==
  \/ \E v \in Value : PushBegin(v)
  \/ PushCopied \/ PushPublish
  \/ PopBegin \/ PopCopied \/ PopRelease
  \/ Clear
  \/ ReadVisible \/ WriteVisible

SafeSpec == Init /\ [][Next]_vars

\* The calls are wait-free, a store becomes visible in finite time, and the
\* consumer polls.  Nobody is obliged to push or to clear.
Fairness ==
  /\ WF_vars(PushCopied \/ PushPublish)
  /\ WF_vars(PopBegin \/ PopCopied \/ PopRelease)
  /\ WF_vars(ReadVisible) /\ WF_vars(WriteVisible)

Spec == SafeSpec /\ Fairness

-----------------------------------------------------------------------------
(* Properties *)

TypeOK ==
  /\ data \in [Slots -> Content]
  /\ read \in Slots /\ write \in Slots
  /\ readSeen \in Slots /\ writeSeen \in Slots
  /\ pushing \in {"idle", "copying", "copied"} /\ pushed \in Content
  /\ popping \in {"idle", "copying", "copied"} /\ popped \in Content
  /\ out \in Content

\* Around the ring the four indices keep the order readSeen, read,
\* writeSeen, write within one lap: no stale load lets the producer lap the
\* consumer, nor the consumer run past what was published.
ViewsInOrder ==
  Distance(readSeen, read) + Distance(read, writeSeen)
    + Distance(writeSeen, write) <= Capacity

\* A thread inside its memcpy has the room, or the value, that its load
\* promised it: what it saw can only have become more favourable.
LoadsStayTrue ==
  /\ pushing # "idle" => Increment(write) # readSeen
  /\ popping # "idle" => read # writeSeen

\* Every slot between read and write holds a complete value, and so do the
\* private copies of the two threads.
PublishedIsComplete ==
  /\ \A s \in Slots : Distance(read, s) < Distance(read, write) => data[s] \in Value
  /\ pushing # "idle" => pushed \in Value
  /\ pushing = "copied" => data[write] = pushed
  /\ popping = "copied" => popped = data[read]

\* The two memcpys never touch one slot at the same time, whatever the
\* delay with which each thread sees the other's index (push lines 36-42
\* against pop lines 47-52).
NoDataRace == ~(/\ pushing = "copying" /\ popping = "copying"
                /\ write = read)

Inv == TypeOK /\ ViewsInOrder /\ LoadsStayTrue /\ PublishedIsComplete

\* The values held, oldest first.
SlotAt(i) == IF read + i - 1 <= Capacity THEN read + i - 1
                                         ELSE read + i - 1 - (Capacity + 1)
Held == [i \in 1..Distance(read, write) |-> data[SlotAt(i)]]

Fifo == INSTANCE BoundedFifo WITH fifo <- Held, None <- Torn

\* The ring implements the bounded queue: every value push accepted comes out
\* of pop once, whole, and in order, and a refused push or pop changes nothing.
ImplementsFifo == Fifo!SafeSpec

\* A value that stays in the ring is popped in the end: the consumer's stale
\* m_write does not hide it for ever.
EventuallyPopped == Fifo!Delivery

\* A producer that sees the ring full sees room again: a stale m_read does
\* not keep push failing for ever (the main thread retries each frame).
RoomReturns == (Increment(write) = readSeen) ~> (Increment(write) # readSeen)
=============================================================================
