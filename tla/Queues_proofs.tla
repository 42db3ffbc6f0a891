--------------------------- MODULE Queues_proofs ---------------------------
(***************************************************************************)
(* Proofs about the queues, in three parts.                                *)
(*                                                                         *)
(* SpscQueue, for every capacity and every set of values.  Inv is the      *)
(* inductive invariant; its core is ViewsInOrder, without which nothing    *)
(* relates an index to the stale view another thread has of it.            *)
(*                                                                         *)
(* LspPipe (Pipe), for every chunk, every set of message sizes and every    *)
(* number of messages.  PipeInv says what the messages written have become: *)
(* Carried, that they lie whole and complete between the wire and the queues,  *)
(* and that after short writes nothing waits in the backlog of a pipe that  *)
(* could take bytes.                                                        *)
(*                                                                          *)
(* GitClient (Git), for every number of files, pages and requests.  GitInv   *)
(* follows what is on its way: what the editor shows, and what each result  *)
(* in the queue brings, is what the repository is, unless something that    *)
(* comes later in the queues will tell (LogMovesAfter, ToldAfter).           *)
(***************************************************************************)
EXTENDS MCQueues, MCGitClient, SequenceTheorems, FiniteSetTheorems, WellFoundedInduction,
        TLAPS

USE CapacityAssumption, TornAssumption

-----------------------------------------------------------------------------
(* The arithmetic of the ring *)

LEMMA IncrementType ==
  ASSUME NEW a \in Slots
  PROVE  Increment(a) \in Slots /\ Increment(a) # a
BY DEF Slots, Increment

LEMMA DistanceType ==
  ASSUME NEW a \in Slots, NEW b \in Slots
  PROVE  /\ Distance(a, b) \in 0..Capacity
         /\ Distance(a, b) = 0 <=> a = b
BY DEF Slots, Distance

\* Moving the far end away adds one, until the lap is complete.
LEMMA DistanceFarEnd ==
  ASSUME NEW a \in Slots, NEW b \in Slots, Increment(b) # a
  PROVE  Distance(a, Increment(b)) = Distance(a, b) + 1
BY DEF Slots, Distance, Increment

\* Moving the near end forward takes one away, unless it is at the far end.
LEMMA DistanceNearEnd ==
  ASSUME NEW a \in Slots, NEW b \in Slots, a # b
  PROVE  Distance(Increment(a), b) = Distance(a, b) - 1
BY DEF Slots, Distance, Increment

\* Within one lap distances add up.
LEMMA DistanceAdds ==
  ASSUME NEW a \in Slots, NEW b \in Slots, NEW c \in Slots,
         Distance(a, b) + Distance(b, c) <= Capacity
  PROVE  Distance(a, c) = Distance(a, b) + Distance(b, c)
BY DEF Slots, Distance

LEMMA DistanceCancels ==
  ASSUME NEW a \in Slots, NEW b \in Slots, NEW c \in Slots,
         Distance(a, b) = Distance(a, c)
  PROVE  b = c
BY DEF Slots, Distance

-----------------------------------------------------------------------------
(* The inductive invariant *)

LEMMA TypeStep == TypeOK /\ [Next]_vars => TypeOK'
<1> USE DEF TypeOK, Content
<1> SUFFICES ASSUME TypeOK, [Next]_vars PROVE TypeOK'
  OBVIOUS
<1>1. /\ Increment(read) \in Slots /\ Increment(write) \in Slots
      /\ Increment(readSeen) \in Slots /\ Increment(writeSeen) \in Slots
  BY IncrementType
<1>2. ASSUME NEW v \in Value, PushBegin(v) PROVE TypeOK'
  BY <1>2 DEF PushBegin, consumerVars
<1>3. CASE PushCopied
  BY <1>3 DEF PushCopied, consumerVars
<1>4. CASE PushPublish
  BY <1>1, <1>4 DEF PushPublish, consumerVars
<1>5. CASE PopBegin
  BY <1>5 DEF PopBegin, producerVars
<1>6. CASE PopCopied
  BY <1>6 DEF PopCopied, producerVars
<1>7. CASE PopRelease
  BY <1>1, <1>7 DEF PopRelease, producerVars
<1>8. CASE Clear
  BY <1>8 DEF Clear, producerVars, consumerVars, Slots
<1>9. CASE ReadVisible
  BY <1>1, <1>9 DEF ReadVisible, producerVars, consumerVars
<1>10. CASE WriteVisible
  BY <1>1, <1>10 DEF WriteVisible, producerVars, consumerVars
<1>11. CASE UNCHANGED vars
  BY <1>11 DEF vars
<1>12. QED
  BY <1>2, <1>3, <1>4, <1>5, <1>6, <1>7, <1>8, <1>9, <1>10, <1>11 DEF Next

\* The bounds that ViewsInOrder and the two threads' guards give on each index.
LEMMA Window ==
  ASSUME TypeOK, ViewsInOrder, LoadsStayTrue
  PROVE  /\ Distance(read, write) = Distance(read, writeSeen) + Distance(writeSeen, write)
         /\ Distance(readSeen, write) = Distance(readSeen, read) + Distance(read, write)
         /\ popping # "idle" => Distance(read, writeSeen) > 0
         /\ pushing # "idle" => /\ Increment(write) # readSeen
                                /\ Increment(write) # read
                                /\ Increment(write) # writeSeen
<1> USE DEF TypeOK
<1> DEFINE rr == Distance(readSeen, read)
           rw == Distance(read, writeSeen)
           ww == Distance(writeSeen, write)
<1>1. rr \in 0..Capacity /\ rw \in 0..Capacity /\ ww \in 0..Capacity
  BY DistanceType
<1>2. rr + rw + ww <= Capacity
  BY DEF ViewsInOrder
<1>3. Distance(read, write) = rw + ww
  <2>1. rw + ww <= Capacity
    BY <1>1, <1>2
  <2>2. QED
    BY <2>1, DistanceAdds
<1>4. Distance(readSeen, write) = rr + Distance(read, write)
  <2>1. rr + Distance(read, write) <= Capacity
    BY <1>1, <1>2, <1>3
  <2>2. QED
    BY <2>1, DistanceAdds
<1>5. popping # "idle" => Distance(read, writeSeen) > 0
  BY DistanceType DEF LoadsStayTrue
<1>6. ASSUME pushing # "idle"
      PROVE  /\ Increment(write) # readSeen
             /\ Increment(write) # read
             /\ Increment(write) # writeSeen
  <2>1. Increment(write) # readSeen
    BY <1>6 DEF LoadsStayTrue
  <2>2. Distance(readSeen, Increment(write)) = rr + rw + ww + 1
    BY <2>1, <1>3, <1>4, DistanceFarEnd, <1>1
  <2>3. Distance(readSeen, writeSeen) = rr + rw
    <3>1. rr + rw <= Capacity
      BY <1>1, <1>2
    <3>2. QED
      BY <3>1, DistanceAdds
  <2>4. QED
    BY <1>1, <1>2, <2>1, <2>2, <2>3
<1>7. QED
  BY <1>3, <1>4, <1>5, <1>6

LEMMA ViewsStep == Inv /\ [Next]_vars => ViewsInOrder'
<1> SUFFICES ASSUME Inv, [Next]_vars PROVE ViewsInOrder'
  OBVIOUS
<1> USE DEF Inv
<1>1. /\ read \in Slots /\ write \in Slots
      /\ readSeen \in Slots /\ writeSeen \in Slots
  BY DEF TypeOK
<1>2. /\ Distance(readSeen, read) \in 0..Capacity
      /\ Distance(read, writeSeen) \in 0..Capacity
      /\ Distance(writeSeen, write) \in 0..Capacity
  BY <1>1, DistanceType
<1>3. Distance(readSeen, read) + Distance(read, writeSeen)
        + Distance(writeSeen, write) <= Capacity
  BY DEF ViewsInOrder
<1>4. CASE UNCHANGED <<read, write, readSeen, writeSeen>>
  BY <1>3, <1>4 DEF ViewsInOrder
<1>5. CASE PushPublish
  <2>1. pushing # "idle"
    BY <1>5 DEF PushPublish
  <2>2. Distance(readSeen, write) = Distance(readSeen, read)
          + Distance(read, writeSeen) + Distance(writeSeen, write)
    BY Window, <1>2
  <2>3. Distance(readSeen, Increment(write)) = Distance(readSeen, write) + 1
    BY Window, <2>1, <1>1, DistanceFarEnd
  <2>4. Distance(writeSeen, Increment(write)) = Distance(writeSeen, write) + 1
    BY Window, <2>1, <1>1, DistanceFarEnd
  <2>5. Distance(readSeen, Increment(write)) \in 0..Capacity
    BY <1>1, IncrementType, DistanceType
  <2>6. QED
    BY <1>2, <1>5, <2>2, <2>3, <2>4, <2>5 DEF PushPublish, ViewsInOrder
<1>6. CASE PopRelease
  <2>1. popping # "idle" /\ read # writeSeen
    BY <1>6 DEF PopRelease, LoadsStayTrue
  <2>2. Distance(Increment(read), writeSeen) = Distance(read, writeSeen) - 1
    BY <1>1, <2>1, DistanceNearEnd
  <2>3. Increment(read) # readSeen
    <3>1. Distance(readSeen, read) < Capacity
      BY <1>1, <1>2, <1>3, <2>1, DistanceType
    <3>2. QED
      BY <3>1, <1>1 DEF Slots, Distance, Increment
  <2>4. Distance(readSeen, Increment(read)) = Distance(readSeen, read) + 1
    BY <1>1, <2>3, DistanceFarEnd
  <2>5. QED
    BY <1>2, <1>3, <1>6, <2>2, <2>4 DEF PopRelease, ViewsInOrder
<1>7. CASE Clear
  BY <1>7 DEF Clear, ViewsInOrder, Distance
<1>8. CASE ReadVisible
  <2>1. Distance(Increment(readSeen), read) = Distance(readSeen, read) - 1
    BY <1>1, <1>8, DistanceNearEnd DEF ReadVisible
  <2>2. QED
    BY <1>2, <1>3, <1>8, <2>1 DEF ReadVisible, ViewsInOrder
<1>9. CASE WriteVisible
  <2>1. Distance(Increment(writeSeen), write) = Distance(writeSeen, write) - 1
    BY <1>1, <1>9, DistanceNearEnd DEF WriteVisible
  <2>2. Increment(writeSeen) # read
    <3>1. Distance(read, writeSeen) < Capacity
      BY <1>1, <1>2, <1>3, <1>9, DistanceType DEF WriteVisible
    <3>2. QED
      BY <3>1, <1>1 DEF Slots, Distance, Increment
  <2>3. Distance(read, Increment(writeSeen)) = Distance(read, writeSeen) + 1
    BY <1>1, <2>2, DistanceFarEnd
  <2>4. QED
    BY <1>2, <1>3, <1>9, <2>1, <2>3 DEF WriteVisible, ViewsInOrder
<1>10. QED
  BY <1>4, <1>5, <1>6, <1>7, <1>8, <1>9
  DEF Next, vars, PushBegin, PushCopied, PopBegin, PopCopied

LEMMA LoadsStep == Inv /\ [Next]_vars => LoadsStayTrue'
<1> SUFFICES ASSUME Inv, [Next]_vars PROVE LoadsStayTrue'
  OBVIOUS
<1> USE DEF Inv
<1>1. /\ read \in Slots /\ write \in Slots
      /\ readSeen \in Slots /\ writeSeen \in Slots
  BY DEF TypeOK
<1>2. ASSUME NEW v \in Value, PushBegin(v) PROVE LoadsStayTrue'
  BY <1>2 DEF PushBegin, consumerVars, LoadsStayTrue
<1>3. CASE PushCopied
  BY <1>3 DEF PushCopied, consumerVars, LoadsStayTrue
<1>4. CASE PushPublish
  BY <1>4 DEF PushPublish, consumerVars, LoadsStayTrue
<1>5. CASE PopBegin
  BY <1>5 DEF PopBegin, producerVars, LoadsStayTrue
<1>6. CASE PopCopied
  BY <1>6 DEF PopCopied, producerVars, LoadsStayTrue
<1>7. CASE PopRelease
  BY <1>7 DEF PopRelease, producerVars, LoadsStayTrue
<1>8. CASE Clear
  BY <1>8 DEF Clear, producerVars, consumerVars, LoadsStayTrue
<1>9. CASE ReadVisible
  \* The producer's view moves towards read, which write + 1 has not reached.
  <2>1. ASSUME pushing # "idle" PROVE Increment(write) # Increment(readSeen)
    <3>1. readSeen # write
      BY <1>1, <1>9, Window, DistanceType DEF ReadVisible
    <3>2. QED
      BY <3>1, <1>1 DEF Slots, Increment
  <2>2. QED
    BY <1>9, <2>1 DEF ReadVisible, producerVars, consumerVars, LoadsStayTrue
<1>10. CASE WriteVisible
  <2>1. ASSUME popping # "idle" PROVE read # Increment(writeSeen)
    <3>1. Distance(read, writeSeen) < Capacity
      BY <1>1, <1>10, DistanceType DEF WriteVisible, ViewsInOrder
    <3>2. QED
      BY <3>1, <1>1 DEF Slots, Distance, Increment
  <2>2. QED
    BY <1>10, <2>1 DEF WriteVisible, producerVars, consumerVars, LoadsStayTrue
<1>11. CASE UNCHANGED vars
  BY <1>11 DEF vars, LoadsStayTrue
<1>12. QED
  BY <1>2, <1>3, <1>4, <1>5, <1>6, <1>7, <1>8, <1>9, <1>10, <1>11 DEF Next

\* A slot that is published keeps its value: the producer writes only to the
\* slot at write, which is not one of them.
LEMMA PublishedStep == Inv /\ [Next]_vars => PublishedIsComplete'
<1> SUFFICES ASSUME Inv, [Next]_vars PROVE PublishedIsComplete'
  OBVIOUS
<1> USE DEF Inv
<1>1. /\ read \in Slots /\ write \in Slots
      /\ readSeen \in Slots /\ writeSeen \in Slots
      /\ data \in [Slots -> Content]
  BY DEF TypeOK
<1> DEFINE Published(s) == Distance(read, s) < Distance(read, write)
<1>2. ~Published(write)
  BY <1>1, DistanceType
<1>3. popping # "idle" => Published(read)
  BY <1>1, Window, DistanceType
<1>4. ASSUME NEW v \in Value, PushBegin(v) PROVE PublishedIsComplete'
  <2>1. \A s \in Slots : Published(s) => data'[s] = data[s]
    BY <1>1, <1>2, <1>4 DEF PushBegin
  <2>2. popping = "copied" => data'[read] = data[read]
    BY <1>1, <1>3, <2>1
  <2>3. QED
    BY <1>4, <2>1, <2>2 DEF PushBegin, consumerVars, PublishedIsComplete
<1>5. CASE PushCopied
  <2>1. \A s \in Slots : Published(s) => data'[s] = data[s]
    BY <1>1, <1>2, <1>5 DEF PushCopied
  <2>2. popping = "copied" => data'[read] = data[read]
    BY <1>1, <1>3, <2>1
  <2>3. data'[write] = pushed
    BY <1>1, <1>5 DEF PushCopied
  <2>4. QED
    BY <1>5, <2>1, <2>2, <2>3 DEF PushCopied, consumerVars, PublishedIsComplete
<1>6. CASE PushPublish
  <2>1. Distance(read, Increment(write)) = Distance(read, write) + 1
    BY <1>1, <1>6, Window, DistanceFarEnd DEF PushPublish
  <2>2. data[write] \in Value
    BY <1>6 DEF PushPublish, PublishedIsComplete
  <2>3. \A s \in Slots : Distance(read, s) < Distance(read, write) + 1 => data[s] \in Value
    <3>1. TAKE s \in Slots
    <3>2. Distance(read, s) \in 0..Capacity /\ Distance(read, write) \in 0..Capacity
      BY <1>1, DistanceType
    <3>3. Distance(read, s) = Distance(read, write) => s = write
      BY <1>1, DistanceCancels
    <3>4. QED
      BY <2>2, <3>2, <3>3 DEF PublishedIsComplete
  <2>4. QED
    BY <1>6, <2>1, <2>3 DEF PushPublish, consumerVars, PublishedIsComplete
<1>7. CASE PopBegin
  BY <1>7 DEF PopBegin, producerVars, PublishedIsComplete
<1>8. CASE PopCopied
  BY <1>8 DEF PopCopied, producerVars, PublishedIsComplete
<1>9. CASE PopRelease
  <2>1. Published(read) /\ read # write
    BY <1>3, <1>2, <1>9 DEF PopRelease
  <2>2. Distance(Increment(read), write) = Distance(read, write) - 1
    BY <1>1, <2>1, DistanceNearEnd
  <2>3. ASSUME NEW s \in Slots, Distance(Increment(read), s) < Distance(Increment(read), write)
        PROVE  Published(s)
    <3>1. s # read
      BY <1>1, <2>1, <2>3 DEF Slots, Distance, Increment
    <3>2. Distance(Increment(read), s) = Distance(read, s) - 1
      BY <1>1, <3>1, DistanceNearEnd
    <3>3. Distance(read, s) \in Int /\ Distance(read, write) \in Int
      BY <1>1, DistanceType
    <3>4. QED
      BY <2>2, <2>3, <3>2, <3>3
  <2>4. QED
    BY <1>9, <2>3 DEF PopRelease, producerVars, PublishedIsComplete
<1>10. CASE Clear
  <2>1. \A s \in Slots : ~(Distance(0, s) < Distance(0, 0))
    BY DEF Slots, Distance
  <2>2. QED
    BY <1>10, <2>1 DEF Clear, producerVars, consumerVars, PublishedIsComplete
<1>11. CASE ReadVisible
  BY <1>11 DEF ReadVisible, producerVars, consumerVars, PublishedIsComplete
<1>12. CASE WriteVisible
  BY <1>12 DEF WriteVisible, producerVars, consumerVars, PublishedIsComplete
<1>13. CASE UNCHANGED vars
  BY <1>13 DEF vars, PublishedIsComplete
<1>14. QED
  BY <1>4, <1>5, <1>6, <1>7, <1>8, <1>9, <1>10, <1>11, <1>12, <1>13 DEF Next

LEMMA InvInit == Init => Inv
<1>1. Init => TypeOK
  BY DEF Init, TypeOK, Slots, Content
<1>2. Init => ViewsInOrder
  BY DEF Init, ViewsInOrder, Distance
<1>3. Init => LoadsStayTrue
  BY DEF Init, LoadsStayTrue
<1>4. Init => PublishedIsComplete
  BY DEF Init, PublishedIsComplete, Slots, Distance
<1>5. QED
  BY <1>1, <1>2, <1>3, <1>4 DEF Inv

LEMMA InvStep == Inv /\ [Next]_vars => Inv'
BY TypeStep, ViewsStep, LoadsStep, PublishedStep DEF Inv

\* Every index is a slot of the ring and every slot holds a value or is Torn.
THEOREM TypeCorrect == SafeSpec => []TypeOK
<1>1. Inv => TypeOK
  BY DEF Inv
<1>2. QED
  BY InvInit, InvStep, <1>1, PTL DEF SafeSpec

\* The four indices stay within one lap, whatever the capacity and the delays.
THEOREM ViewsStayInOrder == SafeSpec => []ViewsInOrder
<1>1. Inv => ViewsInOrder
  BY DEF Inv
<1>2. QED
  BY InvInit, InvStep, <1>1, PTL DEF SafeSpec

\* What lies between m_read and m_write is complete.
THEOREM NothingTornIsPublished == SafeSpec => []PublishedIsComplete
<1>1. Inv => PublishedIsComplete
  BY DEF Inv
<1>2. QED
  BY InvInit, InvStep, <1>1, PTL DEF SafeSpec

\* push and pop never copy into and out of one slot at the same time.
THEOREM RaceFreedom == SafeSpec => []NoDataRace
<1>1. Inv => NoDataRace
  BY Window, DistanceType DEF Inv, NoDataRace, TypeOK
<1>2. QED
  BY InvInit, InvStep, <1>1, PTL DEF SafeSpec

-----------------------------------------------------------------------------
(* Refinement: the ring implements BoundedFifo *)

LEMMA SlotAtType ==
  ASSUME TypeOK, NEW i \in 1..Distance(read, write)
  PROVE  SlotAt(i) \in Slots /\ Distance(read, SlotAt(i)) = i - 1
BY DEF TypeOK, SlotAt, Slots, Distance

LEMMA HeldType ==
  ASSUME Inv
  PROVE  /\ Held \in Seq(Value)
         /\ Len(Held) = Distance(read, write)
         /\ DOMAIN Held = 1..Distance(read, write)
<1>1. Distance(read, write) \in Nat
  BY DistanceType DEF Inv, TypeOK
<1>2. \A i \in 1..Distance(read, write) : data[SlotAt(i)] \in Value
  <2>1. TAKE i \in 1..Distance(read, write)
  <2>2. SlotAt(i) \in Slots /\ Distance(read, SlotAt(i)) < Distance(read, write)
    BY <1>1, SlotAtType DEF Inv
  <2>3. QED
    BY <2>2 DEF Inv, PublishedIsComplete
<1>3. QED
  BY <1>1, <1>2 DEF Held

\* A step that moves neither index and writes at most the free slot at write.
LEMMA HeldUnchanged ==
  ASSUME Inv, UNCHANGED <<read, write>>,
         \A s \in Slots : s # write => data'[s] = data[s]
  PROVE  Held' = Held
<1>1. \A i \in 1..Distance(read, write) : SlotAt(i) \in Slots /\ SlotAt(i) # write
  BY SlotAtType, DistanceType DEF Inv, TypeOK
<1>2. \A i \in 1..Distance(read, write) : data'[SlotAt(i)] = data[SlotAt(i)]
  BY <1>1
<1>3. QED
  BY <1>2 DEF Held, SlotAt

LEMMA PublishAppends ==
  ASSUME Inv, PushPublish
  PROVE  /\ Held' = Append(Held, pushed)
         /\ Len(Held) < Capacity
<1> USE DEF Inv
<1> DEFINE n == Distance(read, write)
<1>1. read \in Slots /\ write \in Slots /\ n \in 0..Capacity
  BY DistanceType DEF TypeOK
<1>2. Increment(write) # read
  BY Window DEF PushPublish
<1>3. Distance(read, Increment(write)) = n + 1
  BY <1>1, <1>2, DistanceFarEnd
<1>4. n < Capacity
  BY <1>1, <1>3, IncrementType, DistanceType
<1>5. SlotAt(n + 1) = write
  BY <1>1 DEF SlotAt, Slots, Distance
<1>6. data[write] = pushed
  BY DEF PushPublish, PublishedIsComplete
<1>7. Held' = [i \in 1..(n + 1) |-> data[SlotAt(i)]]
  BY <1>3 DEF PushPublish, Held, SlotAt
<1>8. Held \in Seq(Value) /\ Len(Held) = n
  BY HeldType
<1>9. Append(Held, pushed) = [i \in 1..(n + 1) |-> data[SlotAt(i)]]
  <2> DEFINE A == Append(Held, pushed)
  <2>1. pushed \in Value
    BY DEF PushPublish, PublishedIsComplete
  <2>2. /\ A \in Seq(Value) /\ Len(A) = n + 1
        /\ \A i \in 1..n : A[i] = Held[i]
        /\ A[n + 1] = pushed
    BY <1>8, <2>1, AppendProperties
  <2>3. A = [i \in 1..(n + 1) |-> A[i]]
    BY <2>2, LenProperties
  <2>4. \A i \in 1..n : Held[i] = data[SlotAt(i)]
    BY DEF Held
  <2>5. \A i \in 1..(n + 1) : A[i] = data[SlotAt(i)]
    BY <1>1, <2>2, <2>4, <1>5, <1>6
  <2>6. QED
    BY <2>3, <2>5
<1>10. QED
  BY <1>1, <1>4, <1>7, <1>8, <1>9

LEMMA ReleaseTakesHead ==
  ASSUME Inv, PopRelease
  PROVE  /\ Held # <<>>
         /\ popped = Head(Held)
         /\ Held' = Tail(Held)
<1> USE DEF Inv
<1> DEFINE n == Distance(read, write)
<1>1. read \in Slots /\ write \in Slots /\ n \in 0..Capacity
  BY DistanceType DEF TypeOK
<1>2. n > 0 /\ read # write
  BY <1>1, Window, DistanceType DEF PopRelease, TypeOK
<1>3. Distance(Increment(read), write) = n - 1
  BY <1>1, <1>2, DistanceNearEnd
<1>4. Held \in Seq(Value) /\ Len(Held) = n
  BY HeldType
<1>5. SlotAt(1) = read
  BY <1>1 DEF SlotAt, Slots
<1>6. popped = Held[1]
  BY <1>1, <1>2, <1>5 DEF PopRelease, PublishedIsComplete, Held
<1>7. ASSUME NEW i \in 1..(n - 1) PROVE SlotAt(i)' = SlotAt(i + 1)
  BY <1>1, <1>7 DEF PopRelease, SlotAt, Increment, Slots
<1>8. Held' = [i \in 1..(n - 1) |-> data[SlotAt(i + 1)]]
  <2>1. Held' = [i \in 1..(n - 1) |-> data[SlotAt(i)']]
    BY <1>3 DEF PopRelease, Held, SlotAt
  <2>2. QED
    BY <1>7, <2>1
<1>9. Tail(Held) = [i \in 1..(n - 1) |-> data[SlotAt(i + 1)]]
  <2> DEFINE T == Tail(Held)
  <2>1. /\ T \in Seq(Value) /\ Len(T) = n - 1
        /\ \A i \in 1..(n - 1) : T[i] = Held[i + 1]
    BY <1>1, <1>2, <1>4, HeadTailProperties
  <2>2. T = [i \in 1..(n - 1) |-> T[i]]
    BY <2>1, LenProperties
  <2>3. \A i \in 1..(n - 1) : Held[i + 1] = data[SlotAt(i + 1)]
    BY <1>1 DEF Held
  <2>4. QED
    BY <2>1, <2>2, <2>3
<1>10. Held # <<>> /\ Head(Held) = Held[1]
  BY <1>1, <1>2, <1>4
<1>11. QED
  BY <1>6, <1>8, <1>9, <1>10

LEMMA RefinesInit == Init => Fifo!Init
BY DEF Init, Fifo!Init, Held, Distance

LEMMA RefinesStep == Inv /\ [Next]_vars => [Fifo!Next]_Fifo!vars
<1> SUFFICES ASSUME Inv, [Next]_vars PROVE [Fifo!Next]_Fifo!vars
  OBVIOUS
<1> USE DEF Fifo!vars
<1>1. write \in Slots /\ data \in [Slots -> Content]
  BY DEF Inv, TypeOK
<1>2. ASSUME UNCHANGED <<data, read, write, out>> PROVE [Fifo!Next]_Fifo!vars
  BY <1>2, HeldUnchanged
<1>3. ASSUME NEW v \in Value, PushBegin(v) PROVE [Fifo!Next]_Fifo!vars
  BY <1>1, <1>3, HeldUnchanged DEF PushBegin, consumerVars
<1>4. CASE PushCopied
  BY <1>1, <1>4, HeldUnchanged DEF PushCopied, consumerVars
<1>5. CASE PushPublish
  <2>1. pushed \in Value /\ out' = out
    BY <1>5 DEF PushPublish, Inv, PublishedIsComplete, consumerVars
  <2>2. Fifo!Push(pushed)
    BY <1>5, <2>1, PublishAppends DEF Fifo!Push
  <2>3. QED
    BY <2>1, <2>2 DEF Fifo!Next
<1>6. CASE PopRelease
  <2>1. Fifo!Pop
    BY <1>6, ReleaseTakesHead DEF Fifo!Pop, PopRelease
  <2>2. QED
    BY <2>1 DEF Fifo!Next
<1>7. CASE Clear
  <2>1. Held' = <<>>
    BY <1>7 DEF Clear, Held, Distance
  <2>2. QED
    BY <1>7, <2>1 DEF Clear, consumerVars, Fifo!Clear, Fifo!Next
<1>8. QED
  BY <1>2, <1>3, <1>4, <1>5, <1>6, <1>7
  DEF Next, vars, PopBegin, PopCopied, ReadVisible, WriteVisible, producerVars, consumerVars

\* Every behaviour of the two threads is one of the bounded queue: values
\* come out whole, once and in the order they went in.
THEOREM RingIsFifo == SafeSpec => ImplementsFifo
BY InvInit, InvStep, RefinesInit, RefinesStep, PTL
DEF SafeSpec, ImplementsFifo, Fifo!SafeSpec

-----------------------------------------------------------------------------
(* The Git client: its inductive invariant *)

\* Commits are numbered from 1.
Commits == Seq(Nat \ {0})

EdType ==
    [sidebar: BOOLEAN, graph: BOOLEAN, slot: Git!Slots, pending: BOOLEAN,
     kind: Git!Actions \cup {"NONE", "REFRESH", "COMMIT_FILES"},
     refresh: BOOLEAN, logAsked: BOOLEAN, status: [Paths -> Git!Status], commits: Seq(Nat \ {0}),
     more: BOOLEAN, loading: BOOLEAN, wantMore: BOOLEAN, gen: Nat,
     open: SUBSET Nat, files: SUBSET Nat, error: BOOLEAN]

Request ==
    [kind: Git!Actions \ Git!PathActions] \cup [kind: Git!PathActions, path: Paths]
        \cup [kind: {"REFRESH"}, withLog: BOOLEAN] \cup [kind: {"COMMIT_FILES"}, oid: Nat]
        \cup [kind: {"COMMIT_PAGE"}, gen: Nat, offset: Nat]

Result ==
    [kind: Git!Actions \ Git!PathActions, ok: BOOLEAN]
        \cup [kind: Git!PathActions, ok: BOOLEAN, path: Paths, status: [Paths -> Git!Status]]
        \cup [kind: {"REFRESH"}, ok: BOOLEAN, status: [Paths -> Git!Status], logLoaded: BOOLEAN,
              commits: Seq(Nat \ {0})]
        \cup [kind: {"COMMIT_FILES"}, ok: BOOLEAN, oid: Nat]
        \cup [kind: {"COMMIT_PAGE"}, ok: BOOLEAN, gen: Nat, offset: Nat, commits: Seq(Nat \ {0})]

GitTypes ==
    /\ ed \in EdType /\ ed.pending = (ed.kind # "NONE")
    /\ phase \in {"sync", "input"}
    /\ requests \in Seq(Request) /\ Len(requests) <= GitQueue
    /\ results \in Seq(Result) /\ Len(results) <= GitQueue
    /\ worker \in {"idle", "tree"} /\ tree \in BOOLEAN /\ loadLog \in BOOLEAN
    /\ repo \in [status: [Paths -> Git!Status], log: Nat]
    /\ steps \in Nat

\* The commits of s are those of a log of n commits from the one at place k + 1 on.
PartOf(s, k, n) == \A i \in 1..Len(s) : s[i] = n + 1 - (k + i)

\* Something that comes after the i-th result will move the log.
LogMovesAfter(i) == \E j \in 1..Len(results) : j > i /\ results[j].kind = "COMMIT"

\* The commits shown are the newest, or the log is to be read again, or an error is shown.
LogOf(e, n) == PartOf(e.commits, 0, n) \/ e.logAsked \/ e.error
\* The commits of a result are those of the log, from its offset on.
LogIn(r, n) == \/ ~r.ok \/ r.kind \notin {"REFRESH", "COMMIT_PAGE"}
               \/ PartOf(r.commits, IF r.kind = "REFRESH" THEN 0 ELSE r.offset, n)

LogIsShown == LogOf(ed, repo.log) \/ LogMovesAfter(0)
LogIsInResults == \A i \in 1..Len(results) : LogIn(results[i], repo.log) \/ LogMovesAfter(i)

\* The result tells what p is, or has the status read again.
Tells(r, p) == \/ r.kind \in {"REFRESH", "STAGE_ALL", "COMMIT"}
               \/ r.kind \in Git!PathActions /\ r.path = p

\* The status of p will be read, or has been read after the i-th result.
ToldAfter(i, p) ==
    \/ tree \/ worker = "tree"
    \/ \E j \in 1..Len(requests) : requests[j].kind = "REFRESH"
    \/ \E j \in 1..Len(results) : j > i /\ Tells(results[j], p)

\* The status shown for p is v, or is to be read again, or an error is shown.
StatusOf(e, p, v) == e.status[p] = v \/ e.refresh \/ e.error
\* The status that a result brings for p is v.
StatusIn(r, p, v) == \/ ~r.ok \/ ~(r.kind = "REFRESH" \/ (r.kind \in Git!PathActions /\ r.path = p))
                     \/ r.status[p] = v

StatusIsShown == \A p \in Paths : StatusOf(ed, p, repo.status[p]) \/ ToldAfter(0, p)
StatusIsInResults ==
    \A i \in 1..Len(results), p \in Paths :
        StatusIn(results[i], p, repo.status[p]) \/ ToldAfter(i, p)

Flying == ed.pending => \/ \E j \in 1..Len(requests) : requests[j].kind = ed.kind
                        \/ \E j \in 1..Len(results) : results[j].kind = ed.kind

GitInv == /\ GitTypes /\ Flying /\ LogIsShown /\ LogIsInResults
          /\ StatusIsShown /\ StatusIsInResults


\* Min of the library, of two numbers.
LEMMA MinOfTwo ==
  ASSUME NEW a \in Nat, NEW b \in Nat
  PROVE  Git!Min({a, b}) = IF a <= b THEN a ELSE b
<1>1. \A y \in {a, b} : (IF a <= b THEN a ELSE b) <= y
  OBVIOUS
<1>2. \A x \in {a, b} : (\A y \in {a, b} : x <= y) => x = IF a <= b THEN a ELSE b
  OBVIOUS
<1>3. QED
  BY <1>1, <1>2 DEF Git!Min

\* A stretch of the log.
LEMMA LogPart ==
  ASSUME NEW n \in Nat, NEW k \in Nat, NEW m \in Nat
  PROVE  LET s == SubSeq(Git!Log(n), k + 1, Git!Min({n, m})) IN s \in Commits /\ PartOf(s, k, n)
<1> DEFINE l == IF n <= m THEN n ELSE m
           s == SubSeq(Git!Log(n), k + 1, l)
<1>1. Git!Log(n) \in Seq(Nat \ {0}) /\ Len(Git!Log(n)) = n
      /\ \A i \in 1..n : Git!Log(n)[i] = n + 1 - i
  <2>1. Git!Log(n) \in [1..n -> Nat \ {0}]
    BY DEF Git!Log
  <2>2. QED
    BY <2>1, SeqDef DEF Git!Log
<1>2. l \in Nat /\ l <= n /\ Git!Min({n, m}) = l
  BY MinOfTwo
<1> HIDE DEF l
<1>3. CASE k + 1 <= l
  <2>1. /\ s \in Seq(Nat \ {0}) /\ Len(s) = l - k
        /\ \A i \in 1..Len(s) : s[i] = Git!Log(n)[k + i]
    BY <1>1, <1>2, <1>3, SubSeqProperties
  <2> HIDE DEF s
  <2>2. ASSUME NEW i \in 1..Len(s) PROVE s[i] = n + 1 - (k + i)
    <3>1. k + i \in 1..n
      BY <1>2, <1>3, <2>1
    <3>2. QED
      BY <1>1, <2>1, <3>1
  <2>3. QED
    BY <1>2, <2>1, <2>2 DEF s, PartOf, Commits
<1>4. CASE k + 1 > l
  <2>1. s = <<>>
    BY <1>1, <1>2, <1>4, SubSeqEmpty
  <2> HIDE DEF s
  <2>2. s \in Commits /\ PartOf(s, k, n)
    BY <2>1 DEF PartOf, Commits
  <2>3. QED
    BY <1>2, <2>2 DEF s
<1>5. QED
  BY <1>2, <1>3, <1>4

\* The beginning of a stretch of the log is one.
LEMMA PartTaken ==
  ASSUME NEW s \in Commits, NEW k \in Nat, NEW n \in Nat, PartOf(s, k, n),
         NEW m \in Nat, m <= Len(s)
  PROVE  SubSeq(s, 1, m) \in Commits /\ Len(SubSeq(s, 1, m)) = m /\ PartOf(SubSeq(s, 1, m), k, n)
<1> DEFINE t == SubSeq(s, 1, m)
<1>1. t \in Commits /\ Len(t) = m /\ \A i \in 1..m : t[i] = s[i]
  <2>1. CASE m = 0
    BY <2>1, SubSeqEmpty DEF Commits
  <2>2. CASE m # 0
    BY <2>2, SubSeqProperties DEF Commits
  <2>3. QED
    BY <2>1, <2>2
<1> HIDE DEF t
<1>2. QED
  BY <1>1 DEF PartOf, t

\* A list of commits that begins with the newest is the beginning of the log.
LEMMA PartIsPrefix ==
  ASSUME NEW s \in Commits, NEW n \in Nat, PartOf(s, 0, n)
  PROVE  s = SubSeq(Git!Log(n), 1, Len(s))
<1>1. Git!Log(n) \in Seq(Nat \ {0}) /\ Len(Git!Log(n)) = n
      /\ \A i \in 1..n : Git!Log(n)[i] = n + 1 - i
  <2>1. Git!Log(n) \in [1..n -> Nat \ {0}]
    BY DEF Git!Log
  <2>2. QED
    BY <2>1, SeqDef DEF Git!Log
<1>2. Len(s) \in Nat /\ Len(s) <= n
  <2>1. CASE s = <<>>
    BY <2>1
  <2>2. CASE s # <<>>
    <3>1. Len(s) \in 1..Len(s) /\ Len(s) \in Nat
      BY <2>2, LenProperties, EmptySeq DEF Commits
    <3>2. s[Len(s)] \in Nat \ {0}
      BY <3>1, ElementOfSeq DEF Commits
    <3>3. QED
      BY <3>1, <3>2 DEF PartOf
  <2>3. QED
    BY <2>1, <2>2
<1>3. CASE Len(s) = 0
  <2>1. s = <<>>
    BY <1>3, EmptySeq DEF Commits
  <2>2. SubSeq(Git!Log(n), 1, 0) = <<>>
    BY <1>1, SubSeqEmpty
  <2>3. QED
    BY <1>3, <2>1, <2>2
<1>4. CASE Len(s) # 0
  <2> DEFINE t == SubSeq(Git!Log(n), 1, Len(s))
  <2>1. /\ t \in Seq(Nat \ {0}) /\ Len(t) = Len(s)
        /\ \A i \in 1..Len(s) : t[i] = Git!Log(n)[i]
    BY <1>1, <1>2, <1>4, SubSeqProperties
  <2> HIDE DEF t
  <2>2. \A i \in 1..Len(s) : s[i] = t[i]
    BY <1>1, <1>2, <2>1 DEF PartOf
  <2>3. s = t
    BY <2>1, <2>2, SeqEqual DEF Commits
  <2>4. QED
    BY <2>3 DEF t
<1>5. QED
  BY <1>3, <1>4

\* A page that goes on where the list ends makes a longer list.
LEMMA PartsJoined ==
  ASSUME NEW s \in Commits, NEW t \in Commits, NEW n \in Nat,
         PartOf(s, 0, n), PartOf(t, Len(s), n)
  PROVE  PartOf(s \o t, 0, n)
<1>1. /\ Len(s \o t) = Len(s) + Len(t) /\ Len(s) \in Nat /\ Len(t) \in Nat
      /\ \A i \in 1..(Len(s) + Len(t)) :
             (s \o t)[i] = IF i <= Len(s) THEN s[i] ELSE t[i - Len(s)]
  BY ConcatProperties, LenProperties DEF Commits
<1>2. ASSUME NEW i \in 1..Len(s \o t) PROVE (s \o t)[i] = n + 1 - (0 + i)
  <2>1. CASE i <= Len(s)
    BY <1>1, <2>1 DEF PartOf
  <2>2. CASE i > Len(s)
    <3>1. i - Len(s) \in 1..Len(t)
      BY <1>1, <2>2
    <3>2. QED
      BY <1>1, <2>2, <3>1 DEF PartOf
  <2>3. QED
    BY <1>1, <2>1, <2>2
<1>3. QED
  BY <1>2 DEF PartOf

-----------------------------------------------------------------------------
(* The Git client: a result *)

\* What a result makes of the editor, as far as the rest of the invariant looks at it.
Applied(e, r, n) ==
    /\ n \in EdType /\ n.pending = (n.kind # "NONE")
    /\ IF r.kind = "COMMIT_PAGE" THEN n.pending = e.pending /\ n.kind = e.kind ELSE ~n.pending
    /\ e.error => n.error

LEMMA ApplyType ==
  ASSUME NEW e \in EdType, e.pending = (e.kind # "NONE"), NEW r \in Result
  PROVE  Applied(e, r, Git!Apply(r, e))
<1> DEFINE q == Git!NotPending(e)
<1>1. q \in EdType /\ ~q.pending /\ q.kind = "NONE" /\ q.error = e.error /\ q.commits = e.commits
  BY DEF Git!NotPending, EdType
<1> HIDE DEF q
<1>0. ASSUME NEW n \in EdType, ~n.pending, n.kind = "NONE", e.error => n.error,
             r.kind # "COMMIT_PAGE"
      PROVE  Applied(e, r, n)
  BY <1>0 DEF Applied, EdType
<1>2. CASE r.kind = "REFRESH"
  <2> DEFINE ended == [Git!NotPending(e) EXCEPT !.refresh = FALSE, !.logAsked = @ /\ ~r.logLoaded]
             got == [ended EXCEPT !.status = r.status]
  <2>1. r.ok \in BOOLEAN /\ r.status \in [Paths -> Git!Status] /\ r.logLoaded \in BOOLEAN
        /\ r.commits \in Commits
    BY <1>2 DEF Result, Git!Actions, Git!PathActions, Commits
  <2>2. PICK a \in BOOLEAN : ended = [q EXCEPT !.refresh = FALSE, !.logAsked = a]
    BY DEF q
  <2> HIDE DEF ended
  <2>3. /\ ended \in EdType /\ ~ended.pending /\ ended.kind = "NONE" /\ ended.error = e.error
        /\ got \in EdType /\ ~got.pending /\ got.kind = "NONE" /\ got.error = e.error
    BY <1>1, <2>1, <2>2, ZenonT(40) DEF EdType
  <2> HIDE DEF got
  <2>4. /\ Git!Trimmed(got, r.commits) \in EdType /\ ~Git!Trimmed(got, r.commits).pending
        /\ Git!Trimmed(got, r.commits).kind = "NONE" /\ Git!Trimmed(got, r.commits).error = e.error
    <3> DEFINE m == IF Len(r.commits) > Limit THEN Len(r.commits) - 1 ELSE Len(r.commits)
               c == SubSeq(r.commits, 1, m)
               b == Len(r.commits) > Limit
    <3>1. m \in Nat /\ m <= Len(r.commits) /\ b \in BOOLEAN
      BY <2>1, LenProperties, GitAssumption DEF Commits
    <3>2. c \in Seq(Nat \ {0})
      <4>1. CASE m = 0
        BY <4>1, <2>1, SubSeqEmpty DEF Commits
      <4>2. CASE m # 0
        BY <4>2, <2>1, <3>1, SubSeqProperties DEF Commits
      <4>3. QED
        BY <4>1, <4>2
    <3>3. Git!Trimmed(got, r.commits)
          = [got EXCEPT !.commits = c, !.more = b, !.files = {}, !.open = {}]
      BY DEF Git!Trimmed
    <3> HIDE DEF c, b
    <3>4. QED
      BY <2>3, <3>1, <3>2, <3>3, ZenonT(40) DEF EdType
  <2>5. Git!Apply(r, e) = IF ~r.ok THEN [ended EXCEPT !.error = TRUE]
                      ELSE IF r.logLoaded THEN Git!Trimmed(got, r.commits) ELSE got
    BY <1>2 DEF Git!Apply, Git!ApplyRefresh, ended, got
  <2>6. [ended EXCEPT !.error = TRUE] \in EdType /\ ~[ended EXCEPT !.error = TRUE].pending
        /\ [ended EXCEPT !.error = TRUE].kind = "NONE" /\ [ended EXCEPT !.error = TRUE].error
    BY <2>3 DEF EdType
  <2>7. CASE ~r.ok
    BY <1>0, <1>2, <2>5, <2>6, <2>7
  <2>8. CASE r.ok /\ r.logLoaded
    BY <1>0, <1>2, <2>4, <2>5, <2>8
  <2>9. CASE r.ok /\ ~r.logLoaded
    BY <1>0, <1>2, <2>3, <2>5, <2>9
  <2>10. QED
    BY <2>7, <2>8, <2>9
<1>3. CASE r.kind = "COMMIT_PAGE"
  <2> DEFINE ended == [e EXCEPT !.loading = FALSE]
             c == e.commits \o SubSeq(r.commits, 1, Git!Min({Len(r.commits), Page}))
             b == Len(r.commits) > Page
  <2>1. r.ok \in BOOLEAN /\ r.commits \in Commits
    BY <1>3 DEF Result, Git!Actions, Git!PathActions, Commits
  <2>2. c \in Seq(Nat \ {0}) /\ b \in BOOLEAN
    <3> DEFINE l == IF Len(r.commits) <= Page THEN Len(r.commits) ELSE Page
    <3>1. l \in Nat /\ l <= Len(r.commits) /\ Git!Min({Len(r.commits), Page}) = l
      BY <2>1, LenProperties, GitAssumption, MinOfTwo DEF Commits
    <3> HIDE DEF l
    <3>2. SubSeq(r.commits, 1, l) \in Seq(Nat \ {0})
      <4>1. CASE l = 0
        BY <4>1, <2>1, SubSeqEmpty DEF Commits
      <4>2. CASE l # 0
        BY <4>2, <2>1, <3>1, SubSeqProperties DEF Commits
      <4>3. QED
        BY <4>1, <4>2
    <3>3. e.commits \in Seq(Nat \ {0})
      BY DEF EdType
    <3>4. c \in Seq(Nat \ {0})
      BY <3>1, <3>2, <3>3, ConcatProperties
    <3>5. b \in BOOLEAN
      OBVIOUS
    <3>6. QED
      BY <3>4, <3>5
  <2> HIDE DEF c, b
  <2>3. ended \in EdType /\ ended.pending = e.pending /\ ended.kind = e.kind /\ ended.error = e.error
    BY DEF EdType
  <2> HIDE DEF ended
  <2>4. \/ Git!Apply(r, e) = e
        \/ Git!Apply(r, e) = ended
        \/ Git!Apply(r, e) = [ended EXCEPT !.error = TRUE]
        \/ Git!Apply(r, e) = [ended EXCEPT !.commits = c, !.more = b]
    <3>1. ended.commits = e.commits
      BY DEF ended, EdType
    <3>2. Git!Apply(r, e) = Git!AppendPage(e, r)
      BY <1>3 DEF Git!Apply
    <3>3. [ended EXCEPT !.commits = c, !.more = b]
          = [ended EXCEPT !.commits = @ \o SubSeq(r.commits, 1, Git!Min({Len(r.commits), Page})),
                          !.more = Len(r.commits) > Page]
      BY <3>1 DEF c, b
    <3>4. QED
      BY <3>2, <3>3 DEF Git!AppendPage, ended
  <2>5. ASSUME NEW n \in {e, ended, [ended EXCEPT !.error = TRUE],
                          [ended EXCEPT !.commits = c, !.more = b]}
        PROVE  /\ n \in EdType /\ n.pending = e.pending /\ n.kind = e.kind
               /\ e.error => n.error
    <3>1. CASE n = e \/ n = ended
      BY <2>3, <3>1
    <3>2. CASE n = [ended EXCEPT !.error = TRUE]
      BY <2>3, <3>2 DEF EdType
    <3>3. CASE n = [ended EXCEPT !.commits = c, !.more = b]
      BY <2>2, <2>3, <3>3 DEF EdType
    <3>4. QED
      BY <3>1, <3>2, <3>3
  <2>6. QED
    BY <1>3, <2>4, <2>5 DEF Applied
<1>4. CASE r.kind = "COMMIT_FILES"
  <2>1. r.oid \in Nat
    BY <1>4 DEF Result, Git!Actions, Git!PathActions
  <2>2. q.files \cup ({r.oid} \ EmptyCommits) \in SUBSET Nat
    BY <1>1, <2>1 DEF EdType
  <2>3. Git!Apply(r, e) = IF ~r.ok THEN [q EXCEPT !.error = TRUE]
                      ELSE [q EXCEPT !.files = @ \cup ({r.oid} \ EmptyCommits)]
    BY <1>4 DEF Git!Apply, Git!AppendFiles, q
  <2>4. CASE ~r.ok
    BY <1>0, <1>1, <1>4, <2>3, <2>4, ZenonT(40) DEF EdType
  <2>5. CASE r.ok
    BY <1>0, <1>1, <1>4, <2>2, <2>3, <2>5, SMTT(30) DEF EdType
  <2>6. QED
    BY <2>4, <2>5
<1>5. CASE r.kind \in Git!Actions
  <2>1. r.kind \notin {"REFRESH", "COMMIT_PAGE", "COMMIT_FILES"}
    BY <1>5 DEF Git!Actions
  <2>2. Git!Apply(r, e) = Git!ApplyAction(e, r)
    BY <2>1 DEF Git!Apply
  <2>3. CASE ~r.ok
    <3>1. Git!Apply(r, e) = [q EXCEPT !.error = TRUE, !.refresh = TRUE, !.logAsked = TRUE]
      BY <2>2, <2>3 DEF Git!ApplyAction, q
    <3>2. QED
      BY <1>1, <2>1, <3>1 DEF Applied, EdType
  <2>4. CASE r.ok /\ r.kind \in Git!PathActions
    <3>1. r.status \in [Paths -> Git!Status] /\ r.path \in Paths
      BY <2>4 DEF Result, Git!Actions, Git!PathActions
    <3>2. Git!Apply(r, e) = [q EXCEPT !.status[r.path] = r.status[r.path]]
      BY <2>2, <2>4 DEF Git!ApplyAction, q
    <3>3. q.status \in [Paths -> Git!Status] /\ r.status[r.path] \in Git!Status
      BY <1>1, <3>1 DEF EdType
    <3>4. [q.status EXCEPT ![r.path] = r.status[r.path]] \in [Paths -> Git!Status]
      BY <3>1, <3>3
    <3>5. Git!Apply(r, e) = [q EXCEPT !.status = [q.status EXCEPT ![r.path] = r.status[r.path]]]
      BY <1>1, <3>2 DEF EdType
    <3>6. QED
      BY <1>1, <2>1, <3>4, <3>5 DEF Applied, EdType
  <2>5. CASE r.ok /\ r.kind \notin Git!PathActions
    <3>1. Git!Apply(r, e) = [q EXCEPT !.refresh = @ \/ r.kind # "DIFF",
                                  !.logAsked = @ \/ Git!MovesLog(r.kind)]
      BY <2>2, <2>5 DEF Git!ApplyAction, q
    <3>2. (q.refresh \/ r.kind # "DIFF") \in BOOLEAN /\ (q.logAsked \/ Git!MovesLog(r.kind)) \in BOOLEAN
      OBVIOUS
    <3>3. QED
      BY <1>1, <2>1, <3>1, <3>2 DEF Applied, EdType
  <2>6. QED
    BY <2>3, <2>4, <2>5
<1>6. QED
  BY <1>2, <1>3, <1>4, <1>5 DEF Result, Git!Actions, Git!PathActions


\* A result keeps the commits shown those of the log, if its own are or it moved the log.
LEMMA ApplyLog ==
  ASSUME NEW e \in EdType, e.pending = (e.kind # "NONE"), NEW r \in Result, NEW n \in Nat,
         r.kind = "COMMIT" \/ (LogOf(e, n) /\ LogIn(r, n))
  PROVE  LogOf(Git!Apply(r, e), n)
<1> DEFINE y == Git!Apply(r, e)
           q == Git!NotPending(e)
<1>0. y \in EdType
  BY ApplyType DEF Applied
<1>1. q \in EdType /\ q.error = e.error /\ q.commits = e.commits /\ q.logAsked = e.logAsked
  BY DEF Git!NotPending, EdType
<1>2. CASE e.error
  BY <1>2, ApplyType DEF Applied, LogOf
<1> HIDE DEF q
<1>3. CASE r.kind = "REFRESH" /\ r.ok /\ r.logLoaded
  <2> DEFINE ended == [Git!NotPending(e) EXCEPT !.refresh = FALSE, !.logAsked = @ /\ ~r.logLoaded]
             got == [ended EXCEPT !.status = r.status]
             m == IF Len(r.commits) > Limit THEN Len(r.commits) - 1 ELSE Len(r.commits)
  <2>1. r.commits \in Commits /\ PartOf(r.commits, 0, n)
    BY <1>3 DEF Result, Git!Actions, Git!PathActions, Commits, LogIn
  <2>2. m \in Nat /\ m <= Len(r.commits)
    BY <2>1, LenProperties, GitAssumption DEF Commits
  <2>3. PICK b \in BOOLEAN : ended = [q EXCEPT !.refresh = FALSE, !.logAsked = b]
    BY DEF q
  <2>4. y = Git!Trimmed(got, r.commits)
    BY <1>3 DEF Git!Apply, Git!ApplyRefresh
  <2> HIDE DEF ended
  <2>5. Git!Trimmed(got, r.commits).commits = SubSeq(r.commits, 1, m)
    BY <1>1, <2>3 DEF Git!Trimmed, EdType
  <2> HIDE DEF m, got, y
  <2>6. PartOf(SubSeq(r.commits, 1, m), 0, n)
    BY <2>1, <2>2, PartTaken
  <2>7. PartOf(y.commits, 0, n)
    BY <2>4, <2>5, <2>6
  <2>8. QED
    BY <2>7 DEF LogOf, y
<1>4. CASE r.kind = "REFRESH" /\ ~r.ok
  <2> DEFINE ended == [Git!NotPending(e) EXCEPT !.refresh = FALSE, !.logAsked = @ /\ ~r.logLoaded]
  <2>1. y = [ended EXCEPT !.error = TRUE]
    BY <1>4 DEF Git!Apply, Git!ApplyRefresh
  <2>2. PICK b \in BOOLEAN : ended = [q EXCEPT !.refresh = FALSE, !.logAsked = b]
    BY DEF q
  <2> HIDE DEF ended, y
  <2>3. y.error
    BY <1>1, <2>1, <2>2 DEF EdType
  <2>4. QED
    BY <2>3 DEF LogOf, y
<1>5. CASE r.kind = "REFRESH" /\ r.ok /\ ~r.logLoaded
  <2> DEFINE ended == [Git!NotPending(e) EXCEPT !.refresh = FALSE, !.logAsked = @ /\ ~r.logLoaded]
  <2>1. y = [ended EXCEPT !.status = r.status]
    BY <1>5 DEF Git!Apply, Git!ApplyRefresh
  <2>2. PICK b \in BOOLEAN : /\ ended = [q EXCEPT !.refresh = FALSE, !.logAsked = b]
                             /\ b <=> q.logAsked
    BY <1>5 DEF q
  <2> HIDE DEF ended, y
  <2>3. y.commits = q.commits /\ (y.logAsked <=> q.logAsked)
    BY <1>1, <2>1, <2>2 DEF EdType
  <2>4. LogOf(e, n)
    BY <1>5
  <2>5. QED
    BY <1>1, <1>2, <2>3, <2>4 DEF LogOf, y
<1>6. CASE r.kind = "COMMIT_PAGE"
  <2> DEFINE ended == [e EXCEPT !.loading = FALSE]
             l == IF Len(r.commits) <= Page THEN Len(r.commits) ELSE Page
             c == e.commits \o SubSeq(r.commits, 1, l)
             b == Len(r.commits) > Page
  <2>0. r.commits \in Commits /\ LogOf(e, n)
    BY <1>6 DEF Result, Git!Actions, Git!PathActions, Commits
  <2>1. l \in Nat /\ l <= Len(r.commits) /\ Git!Min({Len(r.commits), Page}) = l
    BY <2>0, LenProperties, GitAssumption, MinOfTwo DEF Commits
  <2>2. /\ ended \in EdType /\ ended.commits = e.commits /\ ended.logAsked = e.logAsked
        /\ ended.error = e.error
    BY DEF EdType
  <2>3. \/ y = e
        \/ y = ended
        \/ y = [ended EXCEPT !.error = TRUE]
        \/ y = [ended EXCEPT !.commits = c, !.more = b] /\ r.ok /\ r.offset = Len(e.commits)
    <3>1. Git!Apply(r, e) = Git!AppendPage(e, r)
      BY <1>6 DEF Git!Apply
    <3>2. [ended EXCEPT !.commits = c, !.more = b]
          = [ended EXCEPT !.commits = @ \o SubSeq(r.commits, 1, Git!Min({Len(r.commits), Page})),
                          !.more = Len(r.commits) > Page]
      BY <2>1, <2>2
    <3>3. QED
      BY <3>1, <3>2 DEF Git!AppendPage
  <2> HIDE DEF ended, y, l, b
  <2>4. CASE y = e
    BY <2>0, <2>4 DEF y
  <2>5. CASE y = ended
    BY <2>0, <2>2, <2>5 DEF LogOf, y
  <2>6. CASE y = [ended EXCEPT !.error = TRUE]
    <3>1. y.error
      BY <2>2, <2>6 DEF EdType
    <3>2. QED
      BY <3>1 DEF LogOf, y
  <2>7. CASE y = [ended EXCEPT !.commits = c, !.more = b] /\ r.ok /\ r.offset = Len(e.commits)
    <3>1. PartOf(r.commits, Len(e.commits), n)
      BY <1>6, <2>0, <2>7 DEF LogIn
    <3>2. e.commits \in Commits /\ Len(e.commits) \in Nat
      BY LenProperties DEF EdType, Commits
    <3>3. SubSeq(r.commits, 1, l) \in Commits /\ PartOf(SubSeq(r.commits, 1, l), Len(e.commits), n)
      BY <2>0, <2>1, <3>1, <3>2, PartTaken
    <3>4. PartOf(e.commits, 0, n) => PartOf(c, 0, n)
      BY <3>2, <3>3, PartsJoined
    <3> HIDE DEF c
    <3>5. y.commits = c /\ y.logAsked = e.logAsked
      BY <2>2, <2>7 DEF EdType
    <3>6. QED
      BY <1>2, <2>0, <3>4, <3>5 DEF LogOf, y
  <2>8. QED
    BY <2>3, <2>4, <2>5, <2>6, <2>7
<1>7. CASE r.kind = "COMMIT_FILES"
  <2>1. y = IF ~r.ok THEN [q EXCEPT !.error = TRUE]
            ELSE [q EXCEPT !.files = @ \cup ({r.oid} \ EmptyCommits)]
    BY <1>7 DEF Git!Apply, Git!AppendFiles, q
  <2>2. LogOf(e, n)
    BY <1>7
  <2> HIDE DEF y
  <2>3. y.error \/ (y.commits = q.commits /\ y.logAsked = q.logAsked)
    BY <1>1, <2>1 DEF EdType
  <2>4. QED
    BY <1>1, <1>2, <2>2, <2>3 DEF LogOf, y
<1>8. CASE r.kind \in Git!Actions
  <2>1. r.kind \notin {"REFRESH", "COMMIT_PAGE", "COMMIT_FILES"}
    BY <1>8 DEF Git!Actions
  <2>2. y = Git!ApplyAction(e, r)
    BY <2>1 DEF Git!Apply
  <2> HIDE DEF y
  <2>3. CASE ~r.ok
    <3>1. y = [q EXCEPT !.error = TRUE, !.refresh = TRUE, !.logAsked = TRUE]
      BY <2>2, <2>3 DEF Git!ApplyAction, q
    <3>2. y.error
      BY <1>1, <3>1 DEF EdType
    <3>3. QED
      BY <3>2 DEF LogOf, y
  <2>4. CASE r.ok /\ r.kind \in Git!PathActions
    <3>1. y = [q EXCEPT !.status[r.path] = r.status[r.path]]
      BY <2>2, <2>4 DEF Git!ApplyAction, q
    <3>2. y.commits = q.commits /\ y.logAsked = q.logAsked
      BY <1>1, <3>1 DEF EdType
    <3>3. LogOf(e, n)
      BY <2>4 DEF Git!PathActions
    <3>4. QED
      BY <1>1, <1>2, <3>2, <3>3 DEF LogOf, y
  <2>5. CASE r.ok /\ r.kind \notin Git!PathActions
    <3>1. y = [q EXCEPT !.refresh = @ \/ r.kind # "DIFF", !.logAsked = @ \/ Git!MovesLog(r.kind)]
      BY <2>2, <2>5 DEF Git!ApplyAction, q
    <3>2. PICK a \in BOOLEAN, b \in BOOLEAN :
             y = [q EXCEPT !.refresh = a, !.logAsked = b] /\ (b <=> q.logAsked \/ r.kind = "COMMIT")
      BY <3>1 DEF Git!MovesLog
    <3>3. y.commits = q.commits /\ (y.logAsked <=> q.logAsked \/ r.kind = "COMMIT")
      BY <1>1, <3>2 DEF EdType
    <3>4. QED
      BY <1>1, <1>2, <3>3 DEF LogOf, y
  <2>6. QED
    BY <2>3, <2>4, <2>5
<1>9. QED
  BY <1>3, <1>4, <1>5, <1>6, <1>7, <1>8 DEF Result, Git!Actions, Git!PathActions


\* A result keeps the status shown for p that of the repository, if its own is.
LEMMA ApplyStatus ==
  ASSUME NEW e \in EdType, e.pending = (e.kind # "NONE"), NEW r \in Result,
         NEW p \in Paths, NEW v,
         StatusIn(r, p, v), Tells(r, p) \/ StatusOf(e, p, v)
  PROVE  StatusOf(Git!Apply(r, e), p, v)
<1> DEFINE y == Git!Apply(r, e)
           q == Git!NotPending(e)
<1>1. /\ q \in EdType /\ q.error = e.error /\ q.status = e.status
      /\ q.refresh = e.refresh
  BY DEF Git!NotPending, EdType
<1>2. CASE e.error
  BY <1>2, ApplyType DEF Applied, StatusOf
<1> HIDE DEF q
<1>3. CASE r.kind = "REFRESH"
  <2> DEFINE ended == [Git!NotPending(e) EXCEPT !.refresh = FALSE, !.logAsked = @ /\ ~r.logLoaded]
             got == [ended EXCEPT !.status = r.status]
  <2>1. y = IF ~r.ok THEN [ended EXCEPT !.error = TRUE]
            ELSE IF r.logLoaded THEN Git!Trimmed(got, r.commits) ELSE got
    BY <1>3 DEF Git!Apply, Git!ApplyRefresh
  <2>2. PICK b \in BOOLEAN : ended = [q EXCEPT !.refresh = FALSE, !.logAsked = b]
    BY DEF q
  <2> HIDE DEF ended
  <2>3. got.status = r.status /\ Git!Trimmed(got, r.commits).status = got.status
    BY <1>1, <2>2 DEF Git!Trimmed, EdType
  <2>4. [ended EXCEPT !.error = TRUE].error
    BY <1>1, <2>2 DEF EdType
  <2> HIDE DEF got, y
  <2>5. y.error \/ (r.ok /\ y.status = r.status)
    BY <2>1, <2>3, <2>4
  <2>6. QED
    BY <1>3, <2>5 DEF StatusIn, StatusOf, y
<1>4. CASE r.kind = "COMMIT_PAGE"
  <2> DEFINE ended == [e EXCEPT !.loading = FALSE]
             c == e.commits \o SubSeq(r.commits, 1, Git!Min({Len(r.commits), Page}))
             b == Len(r.commits) > Page
  <2>1. ended \in EdType /\ ended.status = e.status /\ ended.refresh = e.refresh
        /\ ended.commits = e.commits
    BY DEF EdType
  <2>2. y \in {e, ended, [ended EXCEPT !.error = TRUE], [ended EXCEPT !.commits = c, !.more = b]}
    <3>1. y = Git!AppendPage(e, r)
      BY <1>4 DEF Git!Apply
    <3>2. [ended EXCEPT !.commits = c, !.more = b]
          = [ended EXCEPT !.commits = @ \o SubSeq(r.commits, 1, Git!Min({Len(r.commits), Page})),
                          !.more = Len(r.commits) > Page]
      BY <2>1
    <3>3. QED
      BY <3>1, <3>2 DEF Git!AppendPage
  <2> HIDE DEF ended, c, b, y
  <2>3. y.status = e.status /\ y.refresh = e.refresh
    BY <2>1, <2>2 DEF EdType
  <2>4. ~Tells(r, p)
    BY <1>4 DEF Tells, Git!PathActions
  <2>5. QED
    BY <1>2, <2>3, <2>4 DEF StatusOf, y
<1>5. CASE r.kind = "COMMIT_FILES"
  <2>1. y = IF ~r.ok THEN [q EXCEPT !.error = TRUE]
            ELSE [q EXCEPT !.files = @ \cup ({r.oid} \ EmptyCommits)]
    BY <1>5 DEF Git!Apply, Git!AppendFiles, q
  <2>2. ~Tells(r, p)
    BY <1>5 DEF Tells, Git!PathActions
  <2> HIDE DEF y
  <2>3. y.error \/ (y.status = q.status /\ y.refresh = q.refresh)
    BY <1>1, <2>1 DEF EdType
  <2>4. QED
    BY <1>1, <1>2, <2>2, <2>3 DEF StatusOf, y
<1>6. CASE r.kind \in Git!Actions
  <2>1. r.kind \notin {"REFRESH", "COMMIT_PAGE", "COMMIT_FILES"}
    BY <1>6 DEF Git!Actions
  <2>2. y = Git!ApplyAction(e, r)
    BY <2>1 DEF Git!Apply
  <2> HIDE DEF y
  <2>3. CASE ~r.ok
    <3>1. y = [q EXCEPT !.error = TRUE, !.refresh = TRUE, !.logAsked = TRUE]
      BY <2>2, <2>3 DEF Git!ApplyAction, q
    <3>2. y.error
      BY <1>1, <3>1 DEF EdType
    <3>3. QED
      BY <3>2 DEF StatusOf, y
  <2>4. CASE r.ok /\ r.kind \in Git!PathActions
    <3>1. y = [q EXCEPT !.status[r.path] = r.status[r.path]]
      BY <2>2, <2>4 DEF Git!ApplyAction, q
    <3>2. /\ y.status[p] = (IF r.path = p THEN r.status[p] ELSE q.status[p])
          /\ y.refresh = q.refresh
      BY <1>1, <3>1 DEF EdType
    <3>3. r.path = p \/ ~Tells(r, p)
      BY <2>4, <2>1 DEF Tells, Git!PathActions
    <3>4. CASE r.path = p
      BY <2>4, <3>2, <3>4 DEF StatusIn, StatusOf, y
    <3>5. CASE r.path # p
      BY <1>1, <1>2, <3>2, <3>3, <3>5 DEF StatusOf, y
    <3>6. QED
      BY <3>4, <3>5
  <2>5. CASE r.ok /\ r.kind \notin Git!PathActions
    <3>1. y = [q EXCEPT !.refresh = @ \/ r.kind # "DIFF", !.logAsked = @ \/ Git!MovesLog(r.kind)]
      BY <2>2, <2>5 DEF Git!ApplyAction, q
    <3>2. PICK a \in BOOLEAN, b \in BOOLEAN :
             y = [q EXCEPT !.refresh = a, !.logAsked = b] /\ (a <=> q.refresh \/ r.kind # "DIFF")
      BY <3>1
    <3>3. y.status = q.status /\ (y.refresh <=> q.refresh \/ r.kind # "DIFF")
      BY <1>1, <3>2 DEF EdType
    <3>4. r.kind # "DIFF" \/ ~Tells(r, p)
      BY <2>5 DEF Tells
    <3>5. QED
      BY <1>1, <1>2, <3>3, <3>4 DEF StatusOf, y
  <2>6. QED
    BY <2>3, <2>4, <2>5
<1>7. QED
  BY <1>3, <1>4, <1>5, <1>6 DEF Result, Git!Actions, Git!PathActions

-----------------------------------------------------------------------------
(* The Git client: the user, and what is sent *)

\* A part of a frame took the editor from e to n and sent the requests in s.
Follows(e, n, s) ==
    /\ n \in EdType /\ n.pending = (n.kind # "NONE")
    /\ s = <<>> \/ (Git!Room /\ \E x \in Request : s = <<x>>)
    /\ e.error => n.error
    /\ IF e.pending THEN n.pending /\ n.kind = e.kind
       ELSE n.pending => s # <<>> /\ s[1].kind = n.kind
    /\ n.error \/ n.commits = <<>> \/ (n.commits = e.commits /\ (e.logAsked => n.logAsked))
    /\ \/ n.error \/ (s # <<>> /\ s[1].kind = "REFRESH")
       \/ n.status = e.status /\ (e.refresh => n.refresh)

Proper(e) == e \in EdType /\ e.pending = (e.kind # "NONE")

LEMMA FollowsFirst ==
  ASSUME NEW e, NEW m, NEW n, NEW s, Follows(e, m, <<>>), Follows(m, n, s)
  PROVE  Follows(e, n, s)
BY DEF Follows, EdType

LEMMA FollowsLast ==
  ASSUME NEW e, NEW m, NEW n, NEW s, Follows(e, m, s), Follows(m, n, <<>>), Proper(e)
  PROVE  Follows(e, n, s)
BY DEF Follows, EdType, Proper

LEMMA FollowsSelf ==
  ASSUME NEW e, Proper(e)
  PROVE  Follows(e, e, <<>>)
BY DEF Follows, Proper

\* Only what the invariant does not look at, or a read that is asked for.
Aside(e, n) ==
    /\ n \in EdType /\ n.pending = e.pending /\ n.kind = e.kind /\ n.status = e.status
    /\ n.commits = e.commits /\ (e.error => n.error) /\ (e.logAsked => n.logAsked)
    /\ e.refresh => n.refresh

LEMMA AsideFollows ==
  ASSUME NEW e, NEW n, Proper(e), Aside(e, n)
  PROVE  Follows(e, n, <<>>)
BY DEF Follows, Proper, Aside, EdType

LEMMA TypedFollows ==
  ASSUME NEW e, Proper(e), NEW n \in Git!Typed(e)
  PROVE  Follows(e, n, <<>>)
<1>1. e \in EdType
  BY DEF Proper
<1>2. \/ n = e
      \/ n = [e EXCEPT !.sidebar = ~@]
      \/ n = [e EXCEPT !.refresh = TRUE, !.logAsked = TRUE]
      \/ n = [e EXCEPT !.graph = ~@]
      \/ \E p \in Paths : n = Git!AsksFor(e, "STAGE", p) \/ n = Git!AsksFor(e, "UNSTAGE", p)
      \/ \E c \in IF e.graph THEN Git!ToSet(e.commits) ELSE {} : n = [e EXCEPT !.open = Git!Flip(@, c)]
  BY DEF Git!Typed
<1>3. CASE n = e
  BY <1>3, FollowsSelf
<1>4. CASE n = [e EXCEPT !.sidebar = ~@]
  <2>1. PICK b \in BOOLEAN : n = [e EXCEPT !.sidebar = b]
    BY <1>4
  <2>2. QED
    BY <1>1, <2>1, AsideFollows DEF Aside, EdType
<1>5. CASE n = [e EXCEPT !.refresh = TRUE, !.logAsked = TRUE]
  BY <1>1, <1>5, AsideFollows DEF Aside, EdType
<1>6. CASE n = [e EXCEPT !.graph = ~@]
  <2>1. PICK b \in BOOLEAN : n = [e EXCEPT !.graph = b]
    BY <1>6
  <2>2. QED
    BY <1>1, <2>1, AsideFollows DEF Aside, EdType
<1>7. ASSUME NEW p \in Paths, n = Git!AsksFor(e, "STAGE", p) \/ n = Git!AsksFor(e, "UNSTAGE", p)
      PROVE  Follows(e, n, <<>>)
  <2>1. PICK x \in [kind: Git!PathActions, path: Paths] : n = [e EXCEPT !.slot = x]
    BY <1>7 DEF Git!AsksFor, Git!PathActions
  <2>2. x \in Git!Slots
    BY DEF Git!Slots
  <2>3. QED
    BY <1>1, <2>1, <2>2, AsideFollows DEF Aside, EdType
<1>8. ASSUME NEW c \in IF e.graph THEN Git!ToSet(e.commits) ELSE {}, n = [e EXCEPT !.open = Git!Flip(@, c)]
      PROVE  Follows(e, n, <<>>)
  <2>1. c \in Git!ToSet(e.commits)
    BY <1>8
  <2>2. e.commits \in Seq(Nat \ {0}) /\ e.open \in SUBSET Nat
    BY <1>1 DEF EdType
  <2>3. c \in Nat
    BY <2>1, <2>2 DEF Git!ToSet
  <2>4. Git!Flip(e.open, c) \in SUBSET Nat
    BY <2>2, <2>3 DEF Git!Flip
  <2>5. n = [e EXCEPT !.open = Git!Flip(e.open, c)]
    BY <1>1, <1>8 DEF EdType
  <2>6. QED
    BY <1>1, <2>4, <2>5, AsideFollows DEF Aside, EdType
<1>9. QED
  BY <1>2, <1>3, <1>4, <1>5, <1>6, <1>7, <1>8

LEMMA ClickedFollows ==
  ASSUME NEW e, Proper(e), NEW n \in Git!Clicked(e)
  PROVE  Follows(e, n, <<>>)
<1>1. e \in EdType
  BY DEF Proper
<1>2. \/ n = e
      \/ \E k \in {"STAGE_ALL", "REFRESH", "COMMIT", "DIFF"} : n = Git!Asks(e, k)
      \/ n = [e EXCEPT !.wantMore = TRUE]
  BY DEF Git!Clicked
<1>3. ASSUME NEW k \in {"STAGE_ALL", "REFRESH", "COMMIT", "DIFF"}, n = Git!Asks(e, k)
      PROVE  Follows(e, n, <<>>)
  <2>1. [kind |-> k] \in Git!Slots
    BY DEF Git!Slots, Git!Actions, Git!PathActions
  <2>2. n = [e EXCEPT !.slot = [kind |-> k]]
    BY <1>3 DEF Git!Asks
  <2>3. QED
    BY <1>1, <2>1, <2>2, AsideFollows DEF Aside, EdType
<1>4. CASE n = [e EXCEPT !.wantMore = TRUE]
  BY <1>1, <1>4, AsideFollows DEF Aside, EdType
<1>5. QED
  BY <1>2, <1>3, <1>4, FollowsSelf

LEMMA OperationFollows ==
  ASSUME NEW e, Proper(e), ~e.pending, NEW x \in Request, x.kind # "COMMIT_PAGE"
  PROVE  LET s == Git!SubmitOperation(e, x) IN
         /\ Follows(e, s.ed, s.sent)
         /\ s.sent = <<>> => s.ed.error
         /\ s.sent # <<>> => s.sent = <<x>>
         /\ s.ed.commits = e.commits /\ s.ed.status = e.status /\ s.ed.refresh = e.refresh
         /\ s.ed.logAsked = e.logAsked
<1> DEFINE n == [e EXCEPT !.pending = TRUE, !.kind = x.kind]
           m == [e EXCEPT !.error = TRUE]
           s == Git!SubmitOperation(e, x)
<1>1. e \in EdType
  BY DEF Proper
<1>2. x.kind \in Git!Actions \cup {"REFRESH", "COMMIT_FILES"}
  BY DEF Request, Git!Actions, Git!PathActions
<1>3. /\ n \in EdType /\ n.pending /\ n.kind = x.kind /\ n.kind # "NONE" /\ n.error = e.error
      /\ n.commits = e.commits /\ n.status = e.status /\ n.refresh = e.refresh
      /\ n.logAsked = e.logAsked
  BY <1>1, <1>2 DEF EdType, Git!Actions
<1>4. /\ m \in EdType /\ m.pending = e.pending /\ m.kind = e.kind /\ m.error
      /\ m.commits = e.commits /\ m.status = e.status /\ m.refresh = e.refresh
      /\ m.logAsked = e.logAsked
  BY <1>1 DEF EdType
<1> HIDE DEF n, m
<1>5. CASE Git!Room
  <2>1. s.ed = n /\ s.sent = <<x>>
    BY <1>5 DEF Git!SubmitOperation, n
  <2>2. n.pending = (n.kind # "NONE")
    BY <1>3 DEF EdType
  <2>3. Follows(e, n, <<x>>)
    BY <1>3, <1>5, <2>2 DEF Follows
  <2> HIDE DEF s
  <2>4. QED
    BY <1>3, <2>1, <2>3 DEF s
<1>6. CASE ~Git!Room
  <2>1. s.ed = m /\ s.sent = <<>>
    BY <1>6 DEF Git!SubmitOperation, Git!NotSent, m
  <2>2. m.pending = (m.kind # "NONE")
    BY <1>4 DEF Proper
  <2>3. Follows(e, m, <<>>)
    BY <1>4, <2>2 DEF Follows
  <2> HIDE DEF s
  <2>4. QED
    BY <1>4, <2>1, <2>3 DEF s
<1>7. QED
  BY <1>5, <1>6

LEMMA ActionFollows ==
  ASSUME NEW e, Proper(e)
  PROVE  Follows(e, Git!SubmitAction(e).ed, Git!SubmitAction(e).sent)
<1> DEFINE s == Git!SubmitAction(e)
<1>1. e \in EdType
  BY DEF Proper
<1>2. CASE e.pending \/ e.slot = Git!None
  <2>1. s = Git!NotSent(e)
    BY <1>2 DEF Git!SubmitAction
  <2>2. QED
    BY <2>1, FollowsSelf DEF Git!NotSent
<1>3. CASE ~e.pending /\ e.slot # Git!None /\ e.slot.kind = "REFRESH"
  <2> DEFINE n == [e EXCEPT !.slot = Git!None, !.refresh = TRUE, !.logAsked = TRUE]
  <2>1. s = Git!NotSent(n)
    BY <1>3 DEF Git!SubmitAction
  <2>2. Aside(e, n)
    BY <1>1 DEF Aside, EdType, Git!Slots
  <2> HIDE DEF n
  <2>3. QED
    BY <2>1, <2>2, AsideFollows DEF Git!NotSent
<1>4. CASE ~e.pending /\ e.slot # Git!None /\ e.slot.kind # "REFRESH"
  <2> DEFINE o == Git!SubmitOperation(e, e.slot)
  <2>1. e.slot \in Request /\ e.slot.kind # "COMMIT_PAGE"
    BY <1>1, <1>4 DEF EdType, Git!Slots, Request, Git!None, Git!Actions, Git!PathActions
  <2>2. Follows(e, o.ed, o.sent)
    BY <1>4, <2>1, OperationFollows
  <2>3. s = IF o.sent = <<>> THEN o ELSE [o EXCEPT !.ed.slot = Git!None]
    BY <1>4 DEF Git!SubmitAction
  <2>4. CASE o.sent = <<>>
    BY <2>2, <2>3, <2>4
  <2>5. CASE o.sent # <<>>
    <3> DEFINE m == [o.ed EXCEPT !.slot = Git!None]
    <3>1. DOMAIN o = {"ed", "sent"}
      BY DEF Git!SubmitOperation, Git!NotSent
    <3>2. s.ed = m /\ s.sent = o.sent
      BY <2>3, <2>5, <3>1
    <3> HIDE DEF o
    <3>3. Proper(o.ed)
      BY <2>2 DEF Follows, Proper
    <3>4. Aside(o.ed, m)
      BY <3>3 DEF Aside, Proper, EdType, Git!Slots
    <3> HIDE DEF m
    <3>5. Follows(o.ed, m, <<>>)
      BY <3>3, <3>4, AsideFollows
    <3>6. Follows(e, m, o.sent)
      BY <2>2, <3>5, FollowsLast
    <3>7. QED
      BY <3>2, <3>6
  <2>6. QED
    BY <2>4, <2>5
<1>5. QED
  BY <1>2, <1>3, <1>4

LEMMA RefreshFollows ==
  ASSUME NEW e, Proper(e)
  PROVE  Follows(e, Git!SubmitRefresh(e).ed, Git!SubmitRefresh(e).sent)
<1> DEFINE s == Git!SubmitRefresh(e)
           withLog == e.graph /\ e.logAsked
           cleared == [e EXCEPT !.refresh = FALSE, !.status = Git!Clean, !.logAsked = @ /\ ~withLog]
           emptied == [cleared EXCEPT !.commits = <<>>, !.open = {}, !.files = {}, !.gen = @ + 1,
                                      !.wantMore = FALSE, !.loading = FALSE, !.more = FALSE]
           x == [kind |-> "REFRESH", withLog |-> withLog]
           m == IF withLog THEN emptied ELSE cleared
           o == Git!SubmitOperation(m, x)
<1>1. e \in EdType
  BY DEF Proper
<1>2. CASE e.pending \/ ~e.sidebar \/ ~(e.refresh \/ withLog)
  <2>1. s = Git!NotSent(e)
    BY <1>2 DEF Git!SubmitRefresh
  <2>2. QED
    BY <2>1, FollowsSelf DEF Git!NotSent
<1>3. CASE ~(e.pending \/ ~e.sidebar \/ ~(e.refresh \/ withLog))
  <2>1. s = o /\ ~e.pending
    BY <1>3 DEF Git!SubmitRefresh
  <2>2. x \in Request /\ x.kind # "COMMIT_PAGE"
    BY DEF Request
  <2>3. PICK b \in BOOLEAN :
           /\ cleared = [e EXCEPT !.refresh = FALSE, !.status = Git!Clean, !.logAsked = b]
           /\ ~withLog => (b <=> e.logAsked)
    OBVIOUS
  <2> HIDE DEF cleared, x
  <2>4. Git!Clean \in [Paths -> Git!Status]
    BY DEF Git!Clean, Git!Status
  <2>5. /\ cleared \in EdType /\ cleared.pending = e.pending /\ cleared.kind = e.kind
        /\ cleared.error = e.error /\ cleared.commits = e.commits
        /\ ~withLog => cleared.logAsked = e.logAsked
    BY <1>1, <2>3, <2>4 DEF EdType
  <2>6. /\ emptied \in EdType /\ emptied.pending = cleared.pending /\ emptied.kind = cleared.kind
        /\ emptied.error = cleared.error /\ emptied.commits = <<>>
    <3>1. <<>> \in Seq(Nat \ {0})
      BY EmptySeq
    <3>2. cleared.gen + 1 \in Nat
      BY <2>5 DEF EdType
    <3>3. emptied = [cleared EXCEPT !.commits = <<>>, !.open = {}, !.files = {},
                                    !.gen = cleared.gen + 1, !.wantMore = FALSE,
                                    !.loading = FALSE, !.more = FALSE]
      BY <2>5 DEF EdType
    <3> HIDE DEF emptied
    <3>4. QED
      BY <2>5, <3>1, <3>2, <3>3 DEF EdType
  <2> HIDE DEF emptied, withLog
  <2>7. /\ Proper(m) /\ ~m.pending /\ m.error = e.error
        /\ m.commits = <<>> \/ (m.commits = e.commits /\ m.logAsked = e.logAsked)
    <3>1. CASE withLog
      BY <1>1, <2>1, <2>5, <2>6, <3>1 DEF Proper, EdType
    <3>2. CASE ~withLog
      BY <1>1, <2>1, <2>5, <3>2 DEF Proper, EdType
    <3>3. QED
      BY <3>1, <3>2
  <2> HIDE DEF m
  <2>8. /\ Follows(m, o.ed, o.sent) /\ (o.sent = <<>> \/ o.sent = <<x>>)
        /\ o.sent = <<>> => o.ed.error
        /\ o.ed.commits = m.commits /\ o.ed.logAsked = m.logAsked
    BY <2>2, <2>7, OperationFollows
  <2> HIDE DEF o
  <2>9. x.kind = "REFRESH"
    BY DEF x
  <2>10. /\ o.ed \in EdType /\ o.ed.pending = (o.ed.kind # "NONE")
         /\ o.sent = <<>> \/ (Git!Room /\ \E y \in Request : o.sent = <<y>>)
         /\ e.error => o.ed.error
         /\ o.ed.pending => o.sent # <<>> /\ o.sent[1].kind = o.ed.kind
    <3>1. o.ed \in EdType /\ o.ed.pending = (o.ed.kind # "NONE")
      BY <2>8 DEF Follows
    <3>2. o.sent = <<>> \/ (Git!Room /\ \E y \in Request : o.sent = <<y>>)
      BY <2>8 DEF Follows
    <3>3. e.error => o.ed.error
      BY <2>7, <2>8 DEF Follows
    <3>4. o.ed.pending => o.sent # <<>> /\ o.sent[1].kind = o.ed.kind
      BY <2>7, <2>8 DEF Follows
    <3>5. QED
      BY <3>1, <3>2, <3>3, <3>4
  <2>11. \/ o.ed.error \/ o.ed.commits = <<>>
         \/ (o.ed.commits = e.commits /\ (e.logAsked => o.ed.logAsked))
    BY <2>7, <2>8
  <2>12. o.ed.error \/ (o.sent # <<>> /\ o.sent[1].kind = "REFRESH")
    BY <2>8, <2>9
  <2>13. Follows(e, o.ed, o.sent)
    BY <2>1, <2>10, <2>11, <2>12 DEF Follows
  <2>14. QED
    BY <2>1, <2>13
<1>4. QED
  BY <1>2, <1>3

LEMMA MinIsIn ==
  ASSUME NEW S \in SUBSET Nat, S # {}
  PROVE  Git!Min(S) \in S
<1>1. PICK n \in S : TRUE
  OBVIOUS
<1> DEFINE T == {0..m : m \in {k \in S : k <= n}}
           R == StrictSubsetOrdering(0..n)
<1>2. IsWellFoundedOn(R, SUBSET (0..n))
  <2>1. IsFiniteSet(0..n)
    BY FS_Interval
  <2>2. QED
    BY <2>1, FS_StrictSubsetOrderingWellFounded, FS_FiniteSubsetsOfFinite
<1>3. T \subseteq SUBSET (0..n) /\ T # {}
  BY <1>1
<1>4. PICK t \in T : \A u \in T : ~(<<u, t>> \in R)
  <2> HIDE DEF R, T
  <2> QED BY <1>2, <1>3, WFMin
<1>5. PICK m \in S : m <= n /\ t = 0..m
  BY <1>4
<1>6. \A k \in S : m <= k
  <2>1. SUFFICES ASSUME NEW k \in S, k < m PROVE FALSE
    OBVIOUS
  <2>2. 0..k \in T /\ 0..k \in SUBSET (0..n) /\ 0..m \in SUBSET (0..n)
    BY <1>5, <2>1
  <2>3. 0..k \subseteq 0..m /\ 0..k # 0..m
    BY <2>1
  <2>4. <<0..k, t>> \in R
    BY <1>5, <2>2, <2>3 DEF StrictSubsetOrdering
  <2>5. QED
    BY <1>4, <2>2, <2>4
<1>7. QED
  BY <1>6 DEF Git!Min

LEMMA FilesFollow ==
  ASSUME NEW e, Proper(e)
  PROVE  Follows(e, Git!SubmitFiles(e).ed, Git!SubmitFiles(e).sent)
<1> DEFINE s == Git!SubmitFiles(e)
           x == [kind |-> "COMMIT_FILES", oid |-> e.commits[Git!Min(Git!FilesWanted(e))]]
<1>1. CASE e.pending \/ ~e.graph \/ Git!FilesWanted(e) = {}
  <2>1. s = Git!NotSent(e)
    BY <1>1 DEF Git!SubmitFiles
  <2>2. QED
    BY <2>1, FollowsSelf DEF Git!NotSent
<1>2. CASE ~(e.pending \/ ~e.graph \/ Git!FilesWanted(e) = {})
  <2>1. s = Git!SubmitOperation(e, x)
    BY <1>2 DEF Git!SubmitFiles
  <2>2. e.commits \in Seq(Nat \ {0})
    BY DEF Proper, EdType
  <2>3. Git!Min(Git!FilesWanted(e)) \in 1..Len(e.commits)
    <3>1. Git!FilesWanted(e) \subseteq 1..Len(e.commits) /\ Git!FilesWanted(e) \in SUBSET Nat
      BY <2>2, LenProperties DEF Git!FilesWanted
    <3>2. QED
      BY <1>2, <3>1, MinIsIn
  <2>4. e.commits[Git!Min(Git!FilesWanted(e))] \in Nat
    BY <2>2, <2>3, ElementOfSeq
  <2>5. x \in Request /\ x.kind # "COMMIT_PAGE"
    BY <2>4 DEF Request
  <2> HIDE DEF x
  <2>6. QED
    BY <1>2, <2>1, <2>5, OperationFollows
<1>3. QED
  BY <1>1, <1>2

LEMMA PageFollows ==
  ASSUME NEW e, Proper(e)
  PROVE  Follows(e, Git!SubmitPage(e).ed, Git!SubmitPage(e).sent)
<1> DEFINE s == Git!SubmitPage(e)
           x == [kind |-> "COMMIT_PAGE", gen |-> e.gen + 1, offset |-> Len(e.commits)]
           off == [e EXCEPT !.wantMore = FALSE]
           failed == [off EXCEPT !.error = TRUE]
           sent == [off EXCEPT !.gen = @ + 1, !.loading = TRUE]
<1>1. e \in EdType
  BY DEF Proper
<1>2. /\ Aside(e, off) /\ Aside(e, failed) /\ Aside(e, sent)
  <2>1. Aside(e, off) /\ off.gen = e.gen
    BY <1>1 DEF Aside, EdType
  <2>2. Aside(e, failed)
    BY <1>1 DEF Aside, EdType
  <2>3. e.gen + 1 \in Nat /\ sent = [e EXCEPT !.wantMore = FALSE, !.gen = e.gen + 1, !.loading = TRUE]
    BY <1>1, <2>1 DEF EdType
  <2> HIDE DEF sent
  <2>4. Aside(e, sent)
    BY <1>1, <2>3 DEF Aside, EdType
  <2>5. QED
    BY <2>1, <2>2, <2>4
<1>3. x \in Request
  <2>1. e.gen + 1 \in Nat /\ Len(e.commits) \in Nat
    BY <1>1, LenProperties DEF EdType
  <2>2. QED
    BY <2>1 DEF Request
<1>4. \/ s = Git!NotSent(e) \/ s = Git!NotSent(off) \/ s = Git!NotSent(failed)
      \/ Git!Room /\ s = [ed |-> sent, sent |-> <<x>>]
  BY DEF Git!SubmitPage
<1>5. Follows(e, off, <<>>) /\ Follows(e, failed, <<>>) /\ Follows(e, sent, <<>>)
  BY <1>2, AsideFollows
<1>6. CASE s = Git!NotSent(e) \/ s = Git!NotSent(off) \/ s = Git!NotSent(failed)
  <2> HIDE DEF s, off, failed
  <2>1. QED
    BY <1>5, <1>6, FollowsSelf DEF Git!NotSent, s
<1>7. CASE Git!Room /\ s = [ed |-> sent, sent |-> <<x>>]
  <2> HIDE DEF x, sent
  <2>1. \E y \in Request : <<x>> = <<y>>
    BY <1>3
  <2>2. ~e.pending \/ e.pending
    OBVIOUS
  <2>3. Follows(e, sent, <<x>>)
    BY <1>3, <1>5, <1>7, <2>1 DEF Follows
  <2> HIDE DEF s
  <2>4. QED
    BY <1>7, <2>3 DEF s
<1>8. QED
  BY <1>4, <1>6, <1>7

LEMMA SubmitFollows ==
  ASSUME NEW e, Proper(e)
  PROVE  Follows(e, Git!Submit(e).ed, Git!Submit(e).sent)
<1> DEFINE a == Git!SubmitAction(e)
           r == Git!SubmitRefresh(a.ed)
           f == Git!SubmitFiles(r.ed)
           g == Git!SubmitPage(f.ed)
<1>1. Follows(e, a.ed, a.sent) /\ Proper(a.ed)
  BY ActionFollows DEF Follows, Proper
<1> HIDE DEF a
<1>2. Follows(a.ed, r.ed, r.sent) /\ Proper(r.ed)
  BY <1>1, RefreshFollows DEF Follows, Proper
<1> HIDE DEF r
<1>3. Follows(r.ed, f.ed, f.sent) /\ Proper(f.ed)
  BY <1>2, FilesFollow DEF Follows, Proper
<1> HIDE DEF f
<1>4. Follows(f.ed, g.ed, g.sent)
  BY <1>3, PageFollows
<1> HIDE DEF g
<1>5. Git!Submit(e) = IF a.sent # <<>> THEN a ELSE IF r.sent # <<>> THEN r
                  ELSE IF f.sent # <<>> THEN f ELSE g
  BY DEF Git!Submit, a, r, f, g
<1>6. CASE a.sent # <<>>
  BY <1>1, <1>5, <1>6
<1>7. ASSUME a.sent = <<>> PROVE Follows(e, r.ed, r.sent)
  BY <1>1, <1>2, <1>7, FollowsFirst
<1>8. ASSUME a.sent = <<>>, r.sent = <<>> PROVE Follows(e, f.ed, f.sent)
  BY <1>3, <1>7, <1>8, FollowsFirst
<1>9. ASSUME a.sent = <<>>, r.sent = <<>>, f.sent = <<>> PROVE Follows(e, g.ed, g.sent)
  BY <1>4, <1>8, <1>9, FollowsFirst
<1>10. QED
  BY <1>5, <1>6, <1>7, <1>8, <1>9

-----------------------------------------------------------------------------
(* The Git client: the steps *)

LEMMA GitInit == Git!Init => GitInv
<1> SUFFICES ASSUME Git!Init PROVE GitInv
  OBVIOUS
<1>1. PICK sidebar \in BOOLEAN, graph \in BOOLEAN :
         ed = [sidebar |-> sidebar, graph |-> graph, slot |-> Git!None, pending |-> FALSE,
               kind |-> "NONE", refresh |-> sidebar, logAsked |-> sidebar /\ graph,
               status |-> Git!Clean, commits |-> <<>>, more |-> FALSE, loading |-> FALSE,
               wantMore |-> FALSE, gen |-> 0, open |-> {}, files |-> {}, error |-> FALSE]
  BY DEF Git!Init
<1>2. /\ phase = "sync" /\ requests = <<>> /\ results = <<>> /\ worker = "idle" /\ tree = TRUE
      /\ loadLog = TRUE /\ steps = 0
      /\ repo \in [status : [Paths -> FirstStatus], log : {FirstLog}]
  BY DEF Git!Init
<1>3. GitTypes
  <2>1. Git!Clean \in [Paths -> Git!Status] /\ <<>> \in Seq(Nat \ {0}) /\ Git!None \in Git!Slots
    BY EmptySeq DEF Git!Clean, Git!Status, Git!Slots
  <2>2. (sidebar /\ graph) \in BOOLEAN
    OBVIOUS
  <2>3. ed \in EdType /\ ed.pending = (ed.kind # "NONE")
    BY <1>1, <2>1, <2>2 DEF EdType
  <2>4. repo \in [status: [Paths -> Git!Status], log: Nat]
    <3>1. repo.status \in [Paths -> Git!Status] /\ repo.log \in Nat
      <4>1. repo.status \in [Paths -> FirstStatus] /\ repo.log = FirstLog
        BY <1>2
      <4>2. FirstStatus \subseteq Git!Status /\ FirstLog \in Nat
        BY GitAssumption DEF Git!Status
      <4>3. repo.status \in [Paths -> Git!Status]
        BY <4>1, <4>2
      <4>4. QED
        BY <4>1, <4>2, <4>3
    <3>2. QED
      BY <1>2, <3>1
  <2>5. requests \in Seq(Request) /\ results \in Seq(Result) /\ Len(requests) = 0 /\ Len(results) = 0
    BY <1>2, EmptySeq
  <2>6. QED
    BY <1>2, <2>3, <2>4, <2>5, GitAssumption DEF GitTypes
<1>4. Flying
  BY <1>1 DEF Flying
<1>5. LogIsShown
  BY <1>1 DEF LogIsShown, LogOf, PartOf
<1>6. LogIsInResults /\ StatusIsInResults
  BY <1>2 DEF LogIsInResults, StatusIsInResults
<1>7. StatusIsShown
  BY <1>2 DEF StatusIsShown, ToldAfter
<1>8. QED
  BY <1>3, <1>4, <1>5, <1>6, <1>7 DEF GitInv

LEMMA TakeResultStep ==
  ASSUME GitInv, Git!TakeResult
  PROVE  GitInv'
<1> DEFINE r == Head(results)
<1>1. /\ results # <<>> /\ ed' = Git!Apply(r, ed) /\ results' = Tail(results)
      /\ UNCHANGED <<phase, requests, worker, tree, loadLog, repo, steps>>
  BY DEF Git!TakeResult
<1>2. GitTypes /\ results \in Seq(Result) /\ ed \in EdType /\ ed.pending = (ed.kind # "NONE")
      /\ repo.log \in Nat
  BY DEF GitInv, GitTypes
<1>3. /\ results' \in Seq(Result) /\ Len(results') = Len(results) - 1 /\ Len(results) \in Nat
      /\ \A j \in 1..Len(results') : j + 1 \in 1..Len(results) /\ results'[j] = results[j + 1]
      /\ \A j \in 2..Len(results) : j - 1 \in 1..Len(results') /\ results'[j - 1] = results[j]
      /\ r = results[1] /\ r \in Result /\ 1 \in 1..Len(results)
  BY <1>1, <1>2, HeadTailProperties, LenProperties, ElementOfSeq
<1> HIDE DEF r
<1>4. Applied(ed, r, ed')
  BY <1>1, <1>2, <1>3, ApplyType
<1>5. GitTypes'
  <2>1. ed' \in EdType /\ ed'.pending = (ed'.kind # "NONE")
    BY <1>4 DEF Applied
  <2>2. Len(results') <= GitQueue
    BY <1>2, <1>3, GitAssumption DEF GitTypes
  <2>3. QED
    BY <1>1, <1>2, <1>3, <2>1, <2>2 DEF GitTypes
<1>6. Flying'
  <2>1. SUFFICES ASSUME ed'.pending
                 PROVE  \/ \E j \in 1..Len(requests') : requests'[j].kind = ed'.kind
                        \/ \E j \in 1..Len(results') : results'[j].kind = ed'.kind
    BY DEF Flying
  <2>2. r.kind = "COMMIT_PAGE" /\ ed.pending /\ ed'.kind = ed.kind
    BY <1>4, <2>1 DEF Applied
  <2>3. CASE \E j \in 1..Len(requests) : requests[j].kind = ed.kind
    BY <1>1, <2>2, <2>3
  <2>4. ASSUME NEW j \in 1..Len(results), results[j].kind = ed.kind
        PROVE  \E k \in 1..Len(results') : results'[k].kind = ed'.kind
    <3>1. ed.kind # "COMMIT_PAGE"
      BY <1>2 DEF EdType, Git!Actions
    <3>2. j \in 2..Len(results)
      BY <1>3, <2>2, <2>4, <3>1
    <3>3. QED
      BY <1>3, <2>2, <2>4, <3>2
  <2>5. QED
    BY <2>2, <2>3, <2>4 DEF GitInv, Flying
<1>7. ASSUME NEW i \in Nat, LogMovesAfter(i + 1) PROVE LogMovesAfter(i)'
  <2>1. PICK j \in 1..Len(results) : j > i + 1 /\ results[j].kind = "COMMIT"
    BY <1>7 DEF LogMovesAfter
  <2>2. j \in 2..Len(results) /\ j - 1 > i
    BY <1>3, <2>1
  <2>3. QED
    BY <1>3, <2>1, <2>2 DEF LogMovesAfter
<1>8. ASSUME NEW i \in Nat, NEW p \in Paths, ToldAfter(i + 1, p) PROVE ToldAfter(i, p)'
  <2>1. CASE \E j \in 1..Len(results) : j > i + 1 /\ Tells(results[j], p)
    <3>1. PICK j \in 1..Len(results) : j > i + 1 /\ Tells(results[j], p)
      BY <2>1
    <3>2. j \in 2..Len(results) /\ j - 1 > i
      BY <1>3, <3>1
    <3>3. Tells(results'[j - 1], p)
      BY <1>3, <3>1, <3>2
    <3>4. QED
      BY <1>3, <3>2, <3>3 DEF ToldAfter, Tells
  <2>2. QED
    BY <1>1, <1>8, <2>1 DEF ToldAfter
<1>9. LogIsShown'
  <2>1. CASE LogMovesAfter(1)
    BY <1>7, <2>1 DEF LogIsShown
  <2>2. CASE ~LogMovesAfter(1)
    <3>1. LogIn(r, repo.log)
      BY <1>3, <2>2 DEF GitInv, LogIsInResults
    <3>2. r.kind = "COMMIT" \/ LogOf(ed, repo.log)
      <4>1. ASSUME LogMovesAfter(0) PROVE r.kind = "COMMIT"
        <5>1. PICK j \in 1..Len(results) : results[j].kind = "COMMIT"
          BY <4>1 DEF LogMovesAfter
        <5>2. ~(j > 1)
          BY <2>2, <5>1 DEF LogMovesAfter
        <5>3. QED
          BY <1>3, <5>1, <5>2
      <4>2. QED
        BY <4>1 DEF GitInv, LogIsShown
    <3>3. LogOf(ed', repo.log)
      BY <1>1, <1>2, <1>3, <3>1, <3>2, ApplyLog
    <3>4. QED
      BY <1>1, <3>3 DEF LogIsShown, LogOf
  <2>3. QED
    BY <2>1, <2>2
<1>10. LogIsInResults'
  <2>1. ASSUME NEW i \in 1..Len(results')
        PROVE  LogIn(results'[i], repo'.log) \/ LogMovesAfter(i)'
    <3>1. LogIn(results[i + 1], repo.log) \/ LogMovesAfter(i + 1)
      BY <1>3, <2>1 DEF GitInv, LogIsInResults
    <3>2. LogIn(results[i + 1], repo.log) => LogIn(results'[i], repo'.log)
      BY <1>1, <1>3, <2>1
    <3>3. QED
      BY <1>7, <3>1, <3>2
  <2>2. QED
    BY <2>1 DEF LogIsInResults, LogIn
<1>11. ASSUME NEW p \in Paths PROVE StatusOf(ed', p, repo'.status[p]) \/ ToldAfter(0, p)'
  <2>1. CASE ToldAfter(1, p)
    BY <1>8, <2>1
  <2>2. CASE ~ToldAfter(1, p)
    <3>1. StatusIn(r, p, repo.status[p])
      BY <1>3, <2>2 DEF GitInv, StatusIsInResults
    <3>2. Tells(r, p) \/ StatusOf(ed, p, repo.status[p])
      <4>1. ASSUME ToldAfter(0, p) PROVE Tells(r, p)
        <5>1. PICK j \in 1..Len(results) : Tells(results[j], p)
          BY <2>2, <4>1 DEF ToldAfter
        <5>2. ~(j > 1)
          BY <2>2, <5>1 DEF ToldAfter
        <5>3. QED
          BY <1>3, <5>1, <5>2
      <4>2. QED
        BY <4>1 DEF GitInv, StatusIsShown
    <3>3. StatusOf(ed', p, repo.status[p])
      BY <1>1, <1>2, <1>3, <3>1, <3>2, ApplyStatus
    <3>4. QED
      BY <1>1, <3>3
  <2>3. QED
    BY <2>1, <2>2
<1>12. StatusIsShown'
  BY <1>11 DEF StatusIsShown, StatusOf
<1>13. StatusIsInResults'
  <2>1. ASSUME NEW i \in 1..Len(results'), NEW p \in Paths
        PROVE  StatusIn(results'[i], p, repo'.status[p]) \/ ToldAfter(i, p)'
    <3>1. StatusIn(results[i + 1], p, repo.status[p]) \/ ToldAfter(i + 1, p)
      BY <1>3, <2>1 DEF GitInv, StatusIsInResults
    <3>2. StatusIn(results[i + 1], p, repo.status[p]) => StatusIn(results'[i], p, repo'.status[p])
      BY <1>1, <1>3, <2>1
    <3>3. QED
      BY <1>8, <3>1, <3>2
  <2>2. QED
    BY <2>1 DEF StatusIsInResults, StatusIn
<1>14. QED
  BY <1>5, <1>6, <1>9, <1>10, <1>12, <1>13 DEF GitInv

LEMMA SyncEndsStep ==
  ASSUME GitInv, Git!SyncEnds
  PROVE  GitInv'
<1>1. UNCHANGED <<ed, requests, results, worker, tree, loadLog, repo, steps>> /\ phase' = "input"
  BY DEF Git!SyncEnds
<1>2. GitTypes'
  BY <1>1 DEF GitInv, GitTypes
<1>3. QED
  BY <1>1, <1>2 DEF GitInv, Flying, LogIsShown, LogIsInResults, StatusIsShown, StatusIsInResults,
     LogMovesAfter, ToldAfter

LEMMA InputStep ==
  ASSUME GitInv, Git!Input
  PROVE  GitInv'
<1>1. PICK typed \in Git!Typed(ed) :
         \E clicked \in Git!Clicked(Git!Submit(typed).ed) :
            /\ steps' = steps + Git!Acts(ed, typed) + Git!Acts(Git!Submit(typed).ed, clicked)
            /\ ed' = clicked
            /\ requests' = requests \o Git!Submit(typed).sent
  BY DEF Git!Input
<1> DEFINE e == Git!Submit(typed).ed
           s == Git!Submit(typed).sent
<1>2. PICK clicked \in Git!Clicked(e) :
            /\ steps' = steps + Git!Acts(ed, typed) + Git!Acts(e, clicked)
            /\ ed' = clicked
            /\ requests' = requests \o s
  BY <1>1
<1>3. phase' = "sync" /\ UNCHANGED <<results, worker, tree, loadLog, repo>>
  BY DEF Git!Input
<1>4. Proper(ed) /\ GitTypes
  BY DEF GitInv, GitTypes, Proper
<1>5. Follows(ed, typed, <<>>) /\ Proper(typed)
  BY <1>4, TypedFollows DEF Follows, Proper
<1>6. Follows(typed, e, s) /\ Proper(e)
  BY <1>5, SubmitFollows DEF Follows, Proper
<1>7. Follows(e, ed', <<>>)
  BY <1>2, <1>6, ClickedFollows
<1> HIDE DEF e, s
<1>8. Follows(ed, ed', s)
  BY <1>4, <1>5, <1>6, <1>7, FollowsFirst, FollowsLast
<1>9. /\ requests' \in Seq(Request) /\ Len(requests') <= GitQueue
      /\ Len(requests') = Len(requests) + Len(s) /\ Len(requests) \in Nat
      /\ \A j \in 1..Len(requests) : j \in 1..Len(requests') /\ requests'[j] = requests[j]
      /\ s # <<>> => /\ Len(requests) + 1 \in 1..Len(requests')
                     /\ requests'[Len(requests) + 1] = s[1]
  <2>1. requests \in Seq(Request) /\ Len(requests) <= GitQueue /\ Len(requests) \in Nat
    BY <1>4, LenProperties DEF GitTypes
  <2>2. CASE s = <<>>
    <3>1. requests' = requests
      BY <1>2, <2>1, <2>2, ConcatEmptySeq
    <3>2. QED
      BY <2>1, <2>2, <3>1
  <2>3. CASE s # <<>>
    <3>1. PICK x \in Request : s = <<x>> /\ Git!Room
      BY <1>8, <2>3 DEF Follows
    <3>2. requests' = Append(requests, x)
      BY <1>2, <2>1, <3>1, AppendIsConcat
    <3>3. /\ requests' \in Seq(Request) /\ Len(requests') = Len(requests) + 1
          /\ \A j \in 1..Len(requests) : requests'[j] = requests[j]
          /\ requests'[Len(requests) + 1] = x
      BY <2>1, <3>2, AppendProperties
    <3>4. s[1] = x /\ Len(s) = 1 /\ Len(requests) + 1 <= GitQueue
      BY <2>1, <3>1, GitAssumption DEF Git!Room
    <3>5. QED
      BY <2>1, <3>3, <3>4
  <2>4. QED
    BY <2>2, <2>3
<1>10. GitTypes'
  <2>1. steps' \in Nat
    BY <1>2, <1>4 DEF GitTypes, Git!Acts
  <2>2. ed' \in EdType /\ ed'.pending = (ed'.kind # "NONE")
    BY <1>8 DEF Follows
  <2>3. QED
    BY <1>3, <1>4, <1>9, <2>1, <2>2 DEF GitTypes
<1>11. Flying'
  <2>1. SUFFICES ASSUME ed'.pending
                 PROVE  \/ \E j \in 1..Len(requests') : requests'[j].kind = ed'.kind
                        \/ \E j \in 1..Len(results') : results'[j].kind = ed'.kind
    BY DEF Flying
  <2>2. CASE ed.pending
    <3>1. ed'.kind = ed.kind
      BY <1>8, <2>2 DEF Follows
    <3>2. QED
      BY <1>3, <1>9, <2>2, <3>1 DEF GitInv, Flying
  <2>3. CASE ~ed.pending
    BY <1>8, <1>9, <2>1, <2>3 DEF Follows
  <2>4. QED
    BY <2>2, <2>3
<1>12. LogIsShown'
  <2>1. LogMovesAfter(0) => LogMovesAfter(0)'
    BY <1>3 DEF LogMovesAfter
  <2>2. ASSUME LogOf(ed, repo.log) PROVE LogOf(ed', repo.log)
    <3>1. ed.error => ed'.error
      BY <1>8 DEF Follows
    <3>2. CASE ed'.commits = <<>>
      BY <3>2 DEF LogOf, PartOf
    <3>3. CASE ed'.error
      BY <3>3 DEF LogOf
    <3>4. CASE ed'.commits = ed.commits /\ (ed.logAsked => ed'.logAsked)
      BY <2>2, <3>1, <3>4 DEF LogOf
    <3>5. QED
      BY <1>8, <3>2, <3>3, <3>4 DEF Follows
  <2>3. QED
    BY <1>3, <2>1, <2>2 DEF GitInv, LogIsShown, LogOf
<1>13. LogIsInResults'
  BY <1>3 DEF GitInv, LogIsInResults, LogMovesAfter, LogIn
<1>14. ASSUME NEW i \in Nat, NEW p \in Paths, ToldAfter(i, p) PROVE ToldAfter(i, p)'
  <2>1. CASE \E j \in 1..Len(requests) : requests[j].kind = "REFRESH"
    BY <1>9, <2>1 DEF ToldAfter
  <2>2. CASE tree \/ worker = "tree" \/ \E j \in 1..Len(results) : j > i /\ Tells(results[j], p)
    BY <1>3, <2>2 DEF ToldAfter
  <2>3. QED
    BY <1>14, <2>1, <2>2 DEF ToldAfter
<1>15. StatusIsShown'
  <2>1. ASSUME NEW p \in Paths PROVE StatusOf(ed', p, repo.status[p]) \/ ToldAfter(0, p)'
    <3>1. CASE ToldAfter(0, p)
      BY <1>14, <3>1
    <3>2. CASE StatusOf(ed, p, repo.status[p])
      <4>1. ed.error => ed'.error
        BY <1>8 DEF Follows
      <4>2. CASE ed'.error
        BY <4>2 DEF StatusOf
      <4>3. CASE s # <<>> /\ s[1].kind = "REFRESH"
        BY <1>9, <4>3 DEF ToldAfter
      <4>4. CASE ed'.status = ed.status /\ (ed.refresh => ed'.refresh)
        BY <3>2, <4>1, <4>4 DEF StatusOf
      <4>5. QED
        BY <1>8, <4>2, <4>3, <4>4 DEF Follows
    <3>3. QED
      BY <3>1, <3>2 DEF GitInv, StatusIsShown
  <2>2. QED
    BY <1>3, <2>1 DEF StatusIsShown, StatusOf
<1>16. StatusIsInResults'
  <2>1. ASSUME NEW i \in 1..Len(results), NEW p \in Paths
        PROVE  StatusIn(results[i], p, repo.status[p]) \/ ToldAfter(i, p)'
    BY <1>14 DEF GitInv, StatusIsInResults
  <2>2. QED
    BY <1>3, <2>1 DEF StatusIsInResults, StatusIn
<1>17. QED
  BY <1>10, <1>11, <1>12, <1>13, <1>15, <1>16 DEF GitInv

\* A result is pushed: what came after the others still does, and r does too.
LEMMA Pushed ==
  ASSUME GitTypes, NEW r \in Result, results' = Append(results, r), Len(results) < GitQueue
  PROVE  /\ results' \in Seq(Result) /\ Len(results') <= GitQueue
         /\ Len(results') = Len(results) + 1 /\ Len(results) \in Nat
         /\ \A j \in 1..Len(results) : j \in 1..Len(results') /\ results'[j] = results[j]
         /\ results'[Len(results) + 1] = r
         /\ \A j \in 1..Len(results') : j \in 1..Len(results) \/ j = Len(results) + 1
         /\ \A i \in 0..Len(results) : LogMovesAfter(i) \/ r.kind = "COMMIT" => LogMovesAfter(i)'
         /\ \A i \in 0..Len(results), p \in Paths : Tells(r, p) => ToldAfter(i, p)'
<1>1. results \in Seq(Result) /\ Len(results) \in Nat
  BY LenProperties DEF GitTypes
<1>2. /\ results' \in Seq(Result) /\ Len(results') <= GitQueue
      /\ Len(results') = Len(results) + 1
      /\ \A j \in 1..Len(results) : j \in 1..Len(results') /\ results'[j] = results[j]
      /\ results'[Len(results) + 1] = r
      /\ \A j \in 1..Len(results') : j \in 1..Len(results) \/ j = Len(results) + 1
  BY <1>1, AppendProperties, GitAssumption
<1>3. ASSUME NEW i \in 0..Len(results), LogMovesAfter(i) \/ r.kind = "COMMIT"
      PROVE  LogMovesAfter(i)'
  <2>1. Len(results) + 1 \in 1..Len(results') /\ Len(results) + 1 > i
    BY <1>1, <1>2
  <2>2. CASE r.kind = "COMMIT"
    BY <1>2, <2>1, <2>2 DEF LogMovesAfter
  <2>3. CASE LogMovesAfter(i)
    BY <1>2, <2>3 DEF LogMovesAfter
  <2>4. QED
    BY <1>3, <2>2, <2>3
<1>4. ASSUME NEW i \in 0..Len(results), NEW p \in Paths, Tells(r, p)
      PROVE  ToldAfter(i, p)'
  <2>1. Len(results) + 1 \in 1..Len(results') /\ Len(results) + 1 > i
    BY <1>1, <1>2
  <2>2. Tells(results'[Len(results) + 1], p)
    BY <1>2, <1>4
  <2>3. QED
    BY <2>1, <2>2 DEF ToldAfter, Tells
<1>5. QED
  BY <1>1, <1>2, <1>3, <1>4

LEMMA RefreshRead ==
  ASSUME GitTypes, NEW w \in BOOLEAN, NEW ok \in BOOLEAN, NEW r \in Git!RefreshResults(w, ok)
  PROVE  /\ r \in Result /\ r.kind = "REFRESH" /\ r.status = repo.status
         /\ LogIn(r, repo.log)
<1> DEFINE c == SubSeq(Git!Log(repo.log), 1, Git!Min({repo.log, Limit + 1}))
<1>1. repo.status \in [Paths -> Git!Status] /\ repo.log \in Nat
  BY DEF GitTypes
<1>2. c \in Commits /\ PartOf(c, 0, repo.log)
  <2>1. Limit + 1 \in Nat /\ 0 + 1 = 1
    BY GitAssumption
  <2>2. LET s == SubSeq(Git!Log(repo.log), 0 + 1, Git!Min({repo.log, Limit + 1}))
        IN  s \in Commits /\ PartOf(s, 0, repo.log)
    BY <1>1, <2>1, LogPart
  <2>3. QED
    BY <2>1, <2>2
<1> HIDE DEF c
<1>3. PICK loaded \in BOOLEAN :
         r = [kind |-> "REFRESH", ok |-> ok, status |-> repo.status, logLoaded |-> loaded,
              commits |-> c]
  <2>1. \A l \in IF ok THEN {w} ELSE {w, FALSE} : l \in BOOLEAN
    OBVIOUS
  <2>2. QED
    BY <2>1 DEF Git!RefreshResults, c
<1>4. r \in Result
  BY <1>1, <1>2, <1>3 DEF Result, Commits
<1>5. QED
  BY <1>2, <1>3, <1>4 DEF LogIn

\* What a command makes of the repository: it moves the log, or the status of a path
\* that its result tells.
LEMMA RunChanges ==
  ASSUME GitTypes, NEW x \in Request
  PROVE  LET y == Git!Run(x, repo) IN
         /\ y \in [status: [Paths -> Git!Status], log: Nat]
         /\ x.kind # "COMMIT" => y.log = repo.log
         /\ \A p \in Paths : Tells(x, p) \/ y.status[p] = repo.status[p]
         /\ x.kind = "REFRESH" => y = repo
<1> DEFINE y == Git!Run(x, repo)
<1>1. repo \in [status: [Paths -> Git!Status], log: Nat]
  BY DEF GitTypes
<1>2. ASSUME NEW g \in [Paths -> Git!Status], y = [repo EXCEPT !.status = g],
             \A p \in Paths : Tells(x, p) \/ g[p] = repo.status[p],
             x.kind # "REFRESH"
      PROVE  /\ y \in [status: [Paths -> Git!Status], log: Nat] /\ y.log = repo.log
             /\ \A p \in Paths : Tells(x, p) \/ y.status[p] = repo.status[p]
  <2> HIDE DEF y
  <2>1. QED
    BY <1>1, <1>2
<1>3. CASE x.kind \in Git!PathActions
  <2>1. x.path \in Paths
    BY <1>3 DEF Request, Git!PathActions, Git!Actions
  <2>2. PICK v \in Git!Status : y = [repo EXCEPT !.status[x.path] = v]
    <3>1. repo.status[x.path] \in Git!Status /\ "staged" \in Git!Status /\ "changed" \in Git!Status
      BY <1>1, <2>1 DEF Git!Status
    <3>2. CASE x.kind = "STAGE"
      BY <3>1, <3>2 DEF Git!Run
    <3>3. CASE x.kind = "UNSTAGE"
      BY <3>1, <3>3 DEF Git!Run
    <3>4. QED
      BY <1>3, <3>2, <3>3 DEF Git!PathActions
  <2> DEFINE g == [repo.status EXCEPT ![x.path] = v]
  <2>3. g \in [Paths -> Git!Status] /\ y = [repo EXCEPT !.status = g]
    BY <1>1, <2>1, <2>2
  <2>4. \A p \in Paths : Tells(x, p) \/ g[p] = repo.status[p]
    BY <1>1, <1>3, <2>1 DEF Tells
  <2>5. x.kind # "REFRESH"
    BY <1>3 DEF Git!PathActions
  <2> HIDE DEF g, y
  <2>6. QED
    BY <1>2, <2>3, <2>4, <2>5 DEF y
<1>4. CASE x.kind = "STAGE_ALL"
  <2> DEFINE g == [p \in Paths |-> IF repo.status[p] = "changed" THEN "staged" ELSE repo.status[p]]
  <2>1. g \in [Paths -> Git!Status] /\ DOMAIN repo.status = Paths
    BY <1>1 DEF Git!Status
  <2>2. y = [repo EXCEPT !.status = [p \in Paths |->
                                      IF @[p] = "changed" THEN "staged" ELSE @[p]]]
    BY <1>4 DEF Git!Run
  <2>3. y = [repo EXCEPT !.status = g]
    BY <1>1, <2>2
  <2>4. \A p \in Paths : Tells(x, p)
    BY <1>4 DEF Tells
  <2> HIDE DEF g, y
  <2>5. QED
    BY <1>2, <1>4, <2>1, <2>3, <2>4 DEF y
<1>5. CASE x.kind = "COMMIT"
  <2> DEFINE g == [p \in Paths |-> IF repo.status[p] = "staged" THEN "clean" ELSE repo.status[p]]
  <2>1. g \in [Paths -> Git!Status] /\ repo.log + 1 \in Nat
    BY <1>1 DEF Git!Status
  <2>2. y = [status |-> g, log |-> repo.log + 1]
    BY <1>5 DEF Git!Run
  <2>3. \A p \in Paths : Tells(x, p)
    BY <1>5 DEF Tells
  <2> HIDE DEF g, y
  <2>4. QED
    BY <1>5, <2>1, <2>2, <2>3 DEF y
<1>6. CASE x.kind \notin Git!PathActions \cup {"STAGE_ALL", "COMMIT"}
  <2>1. y = repo
    BY <1>6 DEF Git!Run, Git!PathActions
  <2> HIDE DEF y
  <2>2. QED
    BY <1>1, <1>6, <2>1 DEF y
<1>7. QED
  BY <1>2, <1>3, <1>4, <1>5, <1>6

LEMMA ExecutedResult ==
  ASSUME GitTypes, NEW x \in Request, NEW ok \in BOOLEAN, NEW r \in Git!Executed(x, ok)
  PROVE  /\ r \in Result /\ r.kind = x.kind
         /\ \A p \in Paths : Tells(x, p) => Tells(r, p)
         /\ r.kind # "COMMIT" => LogIn(r, repo.log)
         /\ ok => \A p \in Paths : StatusIn(r, p, Git!Run(x, repo).status[p])
         /\ ~ok => \A p \in Paths, v \in Git!Status : StatusIn(r, p, v)
<1>1. repo.log \in Nat /\ Git!Run(x, repo).status \in [Paths -> Git!Status]
  BY RunChanges DEF GitTypes
<1>2. CASE x.kind = "REFRESH"
  <2>1. x.withLog \in BOOLEAN
    BY <1>2 DEF Request, Git!Actions, Git!PathActions
  <2>2. r \in Git!RefreshResults(x.withLog, ok)
    BY <1>2 DEF Git!Executed, Git!PathActions
  <2>3. r \in Result /\ r.kind = "REFRESH" /\ r.status = repo.status /\ LogIn(r, repo.log)
    BY <2>1, <2>2, RefreshRead
  <2>4. r.ok = ok
    <3>1. PICK l : r = [kind |-> "REFRESH", ok |-> ok, status |-> repo.status, logLoaded |-> l,
                        commits |-> SubSeq(Git!Log(repo.log), 1, Git!Min({repo.log, Limit + 1}))]
      BY <2>2 DEF Git!RefreshResults
    <3>2. QED
      BY <3>1
  <2>5. Git!Run(x, repo) = repo
    BY <1>2, RunChanges
  <2>6. QED
    BY <1>2, <2>3, <2>4, <2>5 DEF Tells, StatusIn
<1>3. CASE x.kind = "COMMIT_PAGE"
  <2>1. x.gen \in Nat /\ x.offset \in Nat
    BY <1>3 DEF Request, Git!Actions, Git!PathActions
  <2>2. r = [kind |-> x.kind, ok |-> ok, gen |-> x.gen, offset |-> x.offset,
             commits |-> Git!PageOf(x.offset)]
    BY <1>3 DEF Git!Executed, Git!PathActions
  <2>3. x.offset + Page + 1 \in Nat
    BY <2>1, GitAssumption
  <2>4. Git!PageOf(x.offset) \in Commits /\ PartOf(Git!PageOf(x.offset), x.offset, repo.log)
    BY <1>1, <2>1, <2>3, LogPart DEF Git!PageOf
  <2>5. r \in Result
    BY <1>3, <2>1, <2>2, <2>4 DEF Result, Commits
  <2>6. LogIn(r, repo.log)
    BY <1>3, <2>2, <2>4 DEF LogIn
  <2>7. QED
    BY <1>3, <2>2, <2>5, <2>6 DEF Tells, StatusIn, Git!PathActions
<1>4. CASE x.kind = "COMMIT_FILES"
  <2>1. x.oid \in Nat
    BY <1>4 DEF Request, Git!Actions, Git!PathActions
  <2>2. r = [kind |-> x.kind, ok |-> ok, oid |-> x.oid]
    BY <1>4 DEF Git!Executed, Git!PathActions
  <2>3. r \in Result
    BY <1>4, <2>1, <2>2 DEF Result
  <2>4. QED
    BY <1>4, <2>2, <2>3 DEF Tells, StatusIn, Git!PathActions, LogIn
<1>5. CASE x.kind \in Git!PathActions
  <2>1. x.path \in Paths
    BY <1>5 DEF Request, Git!Actions, Git!PathActions
  <2>2. r = [kind |-> x.kind, ok |-> ok, path |-> x.path, status |-> Git!Run(x, repo).status]
    BY <1>5 DEF Git!Executed, Git!PathActions
  <2>3. r \in Result
    BY <1>1, <1>5, <2>1, <2>2 DEF Result
  <2>4. QED
    BY <1>5, <2>2, <2>3 DEF Tells, StatusIn, Git!PathActions, LogIn
<1>6. CASE x.kind \in Git!Actions \ Git!PathActions
  <2>1. r = [kind |-> x.kind, ok |-> ok]
    BY <1>6 DEF Git!Executed, Git!Actions, Git!PathActions
  <2>2. r \in Result
    BY <1>6, <2>1 DEF Result
  <2>3. QED
    BY <1>6, <2>1, <2>2 DEF Tells, StatusIn, Git!PathActions, LogIn, Git!Actions
<1>7. QED
  BY <1>2, <1>3, <1>4, <1>5, <1>6 DEF Request, Git!Actions, Git!PathActions

LEMMA GitWorkStep ==
  ASSUME GitInv, Git!GitWork
  PROVE  GitInv'
<1> DEFINE x == Head(requests)
<1>1. PICK ok \in BOOLEAN :
        /\ Git!MayFail(ok)
        /\ repo' = IF ok /\ Git!Works(x, repo) THEN Git!Run(x, repo) ELSE repo
        /\ \E r \in Git!Executed(x, ok /\ Git!Works(x, repo)) : results' = Append(results, r)
  BY DEF Git!GitWork
<1>2. /\ worker = "idle" /\ requests # <<>> /\ Len(results) < GitQueue
      /\ requests' = Tail(requests) /\ UNCHANGED <<ed, phase, worker, tree, loadLog>>
  BY DEF Git!GitWork
<1> DEFINE done == ok /\ Git!Works(x, repo)
<1>3. PICK r \in Git!Executed(x, done) : results' = Append(results, r)
  BY <1>1
<1>4. GitTypes
  BY DEF GitInv
<1>5. /\ requests' \in Seq(Request) /\ Len(requests') <= GitQueue
      /\ \A j \in 2..Len(requests) : j - 1 \in 1..Len(requests') /\ requests'[j - 1] = requests[j]
      /\ x = requests[1] /\ x \in Request
  <2>1. requests \in Seq(Request) /\ Len(requests) <= GitQueue
    BY <1>4 DEF GitTypes
  <2>2. QED
    BY <1>2, <2>1, HeadTailProperties, LenProperties, ElementOfSeq, GitAssumption
<1>6. done \in BOOLEAN /\ repo' = IF done THEN Git!Run(x, repo) ELSE repo
  BY <1>1
<1> HIDE DEF x, done
<1>7. /\ r \in Result /\ r.kind = x.kind
      /\ \A p \in Paths : Tells(x, p) => Tells(r, p)
      /\ r.kind # "COMMIT" => LogIn(r, repo.log)
      /\ done => \A p \in Paths : StatusIn(r, p, Git!Run(x, repo).status[p])
      /\ ~done => \A p \in Paths, v \in Git!Status : StatusIn(r, p, v)
  BY <1>3, <1>4, <1>5, <1>6, ExecutedResult
<1>8. /\ repo' \in [status: [Paths -> Git!Status], log: Nat]
      /\ r.kind # "COMMIT" => repo'.log = repo.log
      /\ \A p \in Paths : Tells(r, p) \/ repo'.status[p] = repo.status[p]
      /\ \A p \in Paths : StatusIn(r, p, repo'.status[p])
  <2>1. CASE done
    BY <1>4, <1>5, <1>6, <1>7, <2>1, RunChanges
  <2>2. CASE ~done
    <3>1. repo' = repo /\ repo.status \in [Paths -> Git!Status]
      BY <1>4, <1>6, <2>2 DEF GitTypes
    <3>2. QED
      BY <1>4, <1>7, <2>2, <3>1 DEF GitTypes
  <2>3. QED
    BY <2>1, <2>2, <1>6
<1>9. /\ results' \in Seq(Result) /\ Len(results') <= GitQueue
      /\ Len(results') = Len(results) + 1 /\ Len(results) \in Nat
      /\ \A j \in 1..Len(results) : j \in 1..Len(results') /\ results'[j] = results[j]
      /\ results'[Len(results) + 1] = r
      /\ \A j \in 1..Len(results') : j \in 1..Len(results) \/ j = Len(results) + 1
      /\ \A i \in 0..Len(results) : LogMovesAfter(i) \/ r.kind = "COMMIT" => LogMovesAfter(i)'
      /\ \A i \in 0..Len(results), p \in Paths : Tells(r, p) => ToldAfter(i, p)'
  BY <1>2, <1>3, <1>4, <1>7, Pushed
<1>10. GitTypes'
  <2>1. steps' \in Nat
    BY <1>1, <1>4 DEF Git!MayFail, GitTypes
  <2>2. QED
    BY <1>2, <1>4, <1>5, <1>8, <1>9, <2>1 DEF GitTypes
<1>11. Flying'
  <2>1. SUFFICES ASSUME ed.pending
                 PROVE  \/ \E j \in 1..Len(requests') : requests'[j].kind = ed.kind
                        \/ \E j \in 1..Len(results') : results'[j].kind = ed.kind
    BY <1>2 DEF Flying
  <2>2. ASSUME NEW j \in 1..Len(requests), requests[j].kind = ed.kind
        PROVE  \/ \E k \in 1..Len(requests') : requests'[k].kind = ed.kind
               \/ \E k \in 1..Len(results') : results'[k].kind = ed.kind
    <3>1. CASE j = 1
      <4>1. Len(results) + 1 \in 1..Len(results')
        BY <1>9
      <4>2. QED
        BY <1>5, <1>7, <1>9, <2>2, <3>1, <4>1
    <3>2. CASE j # 1
      <4>1. j \in 2..Len(requests)
        BY <3>2
      <4>2. QED
        BY <1>5, <2>2, <4>1
    <3>3. QED
      BY <3>1, <3>2
  <2>3. ASSUME NEW j \in 1..Len(results), results[j].kind = ed.kind
        PROVE  \E k \in 1..Len(results') : results'[k].kind = ed.kind
    BY <1>9, <2>3
  <2>4. QED
    BY <2>1, <2>2, <2>3 DEF GitInv, Flying
<1>12. LogIsShown'
  <2>1. CASE r.kind = "COMMIT" \/ LogMovesAfter(0)
    <3>1. LogMovesAfter(0)'
      BY <1>9, <2>1
    <3>2. QED
      BY <3>1 DEF LogIsShown
  <2>2. CASE ~(r.kind = "COMMIT" \/ LogMovesAfter(0))
    BY <1>2, <1>8, <2>2 DEF GitInv, LogIsShown, LogOf
  <2>3. QED
    BY <2>1, <2>2
<1>13. LogIsInResults'
  <2>1. ASSUME NEW i \in 1..Len(results')
        PROVE  LogIn(results'[i], repo'.log) \/ LogMovesAfter(i)'
    <3>1. CASE i \in 1..Len(results)
      <4>1. LogIn(results[i], repo.log) \/ LogMovesAfter(i)
        BY <3>1 DEF GitInv, LogIsInResults
      <4>2. CASE r.kind = "COMMIT" \/ LogMovesAfter(i)
        BY <1>9, <3>1, <4>2
      <4>3. CASE ~(r.kind = "COMMIT" \/ LogMovesAfter(i))
        BY <1>8, <1>9, <3>1, <4>1, <4>3
      <4>4. QED
        BY <4>2, <4>3
    <3>2. CASE i = Len(results) + 1
      <4>1. CASE r.kind = "COMMIT"
        BY <1>9, <3>2, <4>1 DEF LogIn
      <4>2. CASE r.kind # "COMMIT"
        BY <1>7, <1>8, <1>9, <3>2, <4>2
      <4>3. QED
        BY <4>1, <4>2
    <3>3. QED
      BY <1>9, <3>1, <3>2
  <2>2. QED
    BY <2>1 DEF LogIsInResults, LogIn
<1>14. ASSUME NEW i \in 0..Len(results), NEW p \in Paths, ToldAfter(i, p) PROVE ToldAfter(i, p)'
  <2>1. ASSUME NEW j \in 1..Len(requests), requests[j].kind = "REFRESH" PROVE ToldAfter(i, p)'
    <3>1. CASE j = 1
      <4>1. Tells(r, p)
        BY <1>5, <1>7, <2>1, <3>1 DEF Tells
      <4>2. QED
        BY <1>9, <4>1
    <3>2. CASE j # 1
      <4>1. j \in 2..Len(requests)
        BY <3>2
      <4>2. QED
        BY <1>5, <2>1, <4>1 DEF ToldAfter
    <3>3. QED
      BY <3>1, <3>2
  <2>2. CASE tree \/ worker = "tree"
    BY <1>2, <2>2 DEF ToldAfter
  <2>3. ASSUME NEW j \in 1..Len(results), j > i, Tells(results[j], p) PROVE ToldAfter(i, p)'
    <3>1. Tells(results'[j], p) /\ j \in 1..Len(results')
      BY <1>9, <2>3
    <3>2. QED
      BY <2>3, <3>1 DEF ToldAfter, Tells
  <2>4. QED
    BY <1>14, <2>1, <2>2, <2>3 DEF ToldAfter
<1>15. StatusIsShown'
  <2>1. ASSUME NEW p \in Paths PROVE StatusOf(ed, p, repo'.status[p]) \/ ToldAfter(0, p)'
    <3>1. CASE Tells(r, p) \/ ToldAfter(0, p)
      BY <1>9, <1>14, <3>1
    <3>2. CASE ~(Tells(r, p) \/ ToldAfter(0, p))
      BY <1>8, <3>2 DEF GitInv, StatusIsShown
    <3>3. QED
      BY <3>1, <3>2
  <2>2. QED
    BY <1>2, <2>1 DEF StatusIsShown, StatusOf
<1>16. StatusIsInResults'
  <2>1. ASSUME NEW i \in 1..Len(results'), NEW p \in Paths
        PROVE  StatusIn(results'[i], p, repo'.status[p]) \/ ToldAfter(i, p)'
    <3>1. CASE i \in 1..Len(results)
      <4>1. CASE Tells(r, p) \/ ToldAfter(i, p)
        BY <1>9, <1>14, <3>1, <4>1
      <4>2. CASE ~(Tells(r, p) \/ ToldAfter(i, p))
        BY <1>8, <1>9, <3>1, <4>2 DEF GitInv, StatusIsInResults
      <4>3. QED
        BY <4>1, <4>2
    <3>2. CASE i = Len(results) + 1
      BY <1>8, <1>9, <3>2
    <3>3. QED
      BY <1>9, <3>1, <3>2
  <2>2. QED
    BY <2>1 DEF StatusIsInResults, StatusIn
<1>17. QED
  BY <1>10, <1>11, <1>12, <1>13, <1>15, <1>16 DEF GitInv

LEMMA TakeTreeStep ==
  ASSUME GitInv, Git!TakeTree
  PROVE  GitInv'
<1>1. /\ worker' = "tree" /\ tree' = FALSE
      /\ UNCHANGED <<ed, phase, requests, results, loadLog, repo, steps>>
  BY DEF Git!TakeTree
<1>2. GitTypes'
  BY <1>1 DEF GitInv, GitTypes
<1>3. Flying' /\ LogIsShown' /\ LogIsInResults'
  BY <1>1 DEF GitInv, Flying, LogIsShown, LogIsInResults, LogMovesAfter, LogOf, LogIn
<1>4. \A i, p : ToldAfter(i, p)'
  BY <1>1 DEF ToldAfter
<1>5. StatusIsShown' /\ StatusIsInResults'
  BY <1>4 DEF StatusIsShown, StatusIsInResults
<1>6. QED
  BY <1>2, <1>3, <1>5 DEF GitInv

LEMMA FinishTreeStep ==
  ASSUME GitInv, Git!FinishTree
  PROVE  GitInv'
<1>1. PICK ok \in BOOLEAN :
        Git!MayFail(ok) /\ \E r \in Git!RefreshResults(loadLog, ok) : results' = Append(results, r)
  BY DEF Git!FinishTree
<1>2. PICK r \in Git!RefreshResults(loadLog, ok) : results' = Append(results, r)
  BY <1>1
<1>3. /\ Len(results) < GitQueue /\ worker' = "idle" /\ loadLog' = FALSE
      /\ UNCHANGED <<ed, phase, requests, tree, repo>>
  BY DEF Git!FinishTree
<1>4. GitTypes /\ loadLog \in BOOLEAN
  BY DEF GitInv, GitTypes
<1>5. r \in Result /\ r.kind = "REFRESH" /\ r.status = repo.status /\ LogIn(r, repo.log)
  BY <1>2, <1>4, RefreshRead
<1>6. \A p \in Paths : Tells(r, p)
  BY <1>5 DEF Tells
<1>7. /\ results' \in Seq(Result) /\ Len(results') <= GitQueue
      /\ Len(results') = Len(results) + 1 /\ Len(results) \in Nat
      /\ \A j \in 1..Len(results) : j \in 1..Len(results') /\ results'[j] = results[j]
      /\ results'[Len(results) + 1] = r
      /\ \A j \in 1..Len(results') : j \in 1..Len(results) \/ j = Len(results) + 1
      /\ \A i \in 0..Len(results) : LogMovesAfter(i) \/ r.kind = "COMMIT" => LogMovesAfter(i)'
      /\ \A i \in 0..Len(results), p \in Paths : Tells(r, p) => ToldAfter(i, p)'
  BY <1>2, <1>3, <1>4, <1>5, Pushed
<1>8. GitTypes'
  <2>1. steps' \in Nat
    BY <1>1, <1>4 DEF Git!MayFail, GitTypes
  <2>2. QED
    BY <1>3, <1>4, <1>7, <2>1 DEF GitTypes
<1>9. Flying'
  <2>1. ed' = ed /\ requests' = requests
    BY <1>3
  <2>2. (\E j \in 1..Len(results) : results[j].kind = ed.kind)
           => \E j \in 1..Len(results') : results'[j].kind = ed.kind
    BY <1>7
  <2>3. QED
    BY <2>1, <2>2 DEF GitInv, Flying
<1>10. LogIsShown'
  BY <1>3, <1>7 DEF GitInv, LogIsShown, LogOf
<1>11. LogIsInResults'
  <2>1. ASSUME NEW i \in 1..Len(results')
        PROVE  LogIn(results'[i], repo.log) \/ LogMovesAfter(i)'
    <3>1. CASE i \in 1..Len(results)
      BY <1>7, <3>1 DEF GitInv, LogIsInResults
    <3>2. CASE i = Len(results) + 1
      BY <1>5, <1>7, <3>2
    <3>3. QED
      BY <1>7, <3>1, <3>2
  <2>2. QED
    BY <1>3, <2>1 DEF LogIsInResults, LogIn
<1>12. StatusIsShown'
  BY <1>6, <1>7 DEF StatusIsShown
<1>13. StatusIsInResults'
  <2>1. ASSUME NEW i \in 1..Len(results'), NEW p \in Paths
        PROVE  StatusIn(results'[i], p, repo.status[p]) \/ ToldAfter(i, p)'
    <3>1. CASE i \in 1..Len(results)
      BY <1>6, <1>7, <3>1
    <3>2. CASE i = Len(results) + 1
      BY <1>5, <1>7, <3>2 DEF StatusIn
    <3>3. QED
      BY <1>7, <3>1, <3>2
  <2>2. QED
    BY <1>3, <2>1 DEF StatusIsInResults, StatusIn
<1>14. QED
  BY <1>8, <1>9, <1>10, <1>11, <1>12, <1>13 DEF GitInv

LEMMA WrittenStep ==
  ASSUME GitInv, NEW q \in Paths, Git!Edit(q)
  PROVE  GitInv'
<1>1. /\ repo' = [repo EXCEPT !.status[q] = "changed"] /\ tree' = TRUE /\ steps' = steps + 1
      /\ UNCHANGED <<ed, phase, requests, results, worker, loadLog>>
  BY DEF Git!Edit
<1>2. repo' \in [status: [Paths -> Git!Status], log: Nat] /\ repo'.log = repo.log
  <2>1. repo \in [status: [Paths -> Git!Status], log: Nat] /\ "changed" \in Git!Status
    BY DEF GitInv, GitTypes, Git!Status
  <2>2. [repo.status EXCEPT ![q] = "changed"] \in [Paths -> Git!Status]
    BY <2>1
  <2>3. repo' = [repo EXCEPT !.status = [repo.status EXCEPT ![q] = "changed"]]
    BY <1>1, <2>1
  <2>4. QED
    BY <2>1, <2>2, <2>3
<1>3. GitTypes'
  <2>1. GitTypes /\ steps' \in Nat
    BY <1>1 DEF GitInv, GitTypes
  <2>2. QED
    BY <1>1, <1>2, <2>1 DEF GitTypes
<1>4. Flying' /\ LogIsShown' /\ LogIsInResults'
  BY <1>1, <1>2 DEF GitInv, Flying, LogIsShown, LogIsInResults, LogMovesAfter, LogOf, LogIn
<1>5. \A i, p : ToldAfter(i, p)'
  BY <1>1 DEF ToldAfter
<1>6. StatusIsShown' /\ StatusIsInResults'
  BY <1>5 DEF StatusIsShown, StatusIsInResults
<1>7. QED
  BY <1>3, <1>4, <1>6 DEF GitInv

LEMMA GitInvStep == GitInv /\ [Git!Next]_Git!vars => GitInv'
<1> SUFFICES ASSUME GitInv, [Git!Next]_Git!vars PROVE GitInv'
  OBVIOUS
<1>1. CASE UNCHANGED Git!vars
  <2>1. UNCHANGED <<ed, phase, requests, results, worker, tree, loadLog, repo, steps>>
    BY <1>1 DEF Git!vars
  <2>2. QED
    BY <2>1 DEF GitInv, GitTypes, Flying, LogIsShown, LogIsInResults, StatusIsShown,
       StatusIsInResults, LogMovesAfter, ToldAfter
<1>2. QED
  BY <1>1, TakeResultStep, SyncEndsStep, InputStep, GitWorkStep, TakeTreeStep, FinishTreeStep,
     WrittenStep DEF Git!Next, Git!Sync

LEMMA GitInvAlways == Git!Spec => []GitInv
BY GitInit, GitInvStep, PTL DEF Git!Spec

\* The queues and the sidebar are well typed.
THEOREM GitTyped == Git!Spec => []Git!TypeOK
<1>1. GitInv => Git!TypeOK
  BY DEF GitInv, GitTypes, EdType, Git!TypeOK
<1>2. QED
  BY <1>1, GitInvAlways, PTL

\* An operation shown as pending is in one of the two queues: no order of results,
\* failures and refreshes nobody asked for leaves the buttons off for good
\* (git_operation_pending, app.cpp).
THEOREM PendingEnds == Git!Spec => []PendingIsInFlight
<1>1. GitInv => PendingIsInFlight
  <2>1. SUFFICES ASSUME GitInv, ed.pending
                 PROVE  \E x \in Git!ToSet(requests) \cup Git!ToSet(results) : x.kind = ed.kind
    BY DEF PendingIsInFlight, Git!PendingIsInFlight
  <2>2. requests \in Seq(Request) /\ results \in Seq(Result)
    BY <2>1 DEF GitInv, GitTypes
  <2>3. CASE \E j \in 1..Len(requests) : requests[j].kind = ed.kind
    BY <2>2, <2>3 DEF Git!ToSet
  <2>4. CASE \E j \in 1..Len(results) : results[j].kind = ed.kind
    BY <2>2, <2>4 DEF Git!ToSet
  <2>5. QED
    BY <2>1, <2>3, <2>4 DEF GitInv, Flying
<1>2. QED
  BY <1>1, GitInvAlways, PTL

\* The commits listed follow each other, whatever the order of pages, reloads and
\* operations that move the log (append_git_commit_page, app.cpp).
THEOREM CommitsFollowEachOther == Git!Spec => []CommitsAreConsecutive
<1>1. GitInv => CommitsAreConsecutive
  <2>1. SUFFICES ASSUME GitInv PROVE CommitsAreConsecutive
    OBVIOUS
  <2>2. results \in Seq(Result) /\ ed.commits \in Commits /\ repo.log \in Nat
    BY <2>1 DEF GitInv, GitTypes, EdType, Commits
  <2>3. CASE PartOf(ed.commits, 0, repo.log)
    <3>1. ASSUME NEW i \in 1..Len(ed.commits) - 1
          PROVE  ed.commits[i] = ed.commits[i + 1] + 1
      <4>1. i \in 1..Len(ed.commits) /\ i + 1 \in 1..Len(ed.commits)
        BY <2>2, LenProperties DEF Commits
      <4>2. QED
        <5>1. /\ ed.commits[i] = repo.log + 1 - (0 + i)
              /\ ed.commits[i + 1] = repo.log + 1 - (0 + (i + 1))
          BY <2>3, <4>1 DEF PartOf
        <5>2. i \in Nat /\ i + 1 \in Nat
          BY <4>1
        <5>3. QED
          BY <2>2, <5>1, <5>2
    <3>2. QED
      BY <3>1 DEF CommitsAreConsecutive, Git!CommitsAreConsecutive
  <2>4. CASE ed.logAsked \/ ed.error
    BY <2>4 DEF CommitsAreConsecutive, Git!CommitsAreConsecutive
  <2>5. CASE LogMovesAfter(0)
    <3>1. \E x \in Git!ToSet(results) : x.kind = "COMMIT"
      BY <2>2, <2>5 DEF LogMovesAfter, Git!ToSet
    <3>2. QED
      BY <3>1 DEF CommitsAreConsecutive, Git!CommitsAreConsecutive
  <2>6. QED
    BY <2>1, <2>3, <2>4, <2>5 DEF GitInv, LogIsShown, LogOf
<1>2. QED
  BY <1>1, GitInvAlways, PTL

\* When nothing is under way the open sidebar shows the files as they are and the graph
\* the newest commits: no flag that a result clears was the last to remember a change
\* (apply_git_refresh_result and apply_git_action_result, app.cpp).
THEOREM AtRestTheRepositoryIsShown == Git!Spec => []AtRestAllIsShown
<1>1. GitInv => AtRestAllIsShown
  <2>1. SUFFICES ASSUME GitInv, Git!AtRest, ed.sidebar, ~ed.error
                 PROVE  /\ ed.status = repo.status
                        /\ ed.graph => ed.commits = SubSeq(Git!Log(repo.log), 1, Len(ed.commits))
    BY DEF AtRestAllIsShown, Git!AtRestAllIsShown
  <2>2. /\ requests = <<>> /\ results = <<>> /\ worker = "idle" /\ ~tree
        /\ ~ed.refresh /\ ~(ed.graph /\ ed.logAsked)
    BY <2>1 DEF Git!AtRest
  <2>3. /\ ed.status \in [Paths -> Git!Status] /\ repo.status \in [Paths -> Git!Status]
        /\ ed.commits \in Commits /\ repo.log \in Nat
    BY <2>1 DEF GitInv, GitTypes, EdType, Commits
  <2>4. ASSUME NEW p \in Paths PROVE ed.status[p] = repo.status[p]
    <3>1. ~ToldAfter(0, p)
      BY <2>2 DEF ToldAfter
    <3>2. QED
      BY <2>1, <2>2, <3>1 DEF GitInv, StatusIsShown, StatusOf
  <2>5. ed.status = repo.status
    BY <2>3, <2>4
  <2>6. ASSUME ed.graph PROVE ed.commits = SubSeq(Git!Log(repo.log), 1, Len(ed.commits))
    <3>1. PartOf(ed.commits, 0, repo.log)
      <4>1. ~LogMovesAfter(0)
        BY <2>2 DEF LogMovesAfter
      <4>2. QED
        BY <2>1, <2>2, <2>6, <4>1 DEF GitInv, LogIsShown, LogOf
    <3>2. QED
      BY <2>3, <3>1, PartIsPrefix
  <2>7. QED
    BY <2>5, <2>6
<1>2. QED
  BY <1>1, GitInvAlways, PTL
-----------------------------------------------------------------------------
(* The pipe to a language server.  A message that is written is a run of
   units of its own behind the bytes, in front of the backlog (Inserted); a
   pump only moves units from the backlog to the bytes and from the bytes to
   the wire (Keeps). *)

Whole(s) ==
  \A i, j \in 1..Len(s) : (i < j /\ s[i] = s[j]) => \A k \in i..j : s[k] = s[i]
Rising(s) == \A i, j \in 1..Len(s) : i < j => s[i] <= s[j]
Apart(s, t) == \A i \in 1..Len(s), j \in 1..Len(t) : s[i] # t[j]
PlacesOf(s, m) == {i \in 1..Len(s) : s[i] = m}

\* What a pipe of n messages can be.
Ios(n) == [bytes: Seq(1..n), backlog: Seq(1..n), pending: 0..Chunk, open: BOOLEAN,
           wire: Seq(1..n), batch: Nat]

\* The write that is pending reads the first bytes.
Reading(i) ==
  i.pending > 0 => i.pending = Pipe!Smaller(Chunk, Len(i.bytes)) /\ Len(i.bytes) <= i.batch

Front(i) == i.wire \o i.bytes
AllOf(i) == Front(i) \o i.backlog

\* Nothing keeps a message from being written in front of the backlog.
Behind(i) == i.open /\ i.backlog # <<>> /\ i.pending = 0

Keeps(i, j) ==
  /\ i.batch <= j.batch
  /\ j.open => i.open
  /\ \/ Front(j) = Front(i) /\ j.backlog = i.backlog
     \/ Front(j) = Front(i) \o i.backlog /\ j.backlog = <<>>

\* What the messages of the sizes z have become.
Carried(i, z) ==
  /\ i \in Ios(Len(z)) /\ Reading(i)
  /\ Whole(AllOf(i)) /\ Apart(Front(i), i.backlog)
  /\ i.open => \A m \in 1..Len(z) : Cardinality(PlacesOf(AllOf(i), m)) = z[m]
  /\ i.batch <= 2 * Chunk => Rising(AllOf(i))

PipeInv ==
  /\ sizes \in Seq(Sizes) /\ Len(sizes) <= MaxMessages
  /\ Carried(Pipe!io, sizes)
  /\ batch <= 2 * Chunk => ~Behind(Pipe!io)

LEMMA FreshUnits ==
  ASSUME NEW n \in Nat, NEW c \in Nat
  PROVE  /\ Pipe!Units(n + 1, c) \in Seq(1..(n + 1))
         /\ Len(Pipe!Units(n + 1, c)) = c
         /\ \A i \in 1..c : Pipe!Units(n + 1, c)[i] = n + 1
<1>1. Pipe!Units(n + 1, c) \in [1..c -> 1..(n + 1)]
  BY DEF Pipe!Units
<1>2. QED
  BY <1>1, SeqDef DEF Pipe!Units

LEMMA MoreUnits ==
  ASSUME NEW n \in Nat, NEW s \in Seq(1..n)
  PROVE  s \in Seq(1..(n + 1)) /\ \A i \in 1..Len(s) : s[i] \in Nat /\ s[i] <= n /\ s[i] # n + 1
<1>1. \A i \in 1..Len(s) : s[i] \in 1..n
  BY ElementOfSeq
<1>2. 1..n \subseteq 1..(n + 1)
  OBVIOUS
<1>3. s \in Seq(1..(n + 1))
  BY <1>2, SeqMonotonic
<1>4. QED
  BY <1>1, <1>3

\* The index of an element of three sequences put together.
LEMMA ThreeParts ==
  ASSUME NEW S, NEW s \in Seq(S), NEW u \in Seq(S), NEW t \in Seq(S)
  PROVE  /\ (s \o u) \o t \in Seq(S) /\ Len((s \o u) \o t) = Len(s) + Len(u) + Len(t)
         /\ \A i \in 1..Len((s \o u) \o t) :
              /\ i <= Len(s) => ((s \o u) \o t)[i] = s[i]
              /\ Len(s) < i /\ i <= Len(s) + Len(u) => ((s \o u) \o t)[i] = u[i - Len(s)]
              /\ Len(s) + Len(u) < i => ((s \o u) \o t)[i] = t[i - Len(s) - Len(u)]
<1> DEFINE y == s \o u
<1>1. y \in Seq(S) /\ Len(y) = Len(s) + Len(u)
      /\ \A i \in 1..Len(s) + Len(u) : y[i] = IF i <= Len(s) THEN s[i] ELSE u[i - Len(s)]
  BY ConcatProperties
<1>2. Len(s) \in Nat /\ Len(u) \in Nat /\ Len(t) \in Nat /\ Len(y) \in Nat
  BY <1>1, LenProperties
<1> HIDE DEF y
<1>3. y \o t \in Seq(S) /\ Len(y \o t) = Len(y) + Len(t)
      /\ \A i \in 1..Len(y) + Len(t) : (y \o t)[i] = IF i <= Len(y) THEN y[i] ELSE t[i - Len(y)]
  <2>1. y \in Seq(S)
    BY <1>1
  <2>2. QED
    BY ONLY <2>1, t \in Seq(S), ConcatProperties, Zenon
<1> DEFINE x == y \o t
<1>4. x \in Seq(S) /\ Len(x) = Len(s) + Len(u) + Len(t)
  BY <1>1, <1>2, <1>3
<1>5. ASSUME NEW i \in 1..Len(x)
      PROVE  /\ i <= Len(s) => x[i] = s[i]
             /\ Len(s) < i /\ i <= Len(s) + Len(u) => x[i] = u[i - Len(s)]
             /\ Len(s) + Len(u) < i => x[i] = t[i - Len(s) - Len(u)]
  <2>1. i \in 1..Len(y) + Len(t) /\ i \in Nat
    BY <1>3, <1>2
  <2>2. x[i] = IF i <= Len(y) THEN y[i] ELSE t[i - Len(y)]
    BY <1>3, <2>1
  <2>3. i <= Len(y) => y[i] = IF i <= Len(s) THEN s[i] ELSE u[i - Len(s)]
    BY <1>1, <1>2, <2>1
  <2>4. i - Len(y) = i - Len(s) - Len(u)
    BY <1>1, <1>2, <2>1
  <2> HIDE DEF x
  <2>5. QED
    BY <1>1, <1>2, <2>1, <2>2, <2>3, <2>4
<1>6. QED
  BY <1>4, <1>5 DEF y

\* A run of a new message between two parts that share none leaves messages whole.
LEMMA WholeInserted ==
  ASSUME NEW n \in Nat, NEW s \in Seq(1..n), NEW t \in Seq(1..n), NEW c \in Nat,
         Whole(s \o t), Apart(s, t)
  PROVE  Whole((s \o Pipe!Units(n + 1, c)) \o t)
<1> DEFINE u == Pipe!Units(n + 1, c)
           x == (s \o u) \o t
           a == Len(s)
           y == s \o t
<1>1. /\ u \in Seq(1..(n + 1)) /\ Len(u) = c /\ \A i \in 1..c : u[i] = n + 1
  BY FreshUnits
<1>2. /\ s \in Seq(1..(n + 1)) /\ \A i \in 1..Len(s) : s[i] # n + 1
      /\ t \in Seq(1..(n + 1)) /\ \A i \in 1..Len(t) : t[i] # n + 1
  BY MoreUnits
<1>3. a \in Nat /\ Len(t) \in Nat
  BY LenProperties
<1>4. /\ Len(y) = a + Len(t)
      /\ \A i \in 1..a + Len(t) : y[i] = IF i <= a THEN s[i] ELSE t[i - a]
  BY ConcatProperties
<1> HIDE DEF u, a, y
<1>5. /\ Len(x) = a + c + Len(t)
      /\ \A i \in 1..Len(x) :
           /\ i <= a => x[i] = s[i]
           /\ a < i /\ i <= a + c => x[i] = u[i - a]
           /\ a + c < i => x[i] = t[i - a - c]
  <2>1. /\ Len(x) = Len(s) + Len(u) + Len(t)
        /\ \A i \in 1..Len(x) :
              /\ i <= Len(s) => x[i] = s[i]
              /\ Len(s) < i /\ i <= Len(s) + Len(u) => x[i] = u[i - Len(s)]
              /\ Len(s) + Len(u) < i => x[i] = t[i - Len(s) - Len(u)]
    <3> DEFINE S == 1..(n + 1)
    <3>1. s \in Seq(S) /\ u \in Seq(S) /\ t \in Seq(S)
      BY <1>1, <1>2
    <3> HIDE DEF S
    <3>2. QED
      BY <3>1, ThreeParts
  <2> HIDE DEF x
  <2>2. QED
    BY <1>1, <2>1 DEF a
<1> HIDE DEF x
\* what was there before is where it was, or c places further on
<1>6. ASSUME NEW i \in 1..Len(x)
      PROVE  /\ i <= a => i \in 1..Len(y) /\ y[i] = x[i] /\ x[i] = s[i] /\ i \in 1..a
             /\ a + c < i => /\ i - c \in 1..Len(y) /\ y[i - c] = x[i]
                             /\ x[i] = t[i - a - c] /\ i - a - c \in 1..Len(t)
             /\ a < i /\ i <= a + c => x[i] = n + 1
  <2>1. i \in Nat /\ i >= 1 /\ i <= a + c + Len(t)
    BY <1>3, <1>5
  <2>2. ASSUME i <= a PROVE i \in 1..Len(y) /\ y[i] = x[i] /\ x[i] = s[i] /\ i \in 1..a
    BY <1>3, <1>4, <1>5, <2>1, <2>2
  <2>3. ASSUME a + c < i
        PROVE  /\ i - c \in 1..Len(y) /\ y[i - c] = x[i]
               /\ x[i] = t[i - a - c] /\ i - a - c \in 1..Len(t)
    <3>1. i - c \in 1..a + Len(t) /\ ~(i - c <= a) /\ i - c - a = i - a - c
          /\ i - a - c \in 1..Len(t)
      BY <1>3, <2>1, <2>3
    <3>2. y[i - c] = t[i - c - a]
      BY <1>4, <3>1
    <3>3. x[i] = t[i - a - c]
      BY <1>5, <2>3
    <3>4. QED
      BY <1>4, <3>1, <3>2, <3>3
  <2>4. ASSUME a < i, i <= a + c PROVE x[i] = n + 1
    <3>1. i - a \in 1..c
      BY <1>3, <2>1, <2>4
    <3>2. QED
      BY <1>1, <1>5, <2>4, <3>1
  <2>5. QED
    BY <2>2, <2>3, <2>4
<1>7. ASSUME NEW i \in 1..Len(x), NEW j \in 1..Len(x), i < j, x[i] = x[j], NEW k \in i..j
      PROVE  x[k] = x[i]
  <2>1. k \in 1..Len(x) /\ i \in Nat /\ j \in Nat /\ k \in Nat /\ i <= k /\ k <= j
    BY <1>3, <1>5, <1>7
  <2>2. \A p, q \in 1..Len(y) : (p < q /\ y[p] = y[q]) => \A r \in p..q : y[r] = y[p]
    BY DEF Whole, y
  <2>3. CASE j <= a
    <3>1. i <= a /\ k <= a
      BY <1>3, <1>7, <2>1, <2>3
    <3>2. /\ i \in 1..Len(y) /\ j \in 1..Len(y) /\ y[i] = x[i] /\ y[j] = x[j] /\ y[k] = x[k]
      BY <1>6, <2>1, <2>3, <3>1
    <3>3. QED
      BY <1>7, <2>2, <3>2
  <2>4. CASE a + c < i
    <3>1. a + c < j /\ a + c < k
      BY <1>3, <1>7, <2>1, <2>4
    <3>2. /\ i - c \in 1..Len(y) /\ j - c \in 1..Len(y)
          /\ y[i - c] = x[i] /\ y[j - c] = x[j] /\ y[k - c] = x[k]
      BY <1>6, <2>1, <2>4, <3>1
    <3>3. i - c < j - c /\ k - c \in (i - c)..(j - c)
      BY <1>7, <2>1
    <3>4. y[k - c] = y[i - c]
      BY <1>7, <2>2, <3>2, <3>3
    <3>5. QED
      BY <3>2, <3>4
  <2>5. CASE a < i /\ i <= a + c
    <3>1. x[j] = n + 1
      BY <1>6, <1>7, <2>5
    <3>2. a < j /\ j <= a + c
      <4>1. ~(j <= a)
        BY <1>3, <1>7, <2>1, <2>5
      <4>2. ASSUME a + c < j PROVE FALSE
        BY <1>2, <1>6, <3>1, <4>2
      <4>3. QED
        BY <1>3, <2>1, <4>1, <4>2
    <3>3. a < k /\ k <= a + c
      BY <1>3, <2>1, <2>5, <3>2
    <3>4. QED
      BY <1>6, <2>1, <2>5, <3>3
  <2>6. CASE i <= a /\ a < j /\ j <= a + c
    <3>1. x[j] = n + 1 /\ x[i] = s[i] /\ i \in 1..a
      BY <1>6, <2>6
    <3>2. QED
      BY <1>2, <1>7, <3>1 DEF a
  <2>7. CASE i <= a /\ a + c < j
    <3>1. /\ x[j] = t[j - a - c] /\ j - a - c \in 1..Len(t) /\ x[i] = s[i] /\ i \in 1..a
      BY <1>6, <2>7
    <3>2. QED
      BY <1>7, <3>1 DEF Apart, a
  <2>8. QED
    BY <1>3, <2>1, <2>3, <2>4, <2>5, <2>6, <2>7
<1>8. Whole(x)
  BY <1>7 DEF Whole
<1>9. QED
  BY <1>8 DEF x, u

LEMMA RisingAppended ==
  ASSUME NEW n \in Nat, NEW s \in Seq(1..n), NEW c \in Nat, Rising(s)
  PROVE  Rising(s \o Pipe!Units(n + 1, c))
<1> DEFINE u == Pipe!Units(n + 1, c)
           x == s \o u
<1>1. u \in Seq(1..(n + 1)) /\ Len(u) = c /\ \A i \in 1..c : u[i] = n + 1
  BY FreshUnits
<1>2. s \in Seq(1..(n + 1)) /\ \A i \in 1..Len(s) : s[i] \in Nat /\ s[i] <= n
  BY MoreUnits
<1>3. Len(s) \in Nat
  BY LenProperties
<1> HIDE DEF u
<1>4. /\ Len(x) = Len(s) + c
      /\ \A i \in 1..Len(s) + c : x[i] = IF i <= Len(s) THEN s[i] ELSE u[i - Len(s)]
  <2> DEFINE S == 1..(n + 1)
  <2>1. s \in Seq(S) /\ u \in Seq(S)
    BY <1>1, <1>2
  <2> HIDE DEF S
  <2>2. QED
    BY <1>1, <2>1, ConcatProperties, ZenonT(40)
<1> HIDE DEF x
<1>5. ASSUME NEW i \in 1..Len(x)
      PROVE  (i <= Len(s) /\ x[i] = s[i] /\ i \in 1..Len(s)) \/ x[i] = n + 1
  <2>1. i \in Nat /\ i >= 1 /\ i <= Len(s) + c
    BY <1>3, <1>4
  <2>2. CASE i <= Len(s)
    BY <1>3, <1>4, <2>1, <2>2
  <2>3. CASE ~(i <= Len(s))
    <3>1. i - Len(s) \in 1..c
      BY <1>3, <2>1, <2>3
    <3>2. QED
      BY <1>1, <1>4, <2>3, <3>1
  <2>4. QED
    BY <2>2, <2>3
<1>6. ASSUME NEW i \in 1..Len(x), NEW j \in 1..Len(x), i < j
      PROVE  x[i] <= x[j]
  <2>1. CASE x[j] = n + 1
    BY <1>2, <1>5, <2>1
  <2>2. CASE j <= Len(s) /\ x[j] = s[j] /\ j \in 1..Len(s)
    <3>1. i \in 1..Len(s) /\ i <= Len(s) /\ i \in 1..(Len(s) + c)
      BY <1>3, <1>4, <1>6, <2>2
    <3>2. x[i] = s[i]
      BY <1>4, <3>1
    <3>3. QED
      BY <1>6, <2>2, <3>1, <3>2 DEF Rising
  <2>3. QED
    BY <1>5, <2>1, <2>2
<1>7. Rising(x)
  BY <1>6 DEF Rising
<1>8. QED
  BY <1>7 DEF x, u

\* The units of a message are counted part by part.
LEMMA PlacesFinite ==
  ASSUME NEW S, NEW s \in Seq(S), NEW m
  PROVE  IsFiniteSet(PlacesOf(s, m)) /\ Cardinality(PlacesOf(s, m)) \in Nat
<1>1. Len(s) \in Nat
  BY LenProperties
<1>2. IsFiniteSet(1..Len(s))
  BY <1>1, FS_Interval
<1>3. PlacesOf(s, m) \in SUBSET (1..Len(s))
  BY DEF PlacesOf
<1>4. IsFiniteSet(PlacesOf(s, m))
  BY <1>2, <1>3, FS_Subset
<1>5. QED
  BY <1>4, FS_CardinalityType

LEMMA PlacesAdd ==
  ASSUME NEW S, NEW s \in Seq(S), NEW t \in Seq(S), NEW m
  PROVE  Cardinality(PlacesOf(s \o t, m)) = Cardinality(PlacesOf(s, m)) + Cardinality(PlacesOf(t, m))
<1> DEFINE a == Len(s)
           A == PlacesOf(s, m)
           B == PlacesOf(t, m)
           C == {i \in (a + 1)..(a + Len(t)) : t[i - a] = m}
           f == [i \in B |-> i + a]
<1>1. a \in Nat /\ Len(t) \in Nat
  BY LenProperties
<1>2. /\ Len(s \o t) = a + Len(t)
      /\ \A i \in 1..a + Len(t) : (s \o t)[i] = IF i <= a THEN s[i] ELSE t[i - a]
  BY ConcatProperties
<1>3. IsFiniteSet(A) /\ IsFiniteSet(B) /\ Cardinality(A) \in Nat /\ Cardinality(B) \in Nat
  BY PlacesFinite
<1>4. PlacesOf(s \o t, m) = A \cup C
  <2>1. ASSUME NEW i PROVE i \in PlacesOf(s \o t, m) <=> i \in A \cup C
    <3>1. CASE i \in 1..a
      <4>1. i \in 1..a + Len(t) /\ i <= a /\ i \notin (a + 1)..(a + Len(t))
        BY <1>1, <3>1
      <4>2. (s \o t)[i] = s[i]
        BY <1>2, <4>1
      <4>3. QED
        BY <1>2, <3>1, <4>1, <4>2 DEF PlacesOf
    <3>2. CASE i \in (a + 1)..(a + Len(t))
      <4>1. i \in 1..a + Len(t) /\ ~(i <= a) /\ i \notin 1..a
        BY <1>1, <3>2
      <4>2. (s \o t)[i] = t[i - a]
        BY <1>2, <4>1
      <4>3. QED
        BY <1>2, <3>2, <4>1, <4>2 DEF PlacesOf
    <3>3. CASE i \notin 1..a /\ i \notin (a + 1)..(a + Len(t))
      <4>1. i \notin 1..a + Len(t)
        BY <1>1, <3>3
      <4>2. QED
        BY <1>2, <3>3, <4>1 DEF PlacesOf
    <3>4. QED
      BY <3>1, <3>2, <3>3
  <2>2. QED
    BY <2>1
<1>5. A \cap C = {}
  BY <1>1 DEF PlacesOf
<1>6. f \in Bijection(B, C)
  <2>1. \A i \in B : i \in Int /\ i \in 1..Len(t) /\ t[i] = m
    BY <1>1 DEF PlacesOf
  <2>2. \A i \in B : f[i] \in C
    <3>1. ASSUME NEW i \in B PROVE i + a \in C
      <4>1. i + a \in (a + 1)..(a + Len(t)) /\ (i + a) - a = i
        BY <1>1, <2>1
      <4>2. QED
        BY <2>1, <4>1
    <3>2. QED
      BY <3>1
  <2>3. f \in [B -> C]
    BY <2>2
  <2>4. \A i, j \in B : f[i] = f[j] => i = j
    BY <1>1, <2>1
  <2>5. ASSUME NEW j \in C PROVE \E i \in B : f[i] = j
    <3>1. j - a \in 1..Len(t) /\ (j - a) + a = j /\ t[j - a] = m
      BY <1>1
    <3>2. j - a \in B
      BY <3>1 DEF PlacesOf
    <3>3. QED
      BY <3>1, <3>2
  <2> HIDE DEF f
  <2>6. QED
    BY <2>3, <2>4, <2>5 DEF Bijection, Injection, Surjection, IsInjective
<1>7. IsFiniteSet(C) /\ Cardinality(C) = Cardinality(B)
  <2>1. ExistsBijection(B, C)
    BY <1>6 DEF ExistsBijection
  <2>2. QED
    BY <1>3, <2>1, FS_Bijection
<1>8. Cardinality(A \cup C) = Cardinality(A) + Cardinality(C) - Cardinality(A \cap C)
  BY <1>3, <1>7, FS_Union
<1>9. Cardinality(A \cap C) = 0
  BY <1>5, FS_EmptySet
<1>10. QED
  BY <1>3, <1>4, <1>7, <1>8, <1>9

LEMMA CountInserted ==
  ASSUME NEW n \in Nat, NEW s \in Seq(1..n), NEW t \in Seq(1..n), NEW c \in Nat,
         NEW m \in 1..(n + 1)
  PROVE  Cardinality(PlacesOf((s \o Pipe!Units(n + 1, c)) \o t, m))
           = IF m = n + 1 THEN c ELSE Cardinality(PlacesOf(s \o t, m))
<1> DEFINE u == Pipe!Units(n + 1, c)
           S == 1..(n + 1)
           K(x) == Cardinality(PlacesOf(x, m))
<1>1. u \in Seq(S) /\ Len(u) = c /\ \A i \in 1..c : u[i] = n + 1
  BY FreshUnits
<1>2. /\ s \in Seq(S) /\ \A i \in 1..Len(s) : s[i] # n + 1
      /\ t \in Seq(S) /\ \A i \in 1..Len(t) : t[i] # n + 1
  BY MoreUnits
<1>3. m = n + 1 => PlacesOf(s, m) = {} /\ PlacesOf(t, m) = {} /\ PlacesOf(u, m) = 1..c
  BY <1>1, <1>2 DEF PlacesOf
<1>4. m # n + 1 => PlacesOf(u, m) = {}
  BY <1>1 DEF PlacesOf
<1>5. Cardinality({}) = 0 /\ Cardinality(1..c) = c
  BY FS_EmptySet, FS_Interval
<1> HIDE DEF u, S
<1>6. s \o u \in Seq(S)
  BY <1>1, <1>2, ConcatProperties
<1>7. K((s \o u) \o t) = K(s \o u) + K(t)
  <2>1. \A x \in Seq(S) : K(x \o t) = K(x) + K(t)
    BY <1>2, PlacesAdd
  <2>2. QED
    BY <1>6, <2>1
<1>8. K(s \o u) = K(s) + K(u) /\ K(s \o t) = K(s) + K(t)
  BY <1>1, <1>2, PlacesAdd
<1>9. K(s) \in Nat /\ K(t) \in Nat /\ K(u) \in Nat
  BY <1>1, <1>2, PlacesFinite
<1>10. CASE m = n + 1
  <2>1. K(s) = 0 /\ K(t) = 0 /\ K(u) = c
    BY <1>3, <1>5, <1>10
  <2> HIDE DEF K
  <2>2. K((s \o u) \o t) = c
    BY <1>7, <1>8, <2>1
  <2>3. QED
    BY <1>10, <2>2 DEF u, K
<1>11. CASE m # n + 1
  <2>1. K(u) = 0
    BY <1>4, <1>5, <1>11
  <2> HIDE DEF K
  <2>2. K((s \o u) \o t) = K(s \o t)
    BY <1>7, <1>8, <1>9, <2>1
  <2>3. QED
    BY <1>11, <2>2 DEF u, K
<1>12. QED
  BY <1>10, <1>11

-----------------------------------------------------------------------------
(* What a pump does *)

LEMMA PrefixMoves ==
  ASSUME NEW S, NEW w \in Seq(S), NEW b \in Seq(S), NEW n \in 0..Len(b)
  PROVE  /\ SubSeq(b, 1, n) \in Seq(S) /\ w \o SubSeq(b, 1, n) \in Seq(S)
         /\ SubSeq(b, n + 1, Len(b)) \in Seq(S)
         /\ Len(SubSeq(b, n + 1, Len(b))) = Len(b) - n
<1>1. Len(b) \in Nat /\ n \in Nat /\ n <= Len(b)
  BY LenProperties
<1>2. \A i \in 1..Len(b) : b[i] \in S
  BY ElementOfSeq
<1>3. SubSeq(b, 1, n) \in Seq(S)
  BY <1>1, <1>2, SubSeqProperties
<1>4. SubSeq(b, n + 1, Len(b)) \in Seq(S) /\ Len(SubSeq(b, n + 1, Len(b))) = Len(b) - n
  BY <1>1, <1>2, SubSeqProperties
<1>5. w \o SubSeq(b, 1, n) \in Seq(S)
  BY <1>3, ConcatProperties
<1>6. QED
  BY <1>3, <1>4, <1>5

LEMMA PrefixJoins ==
  ASSUME NEW S, NEW w \in Seq(S), NEW b \in Seq(S), NEW n \in 0..Len(b)
  PROVE  (w \o SubSeq(b, 1, n)) \o SubSeq(b, n + 1, Len(b)) = w \o b
<1>1. Len(b) \in Nat /\ n \in Nat /\ n <= Len(b)
  BY LenProperties
<1>3. SubSeq(b, 1, n) \in Seq(S)
  BY PrefixMoves
<1>4. SubSeq(b, n + 1, Len(b)) \in Seq(S)
  BY PrefixMoves
<1>5. SubSeq(b, 1, n) \o SubSeq(b, n + 1, Len(b)) = b
  <2>1. SubSeq(b, 1, n) \o SubSeq(b, n + 1, Len(b)) = SubSeq(b, 1, Len(b))
    <3>1. 1 \in 1..Len(b) + 1 /\ n \in 1 - 1..Len(b) /\ Len(b) \in n..Len(b)
      BY <1>1
    <3>2. QED
      BY <3>1, ConcatAdjacentSubSeq
  <2>2. QED
    BY <2>1, SubSeqFull
<1>6. (w \o SubSeq(b, 1, n)) \o SubSeq(b, n + 1, Len(b))
        = w \o (SubSeq(b, 1, n) \o SubSeq(b, n + 1, Len(b)))
  <2> DEFINE p == SubSeq(b, 1, n)
             q == SubSeq(b, n + 1, Len(b))
  <2>1. p \in Seq(S) /\ q \in Seq(S)
    BY <1>3, <1>4
  <2> HIDE DEF p, q
  <2>2. (w \o p) \o q = w \o (p \o q)
    BY <2>1, ConcatAssociative, SMTT(30)
  <2>3. QED
    BY <2>2 DEF p, q
<1>7. QED
  BY <1>5, <1>6

LEMMA FrontType ==
  ASSUME NEW n \in Nat, NEW i \in Ios(n)
  PROVE  /\ Front(i) \in Seq(1..n) /\ AllOf(i) \in Seq(1..n)
         /\ Len(i.bytes) \in Nat /\ i.pending \in Nat /\ i.batch \in Nat /\ Chunk \in Nat \ {0}
         /\ i.backlog \in Seq(1..n) /\ i.bytes \in Seq(1..n) /\ i.wire \in Seq(1..n)
<1>1. i.bytes \in Seq(1..n) /\ i.wire \in Seq(1..n) /\ i.backlog \in Seq(1..n)
  BY DEF Ios
<1>2. Front(i) \in Seq(1..n)
  BY <1>1, ConcatProperties DEF Front
<1>3. Front(i) \o i.backlog \in Seq(1..n)
  <2>1. \A x \in Seq(1..n) : x \o i.backlog \in Seq(1..n)
    BY <1>1, ConcatProperties
  <2>2. QED
    BY <1>2, <2>1
<1>4. QED
  BY <1>1, <1>2, <1>3, LenProperties, PipeAssumption DEF Ios, AllOf

LEMMA KeepsSelf ==
  ASSUME NEW n \in Nat, NEW i \in Ios(n)
  PROVE  Keeps(i, i)
BY FrontType DEF Keeps

LEMMA KeepsJoined ==
  ASSUME NEW n \in Nat, NEW i \in Ios(n), NEW j \in Ios(n), NEW k \in Ios(n),
         Keeps(i, j), Keeps(j, k)
  PROVE  Keeps(i, k)
<1>1. i.batch \in Nat /\ j.batch \in Nat /\ k.batch \in Nat
  BY FrontType
<1>2. i.batch <= k.batch /\ (k.open => i.open)
  BY <1>1 DEF Keeps
<1>3. CASE Front(k) = Front(j) /\ k.backlog = j.backlog
  BY <1>2, <1>3 DEF Keeps
<1>4. CASE Front(k) = Front(j) \o j.backlog /\ k.backlog = <<>>
  <2>1. CASE Front(j) = Front(i) /\ j.backlog = i.backlog
    BY <1>2, <1>4, <2>1 DEF Keeps
  <2>2. CASE Front(j) = Front(i) \o i.backlog /\ j.backlog = <<>>
    <3>1. Front(j) \o <<>> = Front(j)
      BY FrontType, ConcatEmptySeq
    <3>2. QED
      BY <1>2, <1>4, <2>2, <3>1 DEF Keeps
  <2>3. QED
    BY <2>1, <2>2 DEF Keeps
<1>5. QED
  BY <1>3, <1>4 DEF Keeps

LEMMA RefillKeeps ==
  ASSUME NEW n \in Nat, NEW i \in Ios(n), i.pending = 0
  PROVE  /\ Pipe!Refill(i) \in Ios(n) /\ Reading(Pipe!Refill(i)) /\ Keeps(i, Pipe!Refill(i))
         /\ Pipe!Refill(i).pending = 0 /\ Pipe!Refill(i).open = i.open
         /\ i.bytes = <<>> => Pipe!Refill(i).backlog = <<>>
         /\ i.bytes # <<>> => Pipe!Refill(i) = i
<1>1. CASE i.bytes # <<>>
  BY <1>1, FrontType, KeepsSelf DEF Pipe!Refill, Reading
<1>2. CASE i.bytes = <<>>
  <2> DEFINE r == [i EXCEPT !.bytes = i.backlog, !.backlog = <<>>]
  <2>1. r = Pipe!Refill(i)
    BY <1>2 DEF Pipe!Refill
  <2>2. /\ r.bytes = i.backlog /\ r.backlog = <<>> /\ r.pending = 0 /\ r.open = i.open
        /\ r.wire = i.wire /\ r.batch = i.batch
    BY DEF Ios
  <2>3. r \in Ios(n)
    BY EmptySeq DEF Ios
  <2>4. i.wire \o <<>> = i.wire
    BY FrontType, ConcatEmptySeq
  <2> HIDE DEF r
  <2>5. Front(r) = Front(i) \o i.backlog
    BY <1>2, <2>2, <2>4 DEF Front
  <2>6. Keeps(i, r)
    BY <2>2, <2>5, FrontType DEF Keeps
  <2>7. QED
    BY <1>2, <2>1, <2>2, <2>3, <2>6 DEF Reading
<1>3. QED
  BY <1>1, <1>2

\* One write: at once, pending, or failed.
LEMMA WriteKeeps ==
  ASSUME NEW n \in Nat, NEW i \in Ios(n), i.pending = 0, i.bytes # <<>>, NEW j \in Pipe!Written(i)
  PROVE  /\ j \in Ios(n) /\ Reading(j) /\ Keeps(i, j)
         /\ j.backlog = i.backlog
         /\ Len(i.bytes) <= Chunk => ~j.open \/ j.pending > 0 \/ j.bytes = <<>>
<1> DEFINE b == i.bytes
           c == Pipe!Smaller(Chunk, Len(b))
           at == [i EXCEPT !.bytes = SubSeq(b, c + 1, Len(b)),
                           !.wire = i.wire \o SubSeq(b, 1, c)]
           later == [i EXCEPT !.pending = c, !.batch = Pipe!Larger(i.batch, Len(b))]
           never == [i EXCEPT !.open = FALSE]
<1>1. j \in {at, later, never}
  BY DEF Pipe!Written
<1>2. /\ b \in Seq(1..n) /\ i.wire \in Seq(1..n) /\ Len(b) \in Nat /\ i.batch \in Nat
      /\ Chunk \in Nat \ {0}
  BY FrontType
<1>3. Len(b) # 0
  BY <1>2, EmptySeq
<1>4. c \in 0..Len(b) /\ c \in 0..Chunk /\ c > 0 /\ (Len(b) <= Chunk => c = Len(b))
  BY <1>2, <1>3 DEF Pipe!Smaller
<1>5. CASE j = at
  <2>1. /\ i.wire \o SubSeq(b, 1, c) \in Seq(1..n) /\ SubSeq(b, c + 1, Len(b)) \in Seq(1..n)
        /\ Len(SubSeq(b, c + 1, Len(b))) = Len(b) - c
        /\ (i.wire \o SubSeq(b, 1, c)) \o SubSeq(b, c + 1, Len(b)) = i.wire \o b
    <3> DEFINE S == 1..n
               w == i.wire
    <3>1. w \in Seq(S) /\ b \in Seq(S) /\ c \in 0..Len(b)
      BY <1>2, <1>4
    <3> HIDE DEF S, w, b, c
    <3>2. /\ w \o SubSeq(b, 1, c) \in Seq(S) /\ SubSeq(b, c + 1, Len(b)) \in Seq(S)
          /\ Len(SubSeq(b, c + 1, Len(b))) = Len(b) - c
          /\ (w \o SubSeq(b, 1, c)) \o SubSeq(b, c + 1, Len(b)) = w \o b
      <4>1. ASSUME NEW k \in 0..Len(b)
            PROVE  /\ w \o SubSeq(b, 1, k) \in Seq(S) /\ SubSeq(b, k + 1, Len(b)) \in Seq(S)
                   /\ Len(SubSeq(b, k + 1, Len(b))) = Len(b) - k
                   /\ (w \o SubSeq(b, 1, k)) \o SubSeq(b, k + 1, Len(b)) = w \o b
        <5>1. w \o SubSeq(b, 1, k) \in Seq(S)
          BY <3>1, PrefixMoves
        <5>2. SubSeq(b, k + 1, Len(b)) \in Seq(S)
          BY <3>1, PrefixMoves
        <5>3. Len(SubSeq(b, k + 1, Len(b))) = Len(b) - k
          BY <3>1, PrefixMoves
        <5>4. (w \o SubSeq(b, 1, k)) \o SubSeq(b, k + 1, Len(b)) = w \o b
          BY ONLY <3>1, k \in 0..Len(b), PrefixJoins
        <5>5. QED
          BY <5>1, <5>2, <5>3, <5>4
      <4>2. QED
        BY <3>1, <4>1
    <3>3. QED
      BY <3>2 DEF S, w
  <2>2. /\ j.bytes = SubSeq(b, c + 1, Len(b)) /\ j.wire = i.wire \o SubSeq(b, 1, c)
        /\ j.backlog = i.backlog /\ j.pending = 0 /\ j.open = i.open /\ j.batch = i.batch
    BY <1>5 DEF Ios
  <2>3. j \in Ios(n)
    BY <1>5, <2>1 DEF Ios
  <2> HIDE DEF c, b, at
  <2>4. Front(j) = Front(i)
    BY <2>1, <2>2 DEF Front, b
  <2>5. Len(b) <= Chunk => j.bytes = <<>>
    <3>1. SUFFICES ASSUME Len(b) <= Chunk PROVE Len(j.bytes) = 0
      BY <2>3, FrontType, EmptySeq
    <3>2. QED
      BY <1>2, <1>4, <2>1, <2>2, <3>1
  <2>6. QED
    BY <1>2, <2>2, <2>3, <2>4, <2>5 DEF Keeps, Reading, b
<1>6. CASE j = later
  <2>1. /\ j.bytes = b /\ j.wire = i.wire /\ j.backlog = i.backlog
        /\ j.pending = c /\ j.open = i.open /\ j.batch = Pipe!Larger(i.batch, Len(b))
    BY <1>6 DEF Ios
  <2>2. Pipe!Larger(i.batch, Len(b)) \in Nat /\ i.batch <= Pipe!Larger(i.batch, Len(b))
        /\ Len(b) <= Pipe!Larger(i.batch, Len(b))
    BY <1>2 DEF Pipe!Larger
  <2>3. j \in Ios(n)
    BY <1>4, <1>6, <2>2 DEF Ios
  <2>4. Front(j) = Front(i)
    BY <2>1 DEF Front
  <2> HIDE DEF later
  <2>5. Reading(j)
    BY <2>1, <2>2 DEF Reading
  <2>6. QED
    BY <1>4, <2>1, <2>2, <2>3, <2>4, <2>5 DEF Keeps
<1>7. CASE j = never
  <2>1. /\ j.bytes = b /\ j.wire = i.wire /\ j.backlog = i.backlog
        /\ j.pending = 0 /\ j.open = FALSE /\ j.batch = i.batch
    BY <1>7 DEF Ios
  <2>2. j \in Ios(n)
    BY <1>7 DEF Ios
  <2> HIDE DEF never
  <2>3. Front(j) = Front(i)
    BY <2>1 DEF Front
  <2>4. QED
    BY <1>2, <2>1, <2>2, <2>3 DEF Keeps, Reading
<1>8. QED
  BY <1>1, <1>5, <1>6, <1>7

LEMMA PumpKeeps ==
  ASSUME NEW n \in Nat, NEW i \in Ios(n), Reading(i), NEW j \in Pipe!PumpWrite(i)
  PROVE  /\ j \in Ios(n) /\ Reading(j) /\ Keeps(i, j)
         /\ i.pending > 0 \/ ~i.open => j = i
         /\ i.bytes = <<>> => ~Behind(j)
         /\ i.pending = 0 /\ Len(i.bytes) <= Chunk => ~Behind(j) \/ j.bytes = <<>>
<1>1. i.pending \in Nat /\ i.open \in BOOLEAN /\ Len(i.bytes) \in Nat /\ Chunk \in Nat \ {0}
  BY FrontType DEF Ios
<1>2. CASE i.pending > 0 \/ ~i.open
  <2>1. j = i
    BY <1>2 DEF Pipe!PumpWrite
  <2>2. i.bytes = <<>> => ~(i.pending > 0)
    <3>1. SUFFICES ASSUME i.bytes = <<>>, i.pending > 0 PROVE FALSE
      OBVIOUS
    <3>2. Len(i.bytes) = 0
      BY <3>1, EmptySeq
    <3>3. i.pending = Pipe!Smaller(Chunk, 0)
      BY <3>1, <3>2 DEF Reading
    <3>4. QED
      BY <1>1, <3>1, <3>3 DEF Pipe!Smaller
  <2>3. i.pending = 0 => ~(i.pending > 0)
    BY <1>1
  <2>4. QED
    BY <1>2, <2>1, <2>2, <2>3, KeepsSelf DEF Behind
<1>3. CASE ~(i.pending > 0 \/ ~i.open)
  <2> DEFINE r == Pipe!Refill(i)
  <2>1. i.pending = 0 /\ i.open
    BY <1>1, <1>3
  <2>2. /\ r \in Ios(n) /\ Reading(r) /\ Keeps(i, r) /\ r.pending = 0
        /\ i.bytes = <<>> => r.backlog = <<>>
        /\ i.bytes # <<>> => r = i
    BY <2>1, RefillKeeps
  <2> HIDE DEF r
  <2>3. CASE r.bytes = <<>>
    <3>1. j = r
      BY <1>3, <2>3 DEF Pipe!PumpWrite, r
    <3>2. i.bytes = <<>>
      BY <2>2, <2>3
    <3>3. QED
      BY <1>3, <2>2, <3>1, <3>2 DEF Behind
  <2>4. CASE r.bytes # <<>>
    <3>1. j \in Pipe!Written(r)
      BY <1>3, <2>4 DEF Pipe!PumpWrite, r
    <3>2. /\ j \in Ios(n) /\ Reading(j) /\ Keeps(r, j)
          /\ j.backlog = r.backlog
          /\ Len(r.bytes) <= Chunk => ~j.open \/ j.pending > 0 \/ j.bytes = <<>>
      BY <2>2, <2>4, <3>1, WriteKeeps
    <3>3. Keeps(i, j)
      BY <2>2, <3>2, KeepsJoined
    <3>4. j.pending > 0 => j.pending # 0
      BY <3>2, FrontType
    <3>5. i.bytes = <<>> => ~Behind(j)
      BY <2>2, <3>2 DEF Behind
    <3>6. i.pending = 0 /\ Len(i.bytes) <= Chunk => ~Behind(j) \/ j.bytes = <<>>
      BY <2>2, <3>2, <3>4, <3>5 DEF Behind
    <3>7. QED
      BY <1>3, <3>2, <3>3, <3>5, <3>6
  <2>5. QED
    BY <2>3, <2>4
<1>4. QED
  BY <1>2, <1>3

LEMMA FinishKeeps ==
  ASSUME NEW n \in Nat, NEW i \in Ios(n), Reading(i), NEW j \in Pipe!FinishWrite(i)
  PROVE  /\ j \in Ios(n) /\ Reading(j) /\ Keeps(i, j)
         /\ i.batch <= 2 * Chunk /\ ~Behind(i) => ~Behind(j) \/ j.bytes = <<>>
<1>1. /\ i.bytes \in Seq(1..n) /\ i.wire \in Seq(1..n) /\ Len(i.bytes) \in Nat
      /\ i.batch \in Nat /\ i.pending \in Nat /\ Chunk \in Nat \ {0}
  BY FrontType
<1>2. CASE i.pending = 0
  BY <1>2, KeepsSelf DEF Pipe!FinishWrite
<1>3. CASE i.pending # 0
  <2> DEFINE p == i.pending
             closed == [i EXCEPT !.pending = 0, !.open = FALSE]
             d == [i EXCEPT !.pending = 0,
                            !.bytes = SubSeq(i.bytes, p + 1, Len(i.bytes)),
                            !.wire = i.wire \o SubSeq(i.bytes, 1, p)]
  <2>1. j = i \/ j = closed \/ j \in Pipe!PumpWrite(d)
    BY <1>3 DEF Pipe!FinishWrite
  <2>2. p > 0 /\ p = Pipe!Smaller(Chunk, Len(i.bytes)) /\ Len(i.bytes) <= i.batch
    BY <1>1, <1>3 DEF Reading
  <2>3. p \in 0..Len(i.bytes) /\ (i.batch <= 2 * Chunk => Len(i.bytes) - p <= Chunk)
    BY <1>1, <2>2 DEF Pipe!Smaller
  <2>4. CASE j = i
    BY <2>4, KeepsSelf
  <2>5. CASE j = closed
    <3>1. /\ j.bytes = i.bytes /\ j.wire = i.wire /\ j.backlog = i.backlog
          /\ j.pending = 0 /\ j.open = FALSE /\ j.batch = i.batch
      BY <2>5 DEF Ios
    <3>2. j \in Ios(n)
      BY <1>1, <2>5, 0 \in 0..Chunk DEF Ios
    <3> HIDE DEF closed
    <3>3. Front(j) = Front(i)
      BY <3>1 DEF Front
    <3>4. QED
      BY <1>1, <3>1, <3>2, <3>3 DEF Keeps, Reading, Behind
  <2>6. CASE j \in Pipe!PumpWrite(d)
    <3>1. /\ i.wire \o SubSeq(i.bytes, 1, p) \in Seq(1..n)
          /\ SubSeq(i.bytes, p + 1, Len(i.bytes)) \in Seq(1..n)
          /\ Len(SubSeq(i.bytes, p + 1, Len(i.bytes))) = Len(i.bytes) - p
          /\ (i.wire \o SubSeq(i.bytes, 1, p)) \o SubSeq(i.bytes, p + 1, Len(i.bytes))
               = i.wire \o i.bytes
      <4> DEFINE S == 1..n
                 w == i.wire
                 b == i.bytes
      <4>1. w \in Seq(S) /\ b \in Seq(S) /\ p \in 0..Len(b)
        BY <1>1, <2>3
      <4> HIDE DEF S, w, b, p
      <4>2. w \o SubSeq(b, 1, p) \in Seq(S)
        BY <4>1, PrefixMoves
      <4>3. SubSeq(b, p + 1, Len(b)) \in Seq(S)
        BY <4>1, PrefixMoves
      <4>4. Len(SubSeq(b, p + 1, Len(b))) = Len(b) - p
        BY <4>1, PrefixMoves
      <4>5. (w \o SubSeq(b, 1, p)) \o SubSeq(b, p + 1, Len(b)) = w \o b
        BY <4>1, PrefixJoins
      <4>6. QED
        BY <4>2, <4>3, <4>4, <4>5 DEF S, w, b
    <3>2. /\ d.bytes = SubSeq(i.bytes, p + 1, Len(i.bytes))
          /\ d.wire = i.wire \o SubSeq(i.bytes, 1, p)
          /\ d.backlog = i.backlog /\ d.pending = 0 /\ d.open = i.open /\ d.batch = i.batch
      BY DEF Ios
    <3>3. d \in Ios(n)
      BY <1>1, <3>1, 0 \in 0..Chunk DEF Ios
    <3> HIDE DEF d, p
    <3>4. Front(d) = Front(i)
      BY <3>1, <3>2 DEF Front
    <3>5. Reading(d) /\ Keeps(i, d)
      BY <1>1, <3>2, <3>4 DEF Reading, Keeps
    <3>6. /\ j \in Ios(n) /\ Reading(j) /\ Keeps(d, j)
          /\ d.pending = 0 /\ Len(d.bytes) <= Chunk => ~Behind(j) \/ j.bytes = <<>>
      BY <2>6, <3>3, <3>5, PumpKeeps
    <3>7. Keeps(i, j)
      BY <3>3, <3>5, <3>6, KeepsJoined
    <3>8. i.batch <= 2 * Chunk => Len(d.bytes) <= Chunk
      BY <2>3, <3>1, <3>2
    <3>9. QED
      BY <3>2, <3>6, <3>7, <3>8
  <2>7. QED
    BY <2>1, <2>4, <2>5, <2>6
<1>4. QED
  BY <1>2, <1>3

LEMMA KeepsCarried ==
  ASSUME NEW z \in Seq(Sizes), NEW i, NEW j, Carried(i, z),
         j \in Ios(Len(z)), Reading(j), Keeps(i, j)
  PROVE  Carried(j, z)
<1> DEFINE n == Len(z)
<1>1. n \in Nat /\ i \in Ios(n) /\ j \in Ios(n)
  BY LenProperties DEF Carried
<1> HIDE DEF n
<1>2. AllOf(i) \in Seq(1..n) /\ i.batch \in Nat /\ j.batch \in Nat /\ Chunk \in Nat
  BY <1>1, FrontType
<1>3. AllOf(j) = AllOf(i) /\ Apart(Front(j), j.backlog)
  <2>1. CASE Front(j) = Front(i) /\ j.backlog = i.backlog
    BY <2>1 DEF AllOf, Carried
  <2>2. CASE Front(j) = Front(i) \o i.backlog /\ j.backlog = <<>>
    <3>1. AllOf(j) = AllOf(i) \o <<>>
      BY <2>2 DEF AllOf
    <3>2. AllOf(i) \o <<>> = AllOf(i)
      BY <1>2, ConcatEmptySeq
    <3>3. 1..Len(j.backlog) = {}
      BY <2>2, EmptySeq
    <3>4. QED
      BY <3>1, <3>2, <3>3 DEF Apart
  <2>3. QED
    BY <2>1, <2>2 DEF Keeps
<1>4. j.batch <= 2 * Chunk => i.batch <= 2 * Chunk
  BY <1>2 DEF Keeps
<1>5. QED
  BY <1>3, <1>4 DEF Carried, Keeps

\* A new message belongs to neither of two parts that share none.
LEMMA ApartFresh ==
  ASSUME NEW n \in Nat, NEW s \in Seq(1..n), NEW t \in Seq(1..n), NEW c \in Nat, Apart(s, t)
  PROVE  /\ Apart(s \o Pipe!Units(n + 1, c), t)
         /\ Apart(s, t \o Pipe!Units(n + 1, c))
<1> DEFINE u == Pipe!Units(n + 1, c)
           S == 1..(n + 1)
<1>1. u \in Seq(S) /\ Len(u) = c /\ \A i \in 1..c : u[i] = n + 1
  BY FreshUnits
<1>2. /\ s \in Seq(S) /\ \A i \in 1..Len(s) : s[i] # n + 1
      /\ t \in Seq(S) /\ \A i \in 1..Len(t) : t[i] # n + 1
  BY MoreUnits
<1> HIDE DEF u, S
<1>3. ASSUME NEW x \in Seq(S), NEW i \in 1..Len(x \o u)
      PROVE  (x \o u)[i] = n + 1 \/ \E k \in 1..Len(x) : (x \o u)[i] = x[k]
  <2>1. Len(x) \in Nat
    BY LenProperties
  <2>2. Len(x \o u) = Len(x) + c
        /\ \A k \in 1..Len(x) + c : (x \o u)[k] = IF k <= Len(x) THEN x[k] ELSE u[k - Len(x)]
    BY <1>1, ConcatProperties, ZenonT(40)
  <2>3. i \in 1..Len(x) + c
    BY <2>2
  <2>4. CASE i <= Len(x)
    BY <2>1, <2>2, <2>3, <2>4
  <2>5. CASE ~(i <= Len(x))
    <3>1. i - Len(x) \in 1..c
      BY <2>1, <2>3, <2>5
    <3>2. QED
      BY <1>1, <2>2, <2>3, <2>5, <3>1
  <2>6. QED
    BY <2>4, <2>5
<1>4. Apart(s \o u, t)
  <2>1. ASSUME NEW i \in 1..Len(s \o u), NEW j \in 1..Len(t) PROVE (s \o u)[i] # t[j]
    <3>1. (s \o u)[i] = n + 1 \/ \E k \in 1..Len(s) : (s \o u)[i] = s[k]
      BY <1>2, <1>3
    <3>2. QED
      BY <1>2, <3>1 DEF Apart
  <2>2. QED
    BY <2>1 DEF Apart
<1>5. Apart(s, t \o u)
  <2>1. ASSUME NEW i \in 1..Len(s), NEW j \in 1..Len(t \o u) PROVE s[i] # (t \o u)[j]
    BY <1>2, <1>3, SMTT(30) DEF Apart
  <2>2. QED
    BY <2>1 DEF Apart
<1>6. QED
  BY <1>4, <1>5 DEF u

LEMMA SizesInserted ==
  ASSUME NEW z \in Seq(Sizes), NEW N \in Sizes,
         NEW s \in Seq(1..Len(z)), NEW t \in Seq(1..Len(z)),
         \A m \in 1..Len(z) : Cardinality(PlacesOf(s \o t, m)) = z[m]
  PROVE  \A m \in 1..(Len(z) + 1) :
           Cardinality(PlacesOf((s \o Pipe!Units(Len(z) + 1, N)) \o t, m)) = Append(z, N)[m]
<1> DEFINE n == Len(z)
<1>1. n \in Nat /\ N \in Nat
  BY LenProperties, PipeAssumption
<1>2. \A m \in 1..(n + 1) : Append(z, N)[m] = IF m <= n THEN z[m] ELSE N
  BY AppendProperties
<1> HIDE DEF n
<1>3. s \in Seq(1..n) /\ t \in Seq(1..n)
  BY DEF n
<1>4. ASSUME NEW m \in 1..(n + 1)
      PROVE  Cardinality(PlacesOf((s \o Pipe!Units(n + 1, N)) \o t, m)) = Append(z, N)[m]
  <2>1. Cardinality(PlacesOf((s \o Pipe!Units(n + 1, N)) \o t, m))
          = IF m = n + 1 THEN N ELSE Cardinality(PlacesOf(s \o t, m))
    BY <1>1, <1>3, CountInserted
  <2>2. CASE m = n + 1
    <3>1. ~(m <= n)
      BY <1>1, <2>2
    <3>2. Append(z, N)[m] = N
      BY <1>2, <3>1
    <3>3. QED
      BY <2>1, <2>2, <3>2
  <2>3. CASE m # n + 1
    <3>1. m \in 1..n /\ m <= n
      BY <1>1, <2>3
    <3>2. Cardinality(PlacesOf(s \o t, m)) = z[m]
      BY <3>1 DEF n
    <3>3. QED
      BY <1>2, <2>1, <2>3, <3>1, <3>2
  <2>4. QED
    BY <2>2, <2>3
<1>5. QED
  BY <1>4 DEF n

\* Of a pipe that takes c units of a message behind s and in front of t.
LEMMA InsertedCarried ==
  ASSUME NEW z \in Seq(Sizes), NEW N \in Sizes, NEW c \in Nat, NEW i, NEW j, Carried(i, z), i.open,
         NEW s \in Seq(1..Len(z)), NEW t \in Seq(1..Len(z)),
         AllOf(i) = s \o t, Apart(s, t), i.batch <= 2 * Chunk => t = <<>>,
         AllOf(j) = (s \o Pipe!Units(Len(z) + 1, c)) \o t, j.batch = i.batch,
         j \in Ios(Len(z) + 1), Reading(j), Apart(Front(j), j.backlog), j.open => c = N
  PROVE  Carried(j, Append(z, N))
<1> DEFINE n == Len(z)
           u == Pipe!Units(n + 1, c)
<1>1. n \in Nat /\ Len(Append(z, N)) = n + 1
  BY LenProperties, AppendProperties
<1>2. j.open => \A m \in 1..Len(Append(z, N)) : Cardinality(PlacesOf(AllOf(j), m)) = Append(z, N)[m]
  <2>1. SUFFICES ASSUME j.open
                 PROVE  \A m \in 1..(n + 1) : Cardinality(PlacesOf(AllOf(j), m)) = Append(z, N)[m]
    BY <1>1
  <2>2. AllOf(j) = (s \o Pipe!Units(Len(z) + 1, N)) \o t
    BY <2>1
  <2>3. \A m \in 1..Len(z) : Cardinality(PlacesOf(s \o t, m)) = z[m]
    BY DEF Carried
  <2>4. \A m \in 1..(Len(z) + 1) :
           Cardinality(PlacesOf((s \o Pipe!Units(Len(z) + 1, N)) \o t, m)) = Append(z, N)[m]
    BY <2>3, SizesInserted
  <2>5. QED
    BY <2>2, <2>4
<1> HIDE DEF n, u
<1>3. s \in Seq(1..n) /\ t \in Seq(1..n) /\ u = Pipe!Units(n + 1, c) /\ AllOf(j) = (s \o u) \o t
      /\ j \in Ios(n + 1)
  BY DEF n, u
<1>4. Whole(AllOf(j))
  <2>1. Whole(s \o t)
    BY DEF Carried
  <2>2. QED
    BY <1>1, <1>3, <2>1, WholeInserted
<1>5. j.batch <= 2 * Chunk => Rising(AllOf(j))
  <2>1. SUFFICES ASSUME j.batch <= 2 * Chunk PROVE Rising(AllOf(j))
    OBVIOUS
  <2>2. t = <<>> /\ Rising(s \o <<>>)
    BY <2>1 DEF Carried
  <2>3. s \o <<>> = s
    BY <1>3, ConcatEmptySeq
  <2>4. Rising(s \o u)
    BY <1>1, <1>3, <2>2, <2>3, RisingAppended
  <2>5. (s \o u) \o <<>> = s \o u
    <3> DEFINE S == 1..(n + 1)
    <3>1. s \in Seq(S) /\ u \in Seq(S)
      BY <1>1, <1>3, MoreUnits, FreshUnits
    <3> HIDE DEF S
    <3>2. s \o u \in Seq(S)
      BY <3>1, ConcatProperties
    <3>3. QED
      BY <3>2, ConcatEmptySeq
  <2>6. QED
    BY <1>3, <2>2, <2>4, <2>5
<1>6. QED
  BY <1>1, <1>2, <1>3, <1>4, <1>5 DEF Carried

LEMMA QueuedCarried ==
  ASSUME NEW z \in Seq(Sizes), NEW N \in Sizes, NEW c \in Nat, NEW i, Carried(i, z), i.open,
         i.batch <= 2 * Chunk => ~Behind(i),
         NEW j, j = Pipe!Queue(i, Pipe!Units(Len(z) + 1, c))
                \/ j = [Pipe!Queue(i, Pipe!Units(Len(z) + 1, c)) EXCEPT !.open = FALSE],
         j.open => c = N
  PROVE  Carried(j, Append(z, N)) /\ (j.batch <= 2 * Chunk => ~Behind(j))
<1> DEFINE n == Len(z)
           u == Pipe!Units(n + 1, c)
           S == 1..(n + 1)
<1>1. n \in Nat /\ i \in Ios(n)
  BY LenProperties DEF Carried
<1>2. /\ i.bytes \in Seq(1..n) /\ i.wire \in Seq(1..n) /\ i.backlog \in Seq(1..n)
      /\ Front(i) \in Seq(1..n) /\ AllOf(i) \in Seq(1..n) /\ i.pending \in Nat
  BY <1>1, FrontType
<1>3. /\ i.bytes \in Seq(S) /\ i.wire \in Seq(S) /\ i.backlog \in Seq(S)
      /\ Front(i) \in Seq(S) /\ u \in Seq(S)
  BY <1>1, <1>2, MoreUnits, FreshUnits
<1>4. i.pending \in 0..Chunk /\ i.open \in BOOLEAN /\ i.batch \in Nat
  BY <1>1 DEF Ios
<1>5. CASE i.pending > 0
  <2> DEFINE b == i.backlog \o u
             q == [i EXCEPT !.backlog = b]
  <2>1. j = q \/ j = [q EXCEPT !.open = FALSE]
    BY <1>5 DEF Pipe!Queue
  <2>2. b \in Seq(S)
    <3> HIDE DEF S, u
    <3>1. QED
      BY <1>3, ConcatProperties
  <2> HIDE DEF b, u
  <2>3. /\ j.bytes = i.bytes /\ j.wire = i.wire /\ j.backlog = b /\ j.pending = i.pending
        /\ j.batch = i.batch
    BY <1>1, <2>1 DEF Ios
  <2>4. j \in Ios(n + 1)
    BY <1>1, <1>3, <1>4, <2>1, <2>2 DEF Ios
  <2> HIDE DEF q, S
  <2>5. Reading(j) /\ Front(j) = Front(i)
    BY <1>1, <2>3 DEF Reading, Front, Carried
  <2>6. Apart(Front(j), j.backlog)
    <3>1. Apart(Front(i), i.backlog)
      BY DEF Carried
    <3>2. Apart(Front(i), i.backlog \o Pipe!Units(n + 1, c))
      BY <1>1, <1>2, <3>1, ApartFresh
    <3>3. QED
      BY <2>3, <2>5, <3>2 DEF b, u
  <2>7. AllOf(j) = (AllOf(i) \o u) \o <<>>
    <3>1. Front(i) \o (i.backlog \o u) = (Front(i) \o i.backlog) \o u
      <4> DEFINE x == Front(i)
                 y == i.backlog
      <4>1. x \in Seq(S) /\ y \in Seq(S) /\ u \in Seq(S)
        BY <1>3
      <4> HIDE DEF x, y
      <4>2. x \o (y \o u) = (x \o y) \o u
        BY <4>1, ConcatAssociative, SMTT(30)
      <4>3. QED
        BY <4>2 DEF x, y
    <3>2. Front(i) \o i.backlog \in Seq(S)
      BY <1>3, ConcatProperties
    <3>3. (Front(i) \o i.backlog) \o u \in Seq(S)
      BY <1>3, <3>2, ConcatProperties
    <3>4. ((Front(i) \o i.backlog) \o u) \o <<>> = (Front(i) \o i.backlog) \o u
      BY <3>3, ConcatEmptySeq
    <3>5. QED
      BY <2>3, <2>5, <3>1, <3>4 DEF AllOf, b
  <2>8. AllOf(i) = AllOf(i) \o <<>> /\ <<>> \in Seq(1..n) /\ Apart(AllOf(i), <<>>)
    BY <1>2, ConcatEmptySeq, EmptySeq DEF Apart
  <2>9. Carried(j, Append(z, N))
    BY <1>2, <2>3, <2>4, <2>5, <2>6, <2>7, <2>8, InsertedCarried DEF u
  <2>10. ~Behind(j)
    BY <1>2, <1>5, <2>3 DEF Behind
  <2>11. QED
    BY <2>9, <2>10
<1>6. CASE ~(i.pending > 0)
  <2> DEFINE b == i.bytes \o u
             q == [i EXCEPT !.bytes = b]
  <2>1. j = q \/ j = [q EXCEPT !.open = FALSE]
    BY <1>6 DEF Pipe!Queue
  <2>2. b \in Seq(S)
    <3> HIDE DEF S, u
    <3>1. QED
      BY <1>3, ConcatProperties
  <2> HIDE DEF b, u
  <2>3. /\ j.bytes = b /\ j.wire = i.wire /\ j.backlog = i.backlog /\ j.pending = i.pending
        /\ j.batch = i.batch
    BY <1>1, <2>1 DEF Ios
  <2>4. j \in Ios(n + 1)
    BY <1>1, <1>3, <1>4, <2>1, <2>2 DEF Ios
  <2> HIDE DEF q, S
  <2>5. Reading(j)
    BY <1>6, <2>3 DEF Reading
  <2>6. Front(j) = Front(i) \o u
    <3> DEFINE x == i.wire
               y == i.bytes
    <3>1. x \in Seq(S) /\ y \in Seq(S) /\ u \in Seq(S)
      BY <1>3
    <3> HIDE DEF x, y
    <3>2. x \o (y \o u) = (x \o y) \o u
      BY <3>1, ConcatAssociative, SMTT(30)
    <3>3. QED
      BY <2>3, <3>2 DEF Front, b, x, y
  <2>7. Apart(Front(j), j.backlog)
    <3>1. Apart(Front(i), i.backlog)
      BY DEF Carried
    <3>2. Apart(Front(i) \o Pipe!Units(n + 1, c), i.backlog)
      BY <1>1, <1>2, <3>1, ApartFresh
    <3>3. QED
      BY <2>3, <2>6, <3>2 DEF u
  <2>8. AllOf(j) = (Front(i) \o u) \o i.backlog
    BY <2>3, <2>6 DEF AllOf
  <2>9. i.batch <= 2 * Chunk => i.backlog = <<>>
    BY <1>2, <1>6 DEF Behind
  <2>10. Carried(j, Append(z, N))
    <3>1. Apart(Front(i), i.backlog)
      BY DEF Carried
    <3>2. AllOf(i) = Front(i) \o i.backlog
      BY DEF AllOf
    <3>3. QED
      BY <1>2, <2>3, <2>4, <2>5, <2>7, <2>8, <2>9, <3>1, <3>2, InsertedCarried DEF u
  <2>11. j.batch <= 2 * Chunk => ~Behind(j)
    BY <2>3, <2>9 DEF Behind
  <2>12. QED
    BY <2>10, <2>11
<1>7. QED
  BY <1>5, <1>6

-----------------------------------------------------------------------------
(* The steps of the pipe *)

LEMMA BecomeIo ==
  ASSUME NEW n \in Nat, NEW i \in Ios(n), Pipe!Become(i)
  PROVE  Pipe!io' = i
BY DEF Pipe!Become, Pipe!io, Ios

LEMMA PipeInit ==
  ASSUME Pipe!Init
  PROVE  PipeInv
<1>1. Pipe!io = [bytes |-> <<>>, backlog |-> <<>>, pending |-> 0, open |-> TRUE,
            wire |-> <<>>, batch |-> 0]
  BY DEF Pipe!Init, Pipe!io
<1>2. sizes = <<>> /\ sizes \in Seq(Sizes) /\ Len(sizes) = 0
  BY EmptySeq DEF Pipe!Init
<1>3. PipeAssumption
  BY PipeAssumption
<1>4. Pipe!io \in Ios(0)
  BY <1>1, <1>3, EmptySeq DEF Ios
<1>5. Front(Pipe!io) = <<>> /\ AllOf(Pipe!io) = <<>>
  <2>1. <<>> \o <<>> = <<>>
    BY ConcatEmptySeq, EmptySeq
  <2>2. QED
    BY <1>1, <2>1 DEF Front, AllOf
<1>6. Carried(Pipe!io, sizes)
  BY <1>1, <1>2, <1>4, <1>5 DEF Carried, Reading, Whole, Apart, Rising
<1>7. QED
  BY <1>1, <1>2, <1>3, <1>6 DEF PipeInv, Behind

LEMMA PipeWrites ==
  ASSUME PipeInv, NEW N \in Sizes, Pipe!WriteJson(N)
  PROVE  PipeInv'
<1> DEFINE n == Len(sizes)
           w == Append(sizes, N)
<1>1. /\ sizes \in Seq(Sizes) /\ n \in Nat /\ N \in Nat /\ Carried(Pipe!io, sizes) /\ open /\ Pipe!io.open
      /\ Pipe!io.batch <= 2 * Chunk => ~Behind(Pipe!io)
  BY LenProperties, PipeAssumption DEF PipeInv, Pipe!WriteJson, Pipe!io
<1>2. w \in Seq(Sizes) /\ Len(w) = n + 1 /\ n + 1 <= MaxMessages /\ sizes' = w
  BY <1>1, AppendProperties, PipeAssumption DEF Pipe!WriteJson
<1>3. ASSUME NEW j, Carried(j, w), j.batch <= 2 * Chunk => ~Behind(j), Pipe!Become(j)
      PROVE  PipeInv'
  <2>1. Pipe!io' = j
    BY <1>1, <1>2, <1>3, BecomeIo DEF Carried
  <2>2. batch' = j.batch
    BY <1>3 DEF Pipe!Become
  <2>3. QED
    BY <1>2, <1>3, <2>1, <2>2 DEF PipeInv
<1>4. CASE \E j \in Pipe!PumpWrite(Pipe!Queue(Pipe!io, Pipe!Units(Len(sizes) + 1, N))) : Pipe!Become(j)
  <2> DEFINE q == Pipe!Queue(Pipe!io, Pipe!Units(Len(sizes) + 1, N))
  <2>1. PICK j \in Pipe!PumpWrite(q) : Pipe!Become(j)
    BY <1>4
  <2>2. Carried(q, w) /\ (q.batch <= 2 * Chunk => ~Behind(q))
    BY <1>1, QueuedCarried
  <2> HIDE DEF q
  <2>3. q \in Ios(Len(w)) /\ Reading(q) /\ Len(w) \in Nat
    BY <1>1, <1>2, <2>2 DEF Carried
  <2>4. /\ j \in Ios(Len(w)) /\ Reading(j) /\ Keeps(q, j)
        /\ q.pending > 0 \/ ~q.open => j = q
    BY <2>1, <2>3, PumpKeeps
  <2>5. Carried(j, w)
    BY <1>2, <2>2, <2>4, KeepsCarried
  <2>6. j.batch <= 2 * Chunk => ~Behind(j)
    <3>1. SUFFICES ASSUME j.batch <= 2 * Chunk, Behind(j) PROVE FALSE
      OBVIOUS
    <3>2. /\ q.batch \in Nat /\ q.pending \in Nat /\ Chunk \in Nat
          /\ q.batch <= 2 * Chunk
      <4>1. q.batch \in Nat /\ q.pending \in Nat /\ Chunk \in Nat
        BY <2>3, FrontType
      <4>2. j.batch \in Nat
        BY <2>3, <2>4, FrontType
      <4>3. q.batch <= j.batch
        BY <2>4 DEF Keeps
      <4>4. QED
        BY <3>1, <4>1, <4>2, <4>3
    <3>3. ~Behind(q)
      BY <2>2, <3>2
    <3>4. q.pending = 0
      BY <2>4, <3>1, <3>2, <3>3
    <3>5. q.open /\ q.backlog # <<>>
      BY <2>4, <3>1 DEF Keeps, Behind
    <3>6. QED
      BY <3>3, <3>4, <3>5 DEF Behind
  <2>7. QED
    BY <1>3, <2>1, <2>5, <2>6
<1>5. CASE \E copied \in 0..(N - 1) :
             Pipe!Become([Pipe!Queue(Pipe!io, Pipe!Units(Len(sizes) + 1, copied)) EXCEPT !.open = FALSE])
  <2>1. PICK c \in 0..(N - 1) :
          Pipe!Become([Pipe!Queue(Pipe!io, Pipe!Units(Len(sizes) + 1, c)) EXCEPT !.open = FALSE])
    BY <1>5
  <2> DEFINE q == Pipe!Queue(Pipe!io, Pipe!Units(Len(sizes) + 1, c))
             j == [q EXCEPT !.open = FALSE]
  <2>2. c \in Nat
    OBVIOUS
  <2>3. Pipe!io = [Pipe!io EXCEPT !.open = TRUE]
    BY <1>1 DEF Pipe!io
  <2>4. ~j.open
    BY DEF Pipe!Queue, Pipe!io
  <2>5. Carried(j, w) /\ (j.batch <= 2 * Chunk => ~Behind(j))
    BY <1>1, <2>2, <2>4, QueuedCarried
  <2> HIDE DEF j
  <2>6. QED
    BY <1>3, <2>1, <2>5 DEF j
<1>6. QED
  BY <1>4, <1>5 DEF Pipe!WriteJson

LEMMA PipePolls ==
  ASSUME PipeInv, Pipe!Poll
  PROVE  PipeInv'
<1>1. PICK i \in Pipe!FinishWrite(Pipe!io) : \E j \in Pipe!PumpWrite(i) : Pipe!Become(j)
  BY DEF Pipe!Poll
<1>2. PICK j \in Pipe!PumpWrite(i) : Pipe!Become(j)
  BY <1>1
<1>3. sizes' = sizes /\ Len(sizes) \in Nat
  BY LenProperties DEF Pipe!Poll, PipeInv
<1>4. /\ sizes \in Seq(Sizes) /\ Len(sizes) <= MaxMessages /\ Carried(Pipe!io, sizes)
      /\ Pipe!io \in Ios(Len(sizes)) /\ Reading(Pipe!io)
      /\ Pipe!io.batch <= 2 * Chunk => ~Behind(Pipe!io)
  BY DEF PipeInv, Carried, Pipe!io
<1>5. /\ i \in Ios(Len(sizes)) /\ Reading(i) /\ Keeps(Pipe!io, i)
      /\ Pipe!io.batch <= 2 * Chunk /\ ~Behind(Pipe!io) => ~Behind(i) \/ i.bytes = <<>>
  BY <1>1, <1>3, <1>4, FinishKeeps
<1>6. /\ j \in Ios(Len(sizes)) /\ Reading(j) /\ Keeps(i, j)
      /\ i.pending > 0 \/ ~i.open => j = i
      /\ i.bytes = <<>> => ~Behind(j)
  BY <1>2, <1>3, <1>5, PumpKeeps
<1>7. Keeps(Pipe!io, j)
  BY <1>3, <1>4, <1>5, <1>6, KeepsJoined
<1>8. Carried(j, sizes)
  BY <1>4, <1>6, <1>7, KeepsCarried
<1>9. j.batch <= 2 * Chunk => ~Behind(j)
  <2>1. SUFFICES ASSUME j.batch <= 2 * Chunk, Behind(j) PROVE FALSE
    OBVIOUS
  <2>2. Pipe!io.batch \in Nat /\ i.batch \in Nat /\ j.batch \in Nat /\ i.pending \in Nat /\ Chunk \in Nat
    BY <1>3, <1>4, <1>5, <1>6, FrontType
  <2>3. Pipe!io.batch <= 2 * Chunk
    BY <1>7, <2>1, <2>2 DEF Keeps
  <2>4. ~Behind(i)
    BY <1>4, <1>5, <1>6, <2>1, <2>3
  <2>5. i.pending = 0
    BY <1>6, <2>1, <2>2, <2>4
  <2>6. i.open /\ i.backlog # <<>>
    BY <1>6, <2>1 DEF Keeps, Behind
  <2>7. QED
    BY <2>4, <2>5, <2>6 DEF Behind
<1>10. Pipe!io' = j /\ batch' = j.batch
  BY <1>2, <1>3, <1>6, BecomeIo DEF Pipe!Become
<1>11. QED
  BY <1>3, <1>4, <1>8, <1>9, <1>10 DEF PipeInv

LEMMA PipeRestarts ==
  ASSUME Pipe!Restart
  PROVE  PipeInv'
<1>1. Pipe!io' = [bytes |-> <<>>, backlog |-> <<>>, pending |-> 0, open |-> TRUE,
             wire |-> <<>>, batch |-> 0]
  BY DEF Pipe!Restart, Pipe!io
<1>2. sizes' = <<>> /\ sizes' \in Seq(Sizes) /\ Len(sizes') = 0
  BY EmptySeq DEF Pipe!Restart
<1>3. PipeAssumption
  BY PipeAssumption
<1>4. Pipe!io' \in Ios(0)
  BY <1>1, <1>3, EmptySeq DEF Ios
<1>5. Front(Pipe!io') = <<>> /\ AllOf(Pipe!io') = <<>>
  <2>1. <<>> \o <<>> = <<>>
    BY ConcatEmptySeq, EmptySeq
  <2>2. QED
    BY <1>1, <2>1 DEF Front, AllOf
<1>6. Carried(Pipe!io', sizes')
  BY <1>1, <1>2, <1>4, <1>5 DEF Carried, Reading, Whole, Apart, Rising
<1>7. QED
  BY <1>1, <1>2, <1>3, <1>6 DEF PipeInv, Behind

LEMMA PipeStep ==
  ASSUME PipeInv, [Pipe!Next]_Pipe!vars
  PROVE  PipeInv'
<1>1. CASE \E N \in Sizes : Pipe!WriteJson(N)
  BY <1>1, PipeWrites
<1>2. CASE Pipe!Poll
  BY <1>2, PipePolls
<1>3. CASE Pipe!Restart
  BY <1>3, PipeRestarts
<1>4. CASE UNCHANGED Pipe!vars
  BY <1>4 DEF PipeInv, Pipe!vars, Pipe!io
<1>5. QED
  BY <1>1, <1>2, <1>3, <1>4 DEF Pipe!Next

LEMMA PipeAlways ==
  Pipe!Spec => []PipeInv
BY PipeInit, PipeStep, PTL DEF Pipe!Spec

LEMMA PipeIsTyped ==
  ASSUME PipeInv
  PROVE  Pipe!TypeOK
<1>1. /\ Len(sizes) \in Nat /\ Len(sizes) <= MaxMessages /\ MaxMessages \in Nat
      /\ Pipe!io \in Ios(Len(sizes)) /\ sizes \in Seq(Sizes) /\ Reading(Pipe!io)
  BY LenProperties, PipeAssumption DEF PipeInv, Carried
<1>2. 1..Len(sizes) \subseteq 1..MaxMessages
  BY <1>1
<1>3. /\ Pipe!io.bytes \in Seq(1..Len(sizes)) /\ Pipe!io.backlog \in Seq(1..Len(sizes))
      /\ Pipe!io.wire \in Seq(1..Len(sizes)) /\ Pipe!io.pending \in 0..Chunk /\ Pipe!io.open \in BOOLEAN
  BY <1>1 DEF Ios
<1>4. bytes \in Seq(1..Len(sizes)) /\ backlog \in Seq(1..Len(sizes)) /\ wire \in Seq(1..Len(sizes))
      /\ pending \in 0..Chunk /\ open \in BOOLEAN
  BY <1>3 DEF Pipe!io
<1>5. bytes \in Seq(1..MaxMessages) /\ backlog \in Seq(1..MaxMessages)
      /\ wire \in Seq(1..MaxMessages)
  BY <1>2, <1>4, SeqMonotonic
<1>6. pending <= Len(bytes)
  <2>1. Len(bytes) \in Nat /\ Chunk \in Nat
    BY <1>4, LenProperties, PipeAssumption
  <2>2. pending > 0 => pending = Pipe!Smaller(Chunk, Len(bytes))
    BY <1>1 DEF Reading, Pipe!io
  <2>3. QED
    BY <1>4, <2>1, <2>2 DEF Pipe!Smaller
<1>7. QED
  BY <1>1, <1>4, <1>5, <1>6 DEF Pipe!TypeOK

(* The two queues and the wire hold messages there are, and a write that is
   pending reads no further than the bytes. *)
THEOREM PipeTyped == Pipe!Spec => []Pipe!TypeOK
BY PipeAlways, PipeIsTyped, PTL

\* The instance has a Cardinality of its own.
LEMMA PipeCardinality ==
  ASSUME NEW S
  PROVE  Pipe!Cardinality(S) = Cardinality(S)
BY DEF Pipe!Cardinality, Cardinality

(* Messages reach the server whole, none lost while the pipe is open, and in
   their order as long as no write was pending over more than two chunks. *)
THEOREM MessagesStayWhole == Pipe!Spec => []MessagesArrive
<1>1. ASSUME PipeInv PROVE MessagesArrive
  <2>1. AllOf(Pipe!io) = Pipe!All
    BY DEF AllOf, Front, Pipe!All, Pipe!io
  <2>2. Pipe!Together
    BY <1>1, <2>1 DEF PipeInv, Carried, Whole, Pipe!Together
  <2>3. Pipe!AllThere
    BY <1>1, <2>1, PipeCardinality DEF PipeInv, Carried, PlacesOf, Pipe!AllThere, Pipe!io
  <2>4. Pipe!InOrder
    BY <1>1, <2>1 DEF PipeInv, Carried, Rising, Pipe!InOrder, Pipe!io
  <2>5. QED
    BY <2>2, <2>3, <2>4 DEF MessagesArrive, Pipe!MessagesArrive
<1>2. QED
  BY <1>1, PipeAlways, PTL


\* The run of MCQueues is a run of either queue: its other steps leave the variables
\* of the queue alone, so the theorems above hold of it.
THEOREM EachQueueOnItsOwn == QueuesSpec => SafeSpec /\ Pipe!Spec
<1>1. QueuesInit => Init /\ Pipe!Init
  BY DEF QueuesInit
<1>2. [QueuesNext]_<<vars, pipe>> => [Next]_vars
  BY DEF QueuesNext, Next, RingRests
<1>3. [QueuesNext]_<<vars, pipe>> => [Pipe!Next]_Pipe!vars
  BY DEF QueuesNext, Pipe!Next, PipeRests, pipe, Pipe!vars
<1>4. QED
  BY <1>1, <1>2, <1>3, PTL DEF QueuesSpec, SafeSpec, Pipe!Spec
=============================================================================
