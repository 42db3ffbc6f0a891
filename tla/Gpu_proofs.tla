----------------------------- MODULE Gpu_proofs -----------------------------
(***************************************************************************)
(* Proofs about D3D12Frames, for every set of objects, number of slots and *)
(* number of fences, and about ShelfAtlas (Atlas), for every set of        *)
(* rasters and size of page.  Inv (in each) is inductive.                  *)
(***************************************************************************)
EXTENDS MCGpu, SequenceTheorems, TLAPS

USE NoneAssumption, SlotAssumption, FenceAssumption

-----------------------------------------------------------------------------
(* The helpers on the deferred list *)

LEMMA ReleaseType ==
  ASSUME NEW g \in [Fences -> SUBSET Objects]
  PROVE  ReleaseCompleted(g) \in [Fences -> SUBSET Objects]
BY DEF ReleaseCompleted

LEMMA DeferType ==
  ASSUME NEW g \in [Fences -> SUBSET Objects], NEW S \in SUBSET Objects, submitted \in Fences
  PROVE  DeferRelease(g, S) \in [Fences -> SUBSET Objects]
BY DEF DeferRelease, Fences

LEMMA MarkType ==
  ASSUME NEW g \in [Fences -> SUBSET Objects], NEW fence \in Fences
  PROVE  MarkDeferred(g, fence) \in [Fences -> SUBSET Objects]
BY DEF MarkDeferred, Fences

LEMMA ZeroIsFence == 0 \in Fences /\ \A v \in Fences : v \in Int
BY DEF Fences

LEMMA SubmitType ==
  ASSUME TypeOK, NEW S \in SUBSET Objects,
         NEW g \in [Fences -> SUBSET Objects], Submit(S, g)
  PROVE  /\ submitted + 1 \in Fences
         /\ completed' \in Fences /\ submitted' \in Fences /\ completed' <= submitted'
         /\ inFlight' \in [Fences -> SUBSET Objects]
         /\ garbage' \in [Fences -> SUBSET Objects]
<1>1. submitted + 1 \in Fences
  BY DEF TypeOK, Submit, Fences
<1>2. garbage' \in [Fences -> SUBSET Objects]
  BY <1>1, MarkType DEF Submit
<1>3. QED
  BY <1>1, <1>2 DEF TypeOK, Submit, Fences

LEMMA TypeStep == TypeOK /\ [Next]_vars => TypeOK'
<1> SUFFICES ASSUME TypeOK, [Next]_vars PROVE TypeOK'
  OBVIOUS
<1> USE DEF TypeOK
<1>1. \A o \in Free : o \in Objects
  BY DEF Free
<1>2. ASSUME NEW o \in Objects, Create(o) PROVE TypeOK'
  BY <1>2 DEF Create, gpuVars, slotVars, uploadVars
<1>3. ASSUME NEW o \in Objects, Destroy(o) PROVE TypeOK'
  BY <1>3, DeferType DEF Destroy, gpuVars, slotVars, uploadVars
<1>4. ASSUME NEW o \in Objects, Draw(o) PROVE TypeOK'
  BY <1>4 DEF Draw, gpuVars, slotVars, uploadVars
<1>5. ASSUME NEW o \in Objects, AllocateGrows(o) PROVE TypeOK'
  <2>1. {slotBuffer[activeSlot]} \ {None} \in SUBSET Objects
    OBVIOUS
  <2>2. QED
    BY <1>5, <2>1, DeferType DEF AllocateGrows, gpuVars, uploadVars
<1>6. ASSUME NEW o \in Objects, CreateWindow(o) PROVE TypeOK'
  BY <1>6 DEF CreateWindow, gpuVars, slotVars, uploadVars
<1>7. ASSUME NEW o \in Objects, NEW u \in Objects, CreateInFrame(o, u) PROVE TypeOK'
  BY <1>7, DeferType DEF CreateInFrame, gpuVars, slotVars, uploadVars
<1>8. ASSUME NEW o \in Objects, NEW u \in Objects, NEW new \in {{}, {o}},
             UploadBegin(o, u, new)
      PROVE TypeOK'
  BY <1>8, ReleaseType, SubmitType DEF UploadBegin, slotVars
<1>9. ASSUME NEW o \in Objects, NEW u \in Objects, NEW new \in {{}, {o}},
             UploadFails(o, u, new)
      PROVE TypeOK'
  BY <1>9, ReleaseType, DeferType DEF UploadFails, gpuVars, slotVars, uploadVars
<1>10. CASE UploadEnd
  BY <1>10, ReleaseType, DeferType DEF UploadEnd, gpuVars, slotVars
<1>11. CASE BeginFrame
  <2>1. (nextSlot + 1) % SlotCount \in Slots
    BY DEF Slots
  <2>2. QED
    BY <1>11, <2>1, ReleaseType, ZeroIsFence DEF BeginFrame, gpuVars, uploadVars
<1>12. CASE RenderPass
  BY <1>12 DEF RenderPass, gpuVars, slotVars, uploadVars
<1>13. CASE AllocateFits
  BY <1>13 DEF AllocateFits, gpuVars, slotVars, uploadVars
<1>14. CASE Present
  <2>1. recorded \cup {target} \in SUBSET Objects
    BY <1>14 DEF Present
  <2>2. QED
    BY <1>14, <2>1, SubmitType DEF Present, uploadVars
<1>15. CASE PresentCloseFails
  BY <1>15 DEF PresentCloseFails, gpuVars, slotVars, uploadVars
<1>16. ASSUME NEW n \in Free \cup {None}, ReplaceTarget(n) PROVE TypeOK'
  BY <1>1, <1>16, ReleaseType DEF ReplaceTarget, gpuVars, slotVars, uploadVars
<1>17. CASE DestroyContext
  BY <1>17 DEF DestroyContext, gpuVars
<1>18. CASE GpuCompletes
  BY <1>18 DEF GpuCompletes, slotVars, uploadVars, Fences
<1>19. CASE UNCHANGED vars
  BY <1>19 DEF vars
<1> HIDE DEF TypeOK
<1>20. QED
  BY <1>2, <1>3, <1>4, <1>5, <1>6, <1>7, <1>8, <1>9, <1>10, <1>11, <1>12, <1>13,
     <1>14, <1>15, <1>16, <1>17, <1>18, <1>19 DEF Next

-----------------------------------------------------------------------------
(* Free objects, and the phases *)

LEMMA FreeIsUnowned ==
  ASSUME TypeOK, NEW o \in Free
  PROVE  /\ o \in Objects /\ o # None
         /\ o \notin live /\ o # target /\ o \notin staging /\ o \notin created
         /\ \A f \in Slots : o # slotBuffer[f]
         /\ \A v \in Fences : o \notin garbage[v]
BY DEF Free, Owned

\* What the inductive invariant says of NoUseAfterRelease.
LEMMA FreeIsUnread ==
  ASSUME TypeOK, ReadersAreCovered, NEW o \in Free
  PROVE  o \notin recorded /\ \A v \in Fences : o \notin inFlight[v]
<1>1. o \notin Owned /\ \A v \in Fences : o \notin garbage[v]
  BY DEF Free
<1>2. QED
  BY <1>1, ZeroIsFence DEF ReadersAreCovered

LEMMA PhasesStep == TypeOK /\ PhasesAreExclusive /\ [Next]_vars => PhasesAreExclusive'
<1> SUFFICES ASSUME TypeOK, PhasesAreExclusive, [Next]_vars PROVE PhasesAreExclusive'
  OBVIOUS
<1> USE DEF PhasesAreExclusive, uploadVars, Idle, InFrame
<1>1. CASE UNCHANGED <<frameActive, recorded, uploadVars>>
  BY <1>1
<1>2. CASE UNCHANGED <<frameActive, uploadVars>> /\ InFrame
  BY <1>2
<1>3. ASSUME NEW o \in Objects, NEW u \in Objects, NEW new \in {{}, {o}},
             UploadBegin(o, u, new)
      PROVE PhasesAreExclusive'
  BY <1>3 DEF UploadBegin
<1>4. CASE UploadEnd
  BY <1>4 DEF UploadEnd
<1>5. CASE BeginFrame
  BY <1>5 DEF BeginFrame
<1>6. CASE Present \/ PresentCloseFails
  BY <1>6 DEF Present, PresentCloseFails
<1>7. CASE DestroyContext
  BY <1>7 DEF DestroyContext
<1> HIDE DEF PhasesAreExclusive, Idle, InFrame
<1>8. QED
  BY <1>1, <1>2, <1>3, <1>4, <1>5, <1>6, <1>7
  DEF Next, vars, Create, Destroy, Draw, AllocateGrows, CreateWindow, CreateInFrame,
      UploadFails, RenderPass, AllocateFits, ReplaceTarget, GpuCompletes

-----------------------------------------------------------------------------
(* One owner *)

\* Where the objects of a defer_release end up, and whether they are kept.
DeferFence == IF frameActive THEN 0 ELSE submitted
Kept == DeferFence = 0 \/ completed < DeferFence

LEMMA DeferContents ==
  ASSUME NEW g \in [Fences -> SUBSET Objects], NEW S \in SUBSET Objects,
         TypeOK, NEW v \in Fences, NEW o
  PROVE  o \in DeferRelease(g, S)[v] <=> o \in g[v] \/ (o \in S /\ v = DeferFence /\ Kept)
<1>1. CASE Kept
  <2>1. DeferRelease(g, S) = [g EXCEPT ![DeferFence] = @ \cup S]
    BY <1>1 DEF DeferRelease, Kept, DeferFence, TypeOK, Fences
  <2>2. QED
    BY <1>1, <2>1
<1>2. CASE ~Kept
  BY <1>2 DEF DeferRelease, Kept, DeferFence, TypeOK, Fences
<1>3. QED
  BY <1>1, <1>2

LEMMA ReleaseContents ==
  ASSUME NEW g, NEW v \in Fences, NEW o
  PROVE  o \in ReleaseCompleted(g)[v] <=> o \in g[v] /\ (v = 0 \/ ~(v <= completed))
BY DEF ReleaseCompleted

LEMMA MarkContents ==
  ASSUME NEW g \in [Fences -> SUBSET Objects], NEW fence \in Fences \ {0},
         NEW v \in Fences, NEW o
  PROVE  o \in MarkDeferred(g, fence)[v] <=>
           v # 0 /\ (o \in g[v] \/ (v = fence /\ o \in g[0]))
<1>1. CASE v = 0
  BY <1>1, ZeroIsFence DEF MarkDeferred
<1>2. CASE v # 0
  BY <1>2, ZeroIsFence DEF MarkDeferred
<1>3. QED
  BY <1>1, <1>2

\* The part of SingleOwner about a deferred list g and the objects owned.
Disjoint(g, owned) ==
  \A o \in Objects : \A v \in Fences : o \in g[v] =>
    /\ o \notin owned
    /\ \A w \in Fences : o \in g[w] => w = v

LEMMA DeferDisjoint ==
  ASSUME NEW g \in [Fences -> SUBSET Objects], NEW S \in SUBSET Objects,
         NEW owned, NEW rest, TypeOK,
         Disjoint(g, owned),
         \A o \in S : o \notin rest /\ \A v \in Fences : o \notin g[v],
         \A o \in Objects : o \in rest => o \in owned
  PROVE  Disjoint(DeferRelease(g, S), rest)
BY DeferContents DEF Disjoint

LEMMA ReleaseDisjoint ==
  ASSUME NEW g \in [Fences -> SUBSET Objects], NEW owned, Disjoint(g, owned)
  PROVE  Disjoint(ReleaseCompleted(g), owned)
BY ReleaseContents DEF Disjoint

LEMMA MarkDisjoint ==
  ASSUME NEW g \in [Fences -> SUBSET Objects], NEW owned, NEW fence \in Fences \ {0},
         Disjoint(g, owned)
  PROVE  Disjoint(MarkDeferred(g, fence), owned)
BY MarkContents, ZeroIsFence DEF Disjoint

\* The rest of SingleOwner.
OwnersApart ==
  /\ \A o \in live : o \notin staging /\ o \notin created /\ o # target
  /\ \A o \in staging : o \notin created /\ o # target
  /\ target \notin created
  /\ \A f \in Slots : slotBuffer[f] # None =>
       /\ slotBuffer[f] \notin live /\ slotBuffer[f] \notin staging
       /\ slotBuffer[f] \notin created /\ slotBuffer[f] # target
       /\ \A g \in Slots : slotBuffer[f] = slotBuffer[g] => f = g

LEMMA SingleOwnerParts == SingleOwner <=> Disjoint(garbage, Owned) /\ OwnersApart
BY DEF SingleOwner, Disjoint, OwnersApart

\* An object that becomes owned was free.
LEMMA DisjointGrows ==
  ASSUME NEW g, NEW owned, NEW more, Disjoint(g, owned),
         \A o \in Objects : o \in more =>
           o \in owned \/ \A v \in Fences : o \notin g[v]
  PROVE  Disjoint(g, more)
BY DEF Disjoint

LEMMA ApartStep ==
  ASSUME TypeOK, OwnersApart, PhasesAreExclusive, [Next]_vars
  PROVE  OwnersApart'
<1> USE DEF OwnersApart, TypeOK
<1>1. CASE UNCHANGED <<live, slotBuffer, target, staging, created>>
  BY <1>1
<1>2. ASSUME NEW o \in Objects, Create(o) PROVE OwnersApart'
  BY <1>2, FreeIsUnowned DEF Create, slotVars, uploadVars
<1>3. ASSUME NEW o \in Objects, Destroy(o) PROVE OwnersApart'
  BY <1>3 DEF Destroy, slotVars, uploadVars
<1>4. ASSUME NEW o \in Objects, AllocateGrows(o) PROVE OwnersApart'
  <2>1. \A f \in Slots : slotBuffer'[f] = IF f = activeSlot THEN o ELSE slotBuffer[f]
    BY <1>4 DEF AllocateGrows
  <2>2. QED
    BY <1>4, <2>1, FreeIsUnowned DEF AllocateGrows, uploadVars
<1>5. ASSUME NEW o \in Objects, CreateWindow(o) PROVE OwnersApart'
  BY <1>5, FreeIsUnowned DEF CreateWindow, slotVars, uploadVars
<1>6. ASSUME NEW o \in Objects, NEW u \in Objects, CreateInFrame(o, u) PROVE OwnersApart'
  BY <1>6, FreeIsUnowned DEF CreateInFrame, slotVars, uploadVars
<1>7. ASSUME NEW o \in Objects, NEW u \in Objects, NEW new \in {{}, {o}},
             UploadBegin(o, u, new)
      PROVE OwnersApart'
  <2>1. staging' = {u} /\ created' = new /\ u # o /\ u \in Free /\ (new = {o} => o \in Free)
    BY <1>7 DEF UploadBegin
  <2>2. UNCHANGED <<live, slotBuffer, target>>
    BY <1>7 DEF UploadBegin, slotVars
  <2>3. CASE new = {}
    BY <2>1, <2>2, <2>3, FreeIsUnowned
  <2>4. CASE new = {o}
    BY <2>1, <2>2, <2>4, FreeIsUnowned
  <2>5. QED
    BY <2>3, <2>4
<1>8. CASE UploadEnd
  <2>1. staging' = {} /\ created' = {} /\ UNCHANGED <<slotBuffer, target>>
    BY <1>8 DEF UploadEnd, slotVars
  <2>2. CASE UNCHANGED live
    BY <2>1, <2>2
  <2>3. CASE live' = live \cup created
    BY <2>1, <2>3
  <2>4. QED
    BY <1>8, <2>2, <2>3 DEF UploadEnd
<1>9. ASSUME NEW n \in Free \cup {None}, ReplaceTarget(n) PROVE OwnersApart'
  BY <1>9, FreeIsUnowned DEF ReplaceTarget, slotVars, uploadVars, PhasesAreExclusive, Idle
<1>10. CASE DestroyContext
  BY <1>10 DEF DestroyContext
<1> HIDE DEF OwnersApart, TypeOK
<1>11. QED
  BY <1>1, <1>2, <1>3, <1>4, <1>5, <1>6, <1>7, <1>8, <1>9, <1>10
  DEF Next, vars, Draw, UploadFails, BeginFrame, RenderPass, AllocateFits, Present,
      PresentCloseFails, GpuCompletes, slotVars, uploadVars

LEMMA DisjointStep ==
  ASSUME TypeOK, SingleOwner, PhasesAreExclusive, [Next]_vars
  PROVE  Disjoint(garbage, Owned)'
<1>0. /\ garbage \in [Fences -> SUBSET Objects] /\ live \in SUBSET Objects
      /\ submitted \in Fences /\ activeSlot \in Slots /\ staging \in SUBSET Objects
      /\ Disjoint(garbage, Owned) /\ OwnersApart
  BY SingleOwnerParts DEF TypeOK
<1> DEFINE D(g) == \A o \in Objects : \A v \in Fences : o \in g[v] =>
                     o \notin Owned' /\ \A w \in Fences : o \in g[w] => w = v
<1>1. SUFFICES D(garbage')
  BY DEF Disjoint
<1>2. ASSUME NEW g, Disjoint(g, Owned'), garbage' = g PROVE D(garbage')
  BY <1>2 DEF Disjoint
<1>3. CASE UNCHANGED <<live, slotBuffer, target, staging, created, garbage>>
  BY <1>0, <1>3 DEF Disjoint, Owned
<1>4. ASSUME NEW o \in Objects, Create(o) \/ CreateWindow(o) PROVE D(garbage')
  <2>1. \A p \in Objects : p \in Owned' => p \in Owned \/ p = o
    BY <1>4 DEF Owned, Create, CreateWindow, slotVars, uploadVars
  <2>2. garbage' = garbage /\ o \in Free
    BY <1>4 DEF Create, CreateWindow
  <2>3. Disjoint(garbage, Owned')
    BY <1>0, <2>1, <2>2, FreeIsUnowned, DisjointGrows
  <2>4. QED
    BY <1>2, <2>2, <2>3
<1>5. ASSUME NEW o \in Objects, Destroy(o) PROVE D(garbage')
  <2>1. garbage' = DeferRelease(garbage, {o}) /\ live' = live \ {o} /\ o \in live
        /\ UNCHANGED <<slotBuffer, target, staging, created>>
    BY <1>5 DEF Destroy, slotVars, uploadVars
  <2>2. o \in Owned /\ o \notin Owned'
    BY <1>0, <2>1 DEF Owned, OwnersApart
  <2>3. \A p \in Objects : p \in Owned' => p \in Owned
    BY <2>1 DEF Owned
  <2>4. Disjoint(DeferRelease(garbage, {o}), Owned')
    <3>1. \A p \in {o} : p \notin Owned' /\ \A v \in Fences : p \notin garbage[v]
      BY <1>0, <2>2 DEF Disjoint
    <3>2. {o} \in SUBSET Objects
      OBVIOUS
    <3>3. QED
      BY <1>0, <2>3, <3>1, <3>2, DeferDisjoint
  <2>5. QED
    BY <1>2, <2>1, <2>4
<1>6. ASSUME NEW o \in Objects, AllocateGrows(o) PROVE D(garbage')
  <2> DEFINE old == {slotBuffer[activeSlot]} \ {None}
  <2>1. /\ garbage' = DeferRelease(garbage, old) /\ o \in Free
        /\ slotBuffer' = [slotBuffer EXCEPT ![activeSlot] = o]
        /\ UNCHANGED <<live, target, staging, created>>
    BY <1>6 DEF AllocateGrows, uploadVars
  <2>2. old \in SUBSET Objects /\ \A p \in old : p \in Owned /\ p # o
    BY <1>0, <2>1, FreeIsUnowned DEF Owned, TypeOK
  <2>3. \A p \in Objects : p \in Owned' => (p \in Owned /\ p \notin old) \/ p = o
    <3>1. \A f \in Slots : slotBuffer'[f] = IF f = activeSlot THEN o ELSE slotBuffer[f]
      BY <2>1 DEF TypeOK
    <3>2. ASSUME NEW p \in Objects, p \in Owned', p # o PROVE p \in Owned /\ p \notin old
      <4>1. p \in live \/ (\E f \in Slots : f # activeSlot /\ p = slotBuffer[f])
              \/ p = target \/ p \in staging \/ p \in created
        BY <2>1, <3>1, <3>2 DEF Owned
      <4>2. QED
        BY <1>0, <4>1 DEF Owned, OwnersApart
    <3>3. QED
      BY <3>2
  <2>4. Disjoint(DeferRelease(garbage, old), Owned')
    <3>1. \A p \in old : p \notin Owned' /\ \A v \in Fences : p \notin garbage[v]
      BY <1>0, <2>2, <2>3 DEF Disjoint
    <3>2. Disjoint(garbage, Owned \cup {o})
      BY <1>0, <2>1, FreeIsUnowned, DisjointGrows
    <3>3. QED
      BY <2>2, <2>3, <3>1, <3>2, <1>0, DeferDisjoint
  <2>5. QED
    BY <1>2, <2>1, <2>4
<1>7. ASSUME NEW o \in Objects, NEW u \in Objects, CreateInFrame(o, u) PROVE D(garbage')
  <2>1. /\ o \in Free /\ u \in Free /\ o # u
        /\ UNCHANGED <<slotBuffer, target, staging, created>>
    BY <1>7 DEF CreateInFrame, slotVars, uploadVars
  <2>2. Disjoint(garbage, Owned \cup {o})
    BY <1>0, <2>1, FreeIsUnowned, DisjointGrows
  <2>3. o \notin Owned /\ u \notin Owned
    BY <2>1 DEF Free
  <2>4. CASE live' = live \cup {o} /\ garbage' = DeferRelease(garbage, {u})
    <3>1. \A p \in Objects : p \in Owned' => p \in Owned \cup {o}
      BY <2>1, <2>4 DEF Owned
    <3>2. \A p \in {u} : p \notin Owned' /\ \A v \in Fences : p \notin garbage[v]
      BY <2>1, <2>3, <3>1, FreeIsUnowned
    <3>3. {u} \in SUBSET Objects
      OBVIOUS
    <3>4. Disjoint(DeferRelease(garbage, {u}), Owned')
      BY <1>0, <2>2, <3>1, <3>2, <3>3, DeferDisjoint
    <3>5. QED
      BY <1>2, <2>4, <3>4
  <2>5. CASE UNCHANGED live /\ garbage' = DeferRelease(garbage, {o, u})
    <3>1. Owned' = Owned
      BY <2>1, <2>5 DEF Owned
    <3>2. \A p \in {o, u} : p \notin Owned' /\ \A v \in Fences : p \notin garbage[v]
      BY <2>1, <2>3, <3>1, FreeIsUnowned
    <3>3. {o, u} \in SUBSET Objects
      OBVIOUS
    <3>4. Disjoint(DeferRelease(garbage, {o, u}), Owned')
      BY <1>0, <3>1, <3>2, <3>3, DeferDisjoint
    <3>5. QED
      BY <1>2, <2>5, <3>4
  <2>6. QED
    BY <1>7, <2>4, <2>5 DEF CreateInFrame
<1>8. ASSUME NEW o \in Objects, NEW u \in Objects, NEW new \in {{}, {o}},
             UploadBegin(o, u, new)
      PROVE D(garbage')
  <2> DEFINE r == ReleaseCompleted(garbage)
  <2>1. /\ u \in Free /\ (new = {} \/ (new = {o} /\ o \in Free))
        /\ staging' = {u} /\ created' = new /\ UNCHANGED <<slotBuffer, target, live>>
        /\ Submit({o, u}, r)
    BY <1>8 DEF UploadBegin, slotVars
  <2>2. submitted + 1 \in Fences \ {0}
    BY <2>1 DEF Submit, TypeOK, Fences
  <2>3. garbage' = MarkDeferred(r, submitted + 1)
    BY <2>1 DEF Submit
  <2>4. r \in [Fences -> SUBSET Objects]
    BY <1>0, ReleaseType
  <2>5. Disjoint(garbage, Owned')
    <3>1. \A p \in Objects : p \in Owned' => p \in Owned \/ p \in Free
      BY <2>1 DEF Owned
    <3>2. QED
      BY <1>0, <3>1, FreeIsUnowned, DisjointGrows
  <2>6. Disjoint(MarkDeferred(r, submitted + 1), Owned')
    BY <1>0, <2>2, <2>4, <2>5, ReleaseDisjoint, MarkDisjoint
  <2>7. QED
    BY <1>2, <2>3, <2>6
<1>9. ASSUME NEW o \in Objects, NEW u \in Objects, NEW new \in {{}, {o}},
             UploadFails(o, u, new)
      PROVE D(garbage')
  <2> DEFINE r == ReleaseCompleted(garbage)
  <2>1. /\ u \in Free /\ (new = {} \/ (new = {o} /\ o \in Free))
        /\ UNCHANGED <<slotBuffer, target, live, staging, created>>
        /\ garbage' = DeferRelease(r, new \cup {u})
    BY <1>9 DEF UploadFails, slotVars, uploadVars
  <2>2. r \in [Fences -> SUBSET Objects] /\ Disjoint(r, Owned)
    BY <1>0, ReleaseType, ReleaseDisjoint
  <2>3. Owned' = Owned
    BY <2>1 DEF Owned
  <2>4. new \cup {u} \in SUBSET Objects /\ \A p \in new \cup {u} : p \in Free
    BY <2>1
  <2>5. \A p \in new \cup {u} : p \notin Owned /\ \A v \in Fences : p \notin r[v]
    BY <2>4, ReleaseContents DEF Free
  <2>6. Disjoint(DeferRelease(r, new \cup {u}), Owned')
    BY <2>2, <2>3, <2>4, <2>5, DeferDisjoint
  <2>7. QED
    BY <1>2, <2>1, <2>6
<1>10. CASE UploadEnd
  <2> DEFINE r == ReleaseCompleted(garbage)
  <2>1. /\ garbage' = DeferRelease(r, staging) /\ staging' = {} /\ created' = {}
        /\ (live' = live \cup created \/ live' = live)
        /\ UNCHANGED <<slotBuffer, target>>
    BY <1>10 DEF UploadEnd, slotVars
  <2>2. r \in [Fences -> SUBSET Objects] /\ Disjoint(r, Owned)
    BY <1>0, ReleaseType, ReleaseDisjoint
  <2>3. \A p \in Objects : p \in Owned' => p \in Owned /\ p \notin staging
    <3>1. \A p \in Objects : p \in Owned' => p \in live \cup created
            \/ (\E f \in Slots : p = slotBuffer[f]) \/ p = target
      BY <2>1 DEF Owned
    <3>2. \A p \in Objects : p # None
      OBVIOUS
    <3>3. QED
      BY <1>0, <3>1, <3>2 DEF Owned, OwnersApart
  <2>4. \A p \in staging : p \notin Owned' /\ \A v \in Fences : p \notin r[v]
    <3>1. \A p \in staging : p \in Owned /\ p \in Objects
      BY <1>0 DEF Owned
    <3>2. QED
      BY <2>2, <2>3, <3>1 DEF Disjoint
  <2>5. Disjoint(DeferRelease(r, staging), Owned')
    BY <1>0, <2>2, <2>3, <2>4, DeferDisjoint
  <2>6. QED
    BY <1>2, <2>1, <2>5
<1>11. CASE BeginFrame
  <2>1. garbage' = ReleaseCompleted(garbage)
        /\ UNCHANGED <<live, slotBuffer, target, staging, created>>
    BY <1>11 DEF BeginFrame, uploadVars
  <2>2. Disjoint(ReleaseCompleted(garbage), Owned')
    BY <1>0, <2>1, ReleaseDisjoint DEF Owned
  <2>3. QED
    BY <1>2, <2>1, <2>2
<1>12. CASE Present
  <2>1. garbage' = MarkDeferred(garbage, submitted + 1) /\ submitted + 1 \in Fences \ {0}
        /\ UNCHANGED <<live, slotBuffer, target, staging, created>>
    BY <1>12 DEF Present, Submit, uploadVars, Fences, TypeOK
  <2>2. Disjoint(MarkDeferred(garbage, submitted + 1), Owned')
    BY <1>0, <2>1, MarkDisjoint DEF Owned
  <2>3. QED
    BY <1>2, <2>1, <2>2
<1>13. ASSUME NEW n \in Free \cup {None}, ReplaceTarget(n) PROVE D(garbage')
  <2>1. garbage' = ReleaseCompleted(garbage) /\ target' = n
        /\ UNCHANGED <<live, slotBuffer, staging, created>>
    BY <1>13 DEF ReplaceTarget, slotVars, uploadVars
  <2>2. \A p \in Objects : p \in Owned' => p \in Owned \/ p \in Free
    BY <1>13, <2>1 DEF Owned
  <2>3. Disjoint(ReleaseCompleted(garbage), Owned')
    BY <1>0, <2>2, FreeIsUnowned, DisjointGrows, ReleaseDisjoint
  <2>4. QED
    BY <1>2, <2>1, <2>3
<1>14. CASE DestroyContext
  BY <1>14 DEF DestroyContext
<1> HIDE DEF D
<1>15. QED
  BY <1>3, <1>4, <1>5, <1>6, <1>7, <1>8, <1>9, <1>10, <1>11, <1>12, <1>13, <1>14
  DEF Next, vars, Draw, RenderPass, AllocateFits, PresentCloseFails, GpuCompletes,
      slotVars, uploadVars

-----------------------------------------------------------------------------
(* What the GPU reads *)

LEMMA PendingStep ==
  ASSUME TypeOK, InFlightIsPending, [Next]_vars
  PROVE  InFlightIsPending'
<1> USE DEF InFlightIsPending, TypeOK, Fences
<1>1. CASE UNCHANGED gpuVars
  BY <1>1 DEF gpuVars
<1>2. ASSUME NEW S, NEW g, Submit(S, g) PROVE InFlightIsPending'
  BY <1>2 DEF Submit
<1>3. CASE GpuCompletes
  BY <1>3 DEF GpuCompletes
<1> HIDE DEF InFlightIsPending, TypeOK
<1>4. QED
  BY <1>1, <1>2, <1>3
  DEF Next, vars, gpuVars, Create, Destroy, Draw, AllocateGrows, CreateWindow, CreateInFrame,
      UploadBegin, UploadFails, UploadEnd, BeginFrame, RenderPass, AllocateFits, Present,
      PresentCloseFails, ReplaceTarget, DestroyContext

\* Release and mark keep a reader covered.
Covered(o, v, owned, g) == o \in owned \/ \E w \in Fences : o \in g[w] /\ (w = 0 \/ w >= v)

LEMMA ReleaseCovers ==
  ASSUME TypeOK, InFlightIsPending, NEW owned, NEW v \in Fences, NEW o \in inFlight[v],
         Covered(o, v, owned, garbage)
  PROVE  Covered(o, v, owned, ReleaseCompleted(garbage))
<1>1. completed < v
  BY DEF InFlightIsPending
<1>2. CASE o \in owned
  BY <1>2 DEF Covered
<1>3. CASE o \notin owned
  <2>1. PICK w \in Fences : o \in garbage[w] /\ (w = 0 \/ w >= v)
    BY <1>3 DEF Covered
  <2>2. o \in ReleaseCompleted(garbage)[w]
    BY <1>1, <2>1, ReleaseContents DEF TypeOK, Fences
  <2>3. QED
    BY <2>1, <2>2 DEF Covered
<1>4. QED
  BY <1>2, <1>3

\* An owned object handed to defer_release stays covered: the fence it gets
\* is 0 or the last one submitted, which no reader is beyond.
LEMMA DeferCovers ==
  ASSUME TypeOK, InFlightIsPending, NEW g \in [Fences -> SUBSET Objects],
         NEW S \in SUBSET Objects, NEW owned, NEW rest,
         NEW v \in Fences, NEW o \in inFlight[v], Covered(o, v, owned, g),
         o \in owned => o \in rest \/ o \in S
  PROVE  Covered(o, v, rest, DeferRelease(g, S))
<1>1. completed < v /\ v <= submitted
  BY DEF InFlightIsPending
<1>2. CASE o \in rest
  BY <1>2 DEF Covered
<1>3. CASE o \in S
  <2>1. Kept /\ DeferFence \in Fences /\ (DeferFence = 0 \/ DeferFence >= v)
    BY <1>1 DEF Kept, DeferFence, TypeOK, Fences
  <2>2. o \in DeferRelease(g, S)[DeferFence]
    BY <1>3, <2>1, DeferContents
  <2>3. QED
    BY <2>1, <2>2 DEF Covered
<1>4. CASE \E w \in Fences : o \in g[w] /\ (w = 0 \/ w >= v)
  <2>1. PICK w \in Fences : o \in g[w] /\ (w = 0 \/ w >= v)
    BY <1>4
  <2>2. o \in DeferRelease(g, S)[w]
    BY <2>1, DeferContents
  <2>3. QED
    BY <2>1, <2>2 DEF Covered
<1>5. QED
  BY <1>2, <1>3, <1>4 DEF Covered

\* The fence just submitted is at least every reader's.
LEMMA MarkCovers ==
  ASSUME TypeOK, NEW g \in [Fences -> SUBSET Objects], NEW owned,
         NEW v \in Fences, NEW o, Covered(o, v, owned, g),
         submitted + 1 \in Fences, v <= submitted + 1
  PROVE  Covered(o, v, owned, MarkDeferred(g, submitted + 1))
<1>1. CASE o \in owned
  BY <1>1 DEF Covered
<1>2. CASE o \notin owned
  <2>1. PICK w \in Fences : o \in g[w] /\ (w = 0 \/ w >= v)
    BY <1>2 DEF Covered
  <2>2. submitted + 1 \in Fences \ {0}
    BY DEF TypeOK, Fences
  <2>3. CASE w = 0
    <3>1. o \in MarkDeferred(g, submitted + 1)[submitted + 1]
      BY <2>1, <2>2, <2>3, MarkContents
    <3>2. QED
      BY <3>1 DEF Covered, TypeOK, Fences
  <2>4. CASE w # 0
    <3>1. o \in MarkDeferred(g, submitted + 1)[w]
      BY <2>1, <2>2, <2>4, MarkContents
    <3>2. QED
      BY <2>1, <3>1 DEF Covered
  <2>5. QED
    BY <2>3, <2>4
<1>3. QED
  BY <1>1, <1>2

PendingCovered == \A v \in Fences : \A o \in inFlight[v] : Covered(o, v, Owned, garbage)
RecordedCovered == \A o \in recorded : o \in Owned \/ o \in garbage[0]

LEMMA ReadersParts == ReadersAreCovered <=> PendingCovered /\ RecordedCovered
BY DEF ReadersAreCovered, PendingCovered, RecordedCovered, Covered

LEMMA PendingCoveredStep ==
  ASSUME TypeOK, PhasesAreExclusive, InFlightIsPending, PendingCovered, RecordedCovered,
         [Next]_vars
  PROVE  PendingCovered'
<1>0. /\ garbage \in [Fences -> SUBSET Objects] /\ live \in SUBSET Objects
      /\ submitted \in Fences /\ activeSlot \in Slots /\ staging \in SUBSET Objects
      /\ inFlight \in [Fences -> SUBSET Objects]
  BY DEF TypeOK
<1> DEFINE C == \A v \in Fences : \A o \in inFlight'[v] : Covered(o, v, Owned', garbage')
<1>1. SUFFICES C
  BY DEF PendingCovered, Covered
<1>2. \A v \in Fences : \A o \in inFlight[v] : Covered(o, v, Owned, garbage)
  BY DEF PendingCovered
<1>3. CASE UNCHANGED <<inFlight, garbage>> /\ Owned \subseteq Owned'
  BY <1>2, <1>3 DEF Covered
<1>4. ASSUME NEW o \in Objects, Destroy(o) PROVE C
  <2>1. garbage' = DeferRelease(garbage, {o}) /\ inFlight' = inFlight
    BY <1>4 DEF Destroy, gpuVars
  <2>2. \A p : p \in Owned => p \in Owned' \/ p \in {o}
    BY <1>4 DEF Destroy, Owned, slotVars, uploadVars
  <2>3. QED
    BY <1>0, <1>2, <2>1, <2>2, DeferCovers
<1>5. ASSUME NEW o \in Objects, AllocateGrows(o) PROVE C
  <2> DEFINE old == {slotBuffer[activeSlot]} \ {None}
  <2>1. /\ garbage' = DeferRelease(garbage, old) /\ inFlight' = inFlight
        /\ \A f \in Slots : slotBuffer'[f] = IF f = activeSlot THEN o ELSE slotBuffer[f]
        /\ UNCHANGED <<live, target, staging, created>>
    BY <1>5 DEF AllocateGrows, gpuVars, uploadVars, TypeOK
  <2>2. \A p \in Objects : p \in Owned => p \in Owned' \/ p \in old
    BY <2>1 DEF Owned
  <2>3. old \in SUBSET Objects
    BY DEF TypeOK
  <2>4. \A v \in Fences : \A p \in inFlight[v] : p \in Objects
    BY <1>0
  <2>5. QED
    BY <1>0, <1>2, <2>1, <2>2, <2>3, <2>4, DeferCovers
<1>6. ASSUME NEW o \in Objects, NEW u \in Objects, CreateInFrame(o, u) PROVE C
  <2>1. /\ inFlight' = inFlight /\ Owned \subseteq Owned'
        /\ garbage' = DeferRelease(garbage, {u}) \/ garbage' = DeferRelease(garbage, {o, u})
    BY <1>6 DEF CreateInFrame, gpuVars, slotVars, uploadVars, Owned
  <2>2. QED
    BY <1>0, <1>2, <2>1, DeferCovers
<1>7. ASSUME NEW o \in Objects, NEW u \in Objects, NEW new \in {{}, {o}},
             UploadBegin(o, u, new)
      PROVE C
  <2> DEFINE r == ReleaseCompleted(garbage)
  <2>1. /\ GpuIdle /\ Submit({o, u}, r) /\ staging' = {u} /\ created' = new
        /\ UNCHANGED <<live, slotBuffer, target>> /\ (new = {} => o \in live)
    BY <1>7 DEF UploadBegin, slotVars
  <2>2. \A v \in Fences : inFlight[v] = {}
    BY <1>0, <2>1 DEF GpuIdle, InFlightIsPending, TypeOK, Fences
  <2>3. \A v \in Fences : \A p \in inFlight'[v] : p = o \/ p = u
    BY <1>0, <2>1, <2>2 DEF Submit
  <2>4. o \in Owned' /\ u \in Owned'
    BY <2>1 DEF Owned
  <2>5. QED
    BY <2>3, <2>4 DEF Covered
<1>8. ASSUME UNCHANGED inFlight, GpuIdle PROVE C
  BY <1>0, <1>8 DEF GpuIdle, InFlightIsPending, TypeOK, Fences
<1>9. ASSUME NEW o \in Objects, NEW u \in Objects, NEW new \in {{}, {o}},
             UploadFails(o, u, new)
      PROVE C
  BY <1>8, <1>9 DEF UploadFails, gpuVars
<1>10. CASE UploadEnd
  BY <1>8, <1>10 DEF UploadEnd, gpuVars
<1>11. CASE BeginFrame
  <2>1. inFlight' = inFlight /\ garbage' = ReleaseCompleted(garbage) /\ Owned' = Owned
    BY <1>11 DEF BeginFrame, gpuVars, uploadVars, Owned
  <2>2. QED
    BY <1>2, <2>1, ReleaseCovers
<1>12. CASE Present
  <2> DEFINE S == recorded \cup {target}
  <2>1. Submit(S, garbage) /\ Owned' = Owned
    BY <1>12 DEF Present, uploadVars, Owned
  <2>2. /\ submitted + 1 \in Fences /\ garbage' = MarkDeferred(garbage, submitted + 1)
        /\ \A v \in Fences : inFlight'[v] = IF v = submitted + 1 THEN S ELSE inFlight[v]
    BY <1>0, <2>1, FenceAssumption DEF Submit, Fences
  <2>3. ASSUME NEW v \in Fences, NEW p \in inFlight'[v]
        PROVE  v <= submitted + 1 /\ Covered(p, v, Owned, garbage)
    <3>1. CASE p \in inFlight[v]
      BY <1>0, <1>2, <3>1 DEF InFlightIsPending, Fences
    <3>2. CASE v = submitted + 1 /\ p \in recorded
      BY <1>0, <3>2, ZeroIsFence DEF RecordedCovered, Covered, Fences
    <3>3. CASE v = submitted + 1 /\ p = target
      BY <1>0, <3>3 DEF Owned, Covered, Fences
    <3>4. QED
      BY <2>2, <2>3, <3>1, <3>2, <3>3
  <2>4. QED
    BY <1>0, <2>1, <2>2, <2>3, MarkCovers
<1>13. ASSUME NEW n \in Free \cup {None}, ReplaceTarget(n) PROVE C
  BY <1>8, <1>13 DEF ReplaceTarget, gpuVars
<1>14. CASE DestroyContext
  BY <1>8, <1>14 DEF DestroyContext, gpuVars
<1>15. CASE GpuCompletes
  <2>1. \A v \in Fences : \A o \in inFlight'[v] : o \in inFlight[v]
    BY <1>0, <1>15 DEF GpuCompletes
  <2>2. Owned' = Owned /\ garbage' = garbage
    BY <1>15 DEF GpuCompletes, Owned, slotVars, uploadVars
  <2>3. QED
    BY <1>2, <2>1, <2>2
<1>16. ASSUME NEW o \in Objects, Create(o) \/ Draw(o) \/ CreateWindow(o) PROVE C
  <2>1. UNCHANGED <<inFlight, garbage>>
    BY <1>16 DEF Create, Draw, CreateWindow, gpuVars
  <2>2. \A p \in Objects : p \in Owned => p \in Owned'
    BY <1>16 DEF Create, Draw, CreateWindow, Owned, slotVars, uploadVars
  <2>3. \A v \in Fences : \A p \in inFlight[v] : p \in Objects
    BY <1>0
  <2>4. QED
    BY <1>2, <2>1, <2>2, <2>3 DEF Covered
<1>17. CASE RenderPass \/ AllocateFits \/ PresentCloseFails \/ UNCHANGED vars
  <2>1. UNCHANGED <<inFlight, garbage, live, slotBuffer, target, staging, created>>
    BY <1>17 DEF RenderPass, AllocateFits, PresentCloseFails, gpuVars, slotVars, uploadVars, vars
  <2>2. QED
    BY <1>3, <2>1 DEF Owned
<1> HIDE DEF C
<1>18. QED
  BY <1>4, <1>5, <1>6, <1>7, <1>9, <1>10, <1>11, <1>12, <1>13, <1>14, <1>15, <1>16, <1>17
  DEF Next

LEMMA RecordedCoveredStep ==
  ASSUME TypeOK, PhasesAreExclusive, PhasesAreExclusive', RecordedCovered, [Next]_vars
  PROVE  RecordedCovered'
<1>0. /\ garbage \in [Fences -> SUBSET Objects] /\ live \in SUBSET Objects
      /\ activeSlot \in Slots /\ recorded \subseteq Objects
  BY DEF TypeOK
<1> DEFINE R == \A o \in recorded' : o \in Owned' \/ o \in garbage'[0]
<1>1. SUFFICES R
  BY DEF RecordedCovered
<1>2. \A o \in recorded : o \in Owned \/ o \in garbage[0]
  BY DEF RecordedCovered
\* Outside a frame nothing is recorded; inside, defer_release keeps what it is given.
<1>3. CASE recorded' = {}
  BY <1>3
<1>4. ASSUME NEW S \in SUBSET Objects, frameActive
      PROVE  \A o : o \in S \/ o \in garbage[0] => o \in DeferRelease(garbage, S)[0]
  BY <1>0, <1>4, ZeroIsFence, DeferContents DEF Kept, DeferFence
<1>5. ASSUME NEW o \in Objects, Destroy(o) PROVE R
  <2>1. /\ garbage' = DeferRelease(garbage, {o}) /\ recorded' = recorded
        /\ \A p : p \in Owned => p \in Owned' \/ p = o
    BY <1>5 DEF Destroy, Owned, slotVars, uploadVars
  <2>2. CASE frameActive
    BY <1>2, <1>4, <2>1, <2>2
  <2>3. CASE ~frameActive
    BY <2>1, <2>3 DEF PhasesAreExclusive
  <2>4. QED
    BY <2>2, <2>3 DEF TypeOK
<1>6. ASSUME NEW o \in Objects, AllocateGrows(o) PROVE R
  <2> DEFINE old == {slotBuffer[activeSlot]} \ {None}
  <2>1. /\ garbage' = DeferRelease(garbage, old) /\ recorded' = recorded \cup {o} /\ frameActive
        /\ \A f \in Slots : slotBuffer'[f] = IF f = activeSlot THEN o ELSE slotBuffer[f]
        /\ UNCHANGED <<live, target, staging, created>>
    BY <1>6 DEF AllocateGrows, InFrame, uploadVars, TypeOK
  <2>2. \A p \in Objects : p \in Owned => p \in Owned' \/ p \in old
    BY <2>1 DEF Owned
  <2>3. o \in Owned'
    BY <1>0, <2>1 DEF Owned
  <2>4. old \in SUBSET Objects
    BY DEF TypeOK
  <2>5. QED
    BY <1>0, <1>2, <1>4, <2>1, <2>2, <2>3, <2>4
<1>7. ASSUME NEW o \in Objects, NEW u \in Objects, CreateInFrame(o, u) PROVE R
  <2>1. /\ recorded' = recorded \cup {o, u} /\ frameActive /\ Owned \subseteq Owned'
        /\ \/ o \in Owned' /\ garbage' = DeferRelease(garbage, {u})
           \/ garbage' = DeferRelease(garbage, {o, u})
    BY <1>7 DEF CreateInFrame, InFrame, slotVars, uploadVars, Owned
  <2>2. QED
    BY <1>2, <1>4, <2>1
<1>8. ASSUME NEW o \in Objects, Draw(o) PROVE R
  <2>1. o \in Owned /\ Owned' = Owned /\ garbage' = garbage /\ recorded' = recorded \cup {o}
    BY <1>8 DEF Draw, Owned, slotVars, uploadVars
  <2>2. QED
    BY <1>2, <2>1
<1>9. CASE RenderPass
  <2>1. Owned' = Owned /\ garbage' = garbage /\ recorded' = recorded \cup {target}
    BY <1>9 DEF RenderPass, Owned, slotVars, uploadVars
  <2>2. QED
    BY <1>2, <2>1 DEF Owned
<1>10. CASE AllocateFits
  <2>1. Owned' = Owned /\ garbage' = garbage /\ recorded' = recorded \cup {slotBuffer[activeSlot]}
    BY <1>10 DEF AllocateFits, Owned, slotVars, uploadVars
  <2>2. QED
    BY <1>0, <1>2, <2>1 DEF Owned
<1>11. ASSUME NEW o \in Objects, Create(o) \/ CreateWindow(o) PROVE R
  <2>1. \A p \in Objects : p \in Owned => p \in Owned'
    BY <1>11 DEF Create, CreateWindow, Owned, slotVars, uploadVars
  <2>2. UNCHANGED <<recorded, garbage>>
    BY <1>11 DEF Create, CreateWindow
  <2>3. QED
    BY <1>0, <1>2, <2>1, <2>2
<1>12. CASE GpuCompletes \/ UNCHANGED vars
  <2>1. Owned' = Owned /\ garbage' = garbage /\ recorded' = recorded
    BY <1>12 DEF GpuCompletes, Owned, slotVars, uploadVars, vars
  <2>2. QED
    BY <1>2, <2>1
<1>13. CASE UNCHANGED recorded /\ ~frameActive
  BY <1>3, <1>13 DEF PhasesAreExclusive
<1> HIDE DEF R
<1>14. QED
  BY <1>3, <1>5, <1>6, <1>7, <1>8, <1>9, <1>10, <1>11, <1>12, <1>13
  DEF Next, UploadBegin, UploadFails, UploadEnd, BeginFrame, Present, PresentCloseFails,
      ReplaceTarget, DestroyContext, Idle, PhasesAreExclusive

-----------------------------------------------------------------------------
(* Slots and fences *)

LEMMA SlotFencesStep ==
  ASSUME TypeOK, SingleOwner, PhasesAreExclusive, InFlightIsPending, ReadersAreCovered,
         SlotFencesCoverUses, [Next]_vars
  PROVE  SlotFencesCoverUses'
<1>0. /\ inFlight \in [Fences -> SUBSET Objects] /\ slotLastUse \in [Slots -> Fences]
      /\ slotFence \in [Slots -> Fences] /\ activeSlot \in Slots /\ nextSlot \in Slots
      /\ slotBuffer \in [Slots -> Objects \cup {None}]
      /\ completed \in Int /\ submitted \in Int /\ completed <= submitted
      /\ \A v \in Fences : v \in Int
  BY ZeroIsFence DEF TypeOK, Fences
<1> USE DEF SlotFencesCoverUses
\* Steps that leave the slots alone and record at most one of the caller's objects.
<1>1. ASSUME NEW S, recorded' \subseteq recorded \cup S,
             UNCHANGED <<gpuVars, slotVars>>, frameActive' => frameActive,
             \A f \in Slots : slotBuffer[f] # None => slotBuffer[f] \notin S
      PROVE  SlotFencesCoverUses'
  BY <1>0, <1>1 DEF gpuVars, slotVars
<1>1a. ASSUME recorded' \subseteq recorded, UNCHANGED <<gpuVars, slotVars>>,
              frameActive' => frameActive
       PROVE  SlotFencesCoverUses'
  BY <1>0, <1>1a DEF gpuVars, slotVars
<1>2. \A o \in live : \A f \in Slots : slotBuffer[f] # None => slotBuffer[f] # o
  BY DEF SingleOwner
<1>3. ASSUME NEW o \in Objects, Create(o) \/ Destroy(o) \/ CreateWindow(o)
      PROVE SlotFencesCoverUses'
  <2>1. recorded' \subseteq recorded /\ UNCHANGED <<gpuVars, slotVars, frameActive>>
    BY <1>3 DEF Create, Destroy, CreateWindow
  <2>2. QED
    BY <1>1a, <2>1
<1>4. ASSUME NEW o \in Objects, Draw(o) PROVE SlotFencesCoverUses'
  <2>1. recorded' \subseteq recorded \cup {o} /\ UNCHANGED <<gpuVars, slotVars, frameActive>>
        /\ o \in live
    BY <1>4 DEF Draw
  <2>2. QED
    BY <1>1, <1>2, <2>1
<1>5. ASSUME NEW o \in Objects, AllocateGrows(o) PROVE SlotFencesCoverUses'
  <2>1. /\ o \in Free /\ recorded' = recorded \cup {o}
        /\ \A f \in Slots : slotBuffer'[f] = IF f = activeSlot THEN o ELSE slotBuffer[f]
        /\ UNCHANGED <<gpuVars, frameActive, activeSlot, slotFence, slotLastUse>>
    BY <1>0, <1>5 DEF AllocateGrows
  <2>2. \A v \in Fences : o \notin inFlight[v]
    BY <2>1, FreeIsUnread
  <2>3. \A f \in Slots : slotBuffer[f] # o
    BY <2>1, FreeIsUnowned
  <2>4. QED
    BY <1>0, <2>1, <2>2, <2>3 DEF gpuVars
<1>6. ASSUME NEW o \in Objects, NEW u \in Objects, CreateInFrame(o, u)
      PROVE SlotFencesCoverUses'
  <2>1. recorded' \subseteq recorded \cup {o, u} /\ UNCHANGED <<gpuVars, slotVars, frameActive>>
        /\ o \in Free /\ u \in Free
    BY <1>6 DEF CreateInFrame
  <2>2. \A f \in Slots : slotBuffer[f] \notin {o, u}
    BY <2>1, FreeIsUnowned
  <2>3. QED
    BY <1>1, <2>1, <2>2
<1>7. ASSUME NEW o \in Objects, NEW u \in Objects, NEW new \in {{}, {o}},
             UploadBegin(o, u, new)
      PROVE SlotFencesCoverUses'
  <2>1. /\ Submit({o, u}, ReleaseCompleted(garbage)) /\ u \in Free /\ (o \in Free \/ o \in live)
        /\ UNCHANGED <<slotVars, recorded>> /\ ~frameActive /\ ~frameActive'
    BY <1>7 DEF UploadBegin, Idle
  <2>2. \A f \in Slots : slotBuffer[f] # None => slotBuffer[f] \notin {o, u}
    BY <1>2, <2>1, FreeIsUnowned
  <2>3. /\ submitted' = submitted + 1 /\ completed' = completed
        /\ \A v \in Fences : inFlight'[v] = IF v = submitted + 1 THEN {o, u} ELSE inFlight[v]
    BY <1>0, <2>1 DEF Submit
  <2>4. QED
    BY <1>0, <2>1, <2>2, <2>3 DEF slotVars
<1>8. ASSUME NEW o \in Objects, NEW u \in Objects, NEW new \in {{}, {o}},
             UploadFails(o, u, new)
      PROVE SlotFencesCoverUses'
  <2>1. recorded' \subseteq recorded /\ UNCHANGED <<gpuVars, slotVars, frameActive>>
    BY <1>8 DEF UploadFails
  <2>2. QED
    BY <1>1a, <2>1
<1>9. CASE UploadEnd
  <2>1. recorded' \subseteq recorded /\ UNCHANGED <<gpuVars, slotVars, frameActive>>
    BY <1>9 DEF UploadEnd
  <2>2. QED
    BY <1>1a, <2>1
<1>10. CASE BeginFrame
  <2>1. /\ completed >= slotFence[nextSlot] /\ activeSlot' = nextSlot /\ recorded' = {}
        /\ \A f \in Slots : slotFence'[f] = IF f = nextSlot THEN 0 ELSE slotFence[f]
        /\ UNCHANGED <<gpuVars, slotLastUse, slotBuffer>>
    BY <1>0, <1>10 DEF BeginFrame
  <2>2. slotLastUse[nextSlot] <= completed
    BY <1>0, <2>1
  <2>3. QED
    BY <1>0, <2>1, <2>2, ZeroIsFence DEF gpuVars, Fences
<1>11. CASE RenderPass
  <2>1. recorded' \subseteq recorded \cup {target} /\ UNCHANGED <<gpuVars, slotVars, frameActive>>
    BY <1>11 DEF RenderPass
  <2>2. \A f \in Slots : slotBuffer[f] # None => slotBuffer[f] \notin {target}
    BY DEF SingleOwner
  <2>3. QED
    BY <1>1, <2>1, <2>2
<1>12. CASE AllocateFits
  <2>1. recorded' = recorded \cup {slotBuffer[activeSlot]}
        /\ UNCHANGED <<gpuVars, slotVars, frameActive>>
    BY <1>12 DEF AllocateFits
  <2>2. \A f \in Slots : slotBuffer[f] # None /\ slotBuffer[f] = slotBuffer[activeSlot] => f = activeSlot
    BY <1>0 DEF SingleOwner
  <2>3. QED
    BY <1>0, <2>1, <2>2 DEF gpuVars, slotVars
<1>13. CASE Present
  <2> DEFINE S == recorded \cup {target}
  <2>1. /\ Submit(S, garbage) /\ frameActive /\ ~frameActive' /\ recorded' = {}
        /\ \A f \in Slots : slotFence'[f] = IF f = activeSlot THEN submitted + 1 ELSE slotFence[f]
        /\ \A f \in Slots : slotLastUse'[f] = IF f = activeSlot THEN submitted + 1 ELSE slotLastUse[f]
        /\ UNCHANGED <<activeSlot, slotBuffer>>
    BY <1>0, <1>13 DEF Present, InFrame
  <2>2. /\ submitted' = submitted + 1 /\ completed' = completed
        /\ \A v \in Fences : inFlight'[v] = IF v = submitted + 1 THEN S ELSE inFlight[v]
    BY <1>0, <2>1 DEF Submit
  <2>3. \A f \in Slots : slotBuffer[f] # None /\ slotBuffer[f] \in S => f = activeSlot
    BY DEF SingleOwner
  <2>4. ASSUME NEW f \in Slots, NEW v \in Fences, slotBuffer[f] # None, slotBuffer[f] \in inFlight'[v]
        PROVE  v <= slotLastUse'[f]
    <3>1. CASE v = submitted + 1
      BY <1>0, <2>1, <2>2, <2>3, <2>4, <3>1
    <3>2. CASE v # submitted + 1
      BY <1>0, <2>1, <2>2, <2>4, <3>2
    <3>3. QED
      BY <3>1, <3>2
  <2>5. QED
    BY <1>0, <2>1, <2>2, <2>4
<1>14. CASE PresentCloseFails
  <2>1. recorded' \subseteq recorded /\ UNCHANGED <<gpuVars, slotVars>> /\ ~frameActive'
    BY <1>14 DEF PresentCloseFails
  <2>2. QED
    BY <1>1a, <2>1
<1>15. ASSUME NEW n \in Free \cup {None}, ReplaceTarget(n) PROVE SlotFencesCoverUses'
  <2>1. recorded' \subseteq recorded /\ UNCHANGED <<gpuVars, slotVars, frameActive>>
    BY <1>15 DEF ReplaceTarget
  <2>2. QED
    BY <1>1a, <2>1
<1>16. CASE DestroyContext
  <2>1. /\ \A f \in Slots : slotBuffer'[f] = None
        /\ UNCHANGED <<gpuVars, recorded, frameActive, activeSlot, slotFence, slotLastUse>>
    BY <1>16 DEF DestroyContext
  <2>2. QED
    BY <1>0, <2>1 DEF gpuVars
<1>17. CASE GpuCompletes
  <2>1. /\ completed' = completed + 1 /\ \A v \in Fences : \A o \in inFlight'[v] : o \in inFlight[v]
        /\ UNCHANGED <<submitted, slotVars, recorded, frameActive>>
    BY <1>0, <1>17 DEF GpuCompletes
  <2>2. QED
    BY <1>0, <2>1 DEF slotVars
<1>18. CASE UNCHANGED vars
  BY <1>18 DEF vars
<1> HIDE DEF SlotFencesCoverUses
<1>19. QED
  BY <1>3, <1>4, <1>5, <1>6, <1>7, <1>8, <1>9, <1>10, <1>11, <1>12, <1>13, <1>14, <1>15,
     <1>16, <1>17, <1>18
  DEF Next

\* Which fences the deferred list uses.
LEMMA DeferFences ==
  ASSUME TypeOK, NEW g \in [Fences -> SUBSET Objects], NEW S \in SUBSET Objects,
         \A v \in Fences : g[v] # {} => v <= submitted
  PROVE  \A v \in Fences : DeferRelease(g, S)[v] # {} => v <= submitted
<1>1. DeferFence <= submitted
  BY DEF DeferFence, TypeOK, Fences
<1>2. \A v \in Fences : DeferRelease(g, S)[v] # {} => g[v] # {} \/ v = DeferFence
  BY DeferContents
<1>3. QED
  BY <1>1, <1>2

LEMMA ReleaseFences ==
  ASSUME TypeOK, \A v \in Fences : garbage[v] # {} => v <= submitted
  PROVE  \A v \in Fences : ReleaseCompleted(garbage)[v] # {} => v <= submitted
BY DEF ReleaseCompleted

LEMMA MarkFences ==
  ASSUME TypeOK, NEW g \in [Fences -> SUBSET Objects], submitted + 1 \in Fences,
         \A v \in Fences : g[v] # {} => v <= submitted
  PROVE  \A v \in Fences : MarkDeferred(g, submitted + 1)[v] # {} => v <= submitted + 1
<1>1. submitted \in Int /\ submitted + 1 \in Fences \ {0} /\ \A v \in Fences : v \in Int
  BY DEF TypeOK, Fences
<1>2. \A v \in Fences : MarkDeferred(g, submitted + 1)[v] # {} => g[v] # {} \/ v = submitted + 1
  BY <1>1, MarkContents
<1>3. QED
  BY <1>1, <1>2

LEMMA LastFenceStep ==
  ASSUME TypeOK, PhasesAreExclusive, LastFenceIsAwaited, [Next]_vars
  PROVE  LastFenceIsAwaited'
<1>0. /\ garbage \in [Fences -> SUBSET Objects] /\ live \in SUBSET Objects
      /\ staging \in SUBSET Objects
      /\ slotFence \in [Slots -> Fences] /\ activeSlot \in Slots /\ nextSlot \in Slots
      /\ completed \in Int /\ submitted \in Int /\ completed <= submitted
      /\ \A v \in Fences : v \in Int
  BY ZeroIsFence DEF TypeOK, Fences
<1>1. \A v \in Fences : garbage[v] # {} => v <= submitted
  BY DEF LastFenceIsAwaited
<1> DEFINE G == \A v \in Fences : garbage'[v] # {} => v <= submitted'
           A == cpu' = "idle" =>
                  submitted' <= completed' \/ \E f \in Slots : slotFence'[f] = submitted'
<1>2. SUFFICES G /\ A
  BY DEF LastFenceIsAwaited
<1>3. ASSUME UNCHANGED <<gpuVars, slotFence>>, cpu' = "idle" => cpu = "idle" PROVE A
  BY <1>3 DEF LastFenceIsAwaited, gpuVars
<1>4. ASSUME UNCHANGED <<gpuVars, garbage>> PROVE G
  BY <1>1, <1>4 DEF gpuVars
<1>5. ASSUME NEW S \in SUBSET Objects, UNCHANGED submitted,
             garbage' = DeferRelease(garbage, S) \/ garbage' = DeferRelease(ReleaseCompleted(garbage), S)
      PROVE  G
  BY <1>0, <1>1, <1>5, DeferFences, ReleaseFences, ReleaseType
<1>6. ASSUME UNCHANGED submitted, garbage' = ReleaseCompleted(garbage) PROVE G
  BY <1>1, <1>6, ReleaseFences
<1>7. ASSUME NEW o \in Objects, Create(o) \/ CreateWindow(o) \/ Draw(o) PROVE G /\ A
  BY <1>3, <1>4, <1>7 DEF Create, CreateWindow, Draw, slotVars, uploadVars
<1>8. ASSUME NEW o \in Objects, Destroy(o) PROVE G /\ A
  <2>1. {o} \in SUBSET Objects
    OBVIOUS
  <2>2. QED
    BY <1>3, <1>5, <1>8, <2>1 DEF Destroy, gpuVars, slotVars, uploadVars
<1>9. ASSUME NEW o \in Objects, AllocateGrows(o) PROVE G /\ A
  <2>1. {slotBuffer[activeSlot]} \ {None} \in SUBSET Objects
    BY DEF TypeOK
  <2>2. QED
    BY <1>3, <1>5, <1>9, <2>1 DEF AllocateGrows, gpuVars, uploadVars
<1>10. ASSUME NEW o \in Objects, NEW u \in Objects, CreateInFrame(o, u) PROVE G /\ A
  <2>1. {u} \in SUBSET Objects /\ {o, u} \in SUBSET Objects
    OBVIOUS
  <2>2. QED
    BY <1>3, <1>5, <1>10, <2>1 DEF CreateInFrame, gpuVars, slotVars, uploadVars
<1>11. ASSUME NEW S, NEW g \in [Fences -> SUBSET Objects], Submit(S, g),
              \A v \in Fences : g[v] # {} => v <= submitted
       PROVE  G
  <2>1. submitted + 1 \in Fences /\ submitted' = submitted + 1
        /\ garbage' = MarkDeferred(g, submitted + 1)
    BY <1>11 DEF Submit, TypeOK, Fences
  <2>2. QED
    BY <1>11, <2>1, MarkFences
<1>12. ASSUME NEW o \in Objects, NEW u \in Objects, NEW new \in {{}, {o}},
              UploadBegin(o, u, new)
       PROVE G /\ A
  <2>1. Submit({o, u}, ReleaseCompleted(garbage)) /\ cpu' = "uploading"
    BY <1>12 DEF UploadBegin
  <2>2. ReleaseCompleted(garbage) \in [Fences -> SUBSET Objects]
    BY <1>0, ReleaseType
  <2>3. G
    BY <1>1, <1>11, <2>1, <2>2, ReleaseFences
  <2>4. QED
    BY <2>1, <2>3
<1>13. ASSUME NEW o \in Objects, NEW u \in Objects, NEW new \in {{}, {o}},
              UploadFails(o, u, new)
       PROVE G /\ A
  <2>1. new \cup {u} \in SUBSET Objects
    OBVIOUS
  <2>2. QED
    BY <1>3, <1>5, <1>13, <2>1 DEF UploadFails, gpuVars, slotVars, uploadVars
<1>14. CASE UploadEnd
  <2>1. G
    BY <1>0, <1>5, <1>14 DEF UploadEnd, gpuVars
  <2>2. A
    BY <1>0, <1>14 DEF UploadEnd, gpuVars, GpuIdle
  <2>3. QED
    BY <2>1, <2>2
<1>15. CASE BeginFrame
  <2>1. G
    BY <1>6, <1>15 DEF BeginFrame, gpuVars
  <2>2. /\ \A f \in Slots : slotFence'[f] = IF f = nextSlot THEN 0 ELSE slotFence[f]
        /\ completed >= slotFence[nextSlot] /\ UNCHANGED gpuVars /\ cpu = "idle"
    BY <1>0, <1>15 DEF BeginFrame, Idle
  <2>3. A
    BY <1>0, <2>2 DEF LastFenceIsAwaited, gpuVars
  <2>4. QED
    BY <2>1, <2>3
<1>16. CASE Present
  <2>1. G
    BY <1>0, <1>1, <1>11, <1>16 DEF Present
  <2>2. slotFence'[activeSlot] = submitted + 1 /\ submitted' = submitted + 1
    BY <1>0, <1>16 DEF Present, Submit
  <2>3. QED
    BY <1>0, <2>1, <2>2
<1>17. ASSUME NEW n \in Free \cup {None}, ReplaceTarget(n) PROVE G /\ A
  BY <1>3, <1>6, <1>17 DEF ReplaceTarget, gpuVars, slotVars, uploadVars
<1>18. CASE DestroyContext
  BY <1>18 DEF DestroyContext
<1>19. CASE GpuCompletes
  BY <1>0, <1>1, <1>19 DEF GpuCompletes, LastFenceIsAwaited, slotVars, uploadVars
<1>20. CASE RenderPass \/ AllocateFits \/ PresentCloseFails \/ UNCHANGED vars
  <2>1. UNCHANGED <<gpuVars, slotFence, cpu, garbage>>
    BY <1>20 DEF RenderPass, AllocateFits, PresentCloseFails, slotVars, uploadVars, vars, gpuVars
  <2>2. QED
    BY <1>3, <1>4, <2>1
<1> HIDE DEF G, A
<1>21. QED
  BY <1>7, <1>8, <1>9, <1>10, <1>12, <1>13, <1>14, <1>15, <1>16, <1>17, <1>18, <1>19, <1>20
  DEF Next

-----------------------------------------------------------------------------
(* The theorems *)

LEMMA InvInit == Init => Inv
<1> SUFFICES ASSUME Init PROVE Inv
  OBVIOUS
<1> USE ZeroIsFence DEF Init
<1>1. TypeOK
  <2>1. 0 \in Slots /\ 0 <= 0
    BY DEF Slots
  <2>2. QED
    BY <2>1 DEF TypeOK
<1>2. SingleOwner /\ PhasesAreExclusive /\ InFlightIsPending /\ ReadersAreCovered
  BY DEF SingleOwner, PhasesAreExclusive, InFlightIsPending, ReadersAreCovered
<1>3. SlotFencesCoverUses /\ LastFenceIsAwaited
  BY DEF SlotFencesCoverUses, LastFenceIsAwaited, Slots
<1>4. QED
  BY <1>1, <1>2, <1>3 DEF Inv

LEMMA InvStep == Inv /\ [Next]_vars => Inv'
<1> SUFFICES ASSUME Inv, [Next]_vars PROVE Inv'
  OBVIOUS
<1> USE DEF Inv
<1>1. TypeOK' /\ PhasesAreExclusive' /\ InFlightIsPending'
  BY TypeStep, PhasesStep, PendingStep
<1>2. SingleOwner'
  <2>1. OwnersApart'
    BY SingleOwnerParts, ApartStep
  <2>2. Disjoint(garbage, Owned)'
    BY DisjointStep
  <2>3. QED
    BY <2>1, <2>2 DEF SingleOwner, Disjoint, OwnersApart
<1>3. ReadersAreCovered'
  <2>1. PendingCovered'
    BY ReadersParts, PendingCoveredStep
  <2>2. RecordedCovered'
    BY <1>1, ReadersParts, RecordedCoveredStep
  <2>3. QED
    BY <2>1, <2>2 DEF ReadersAreCovered, PendingCovered, RecordedCovered, Covered
<1>4. SlotFencesCoverUses' /\ LastFenceIsAwaited'
  BY SlotFencesStep, LastFenceStep
<1>5. QED
  BY <1>1, <1>2, <1>3, <1>4

\* Every variable keeps its type.
THEOREM TypeCorrect == Spec => []TypeOK
<1>1. Inv => TypeOK
  BY DEF Inv
<1>2. QED
  BY InvInit, InvStep, <1>1, PTL DEF Spec

\* No object is released while a pending or a recorded command list reads it.
THEOREM ReleaseIsSafe == Spec => []NoUseAfterRelease
<1>1. Inv => NoUseAfterRelease
  BY FreeIsUnread DEF Inv, NoUseAfterRelease
<1>2. QED
  BY InvInit, InvStep, <1>1, PTL DEF Spec

\* A frame never writes the memory of a slot that the GPU still reads.
THEOREM FramesAreExclusive == Spec => []FrameMemoryExclusive
<1>1. Inv => FrameMemoryExclusive
  <2> SUFFICES ASSUME Inv, frameActive PROVE FrameMemoryExclusive
    BY DEF FrameMemoryExclusive
  <2> USE DEF Inv
  <2>1. slotLastUse[activeSlot] <= completed
    BY DEF SlotFencesCoverUses
  <2>2. ASSUME NEW v \in Fences, slotBuffer[activeSlot] \in inFlight[v] PROVE FALSE
    <3>1. slotBuffer[activeSlot] # None
      BY <2>2 DEF TypeOK
    <3>2. v <= slotLastUse[activeSlot] /\ completed < v
      BY <2>2, <3>1 DEF SlotFencesCoverUses, InFlightIsPending, TypeOK
    <3>3. QED
      BY <2>1, <3>2 DEF TypeOK, Fences
  <2>3. QED
    BY <2>1, <2>2 DEF FrameMemoryExclusive
<1>2. QED
  BY InvInit, InvStep, <1>1, PTL DEF Spec

\* No object has two owners.
THEOREM OwnersAreSingle == Spec => []SingleOwner
<1>1. Inv => SingleOwner
  BY DEF Inv
<1>2. QED
  BY InvInit, InvStep, <1>1, PTL DEF Spec

\* Every deferred release is due by a fence that begin_frame waits for.
THEOREM GarbageIsCollected == Spec => []GarbageTiedToFrame
<1>1. Inv => GarbageTiedToFrame
  <2> SUFFICES ASSUME Inv, cpu = "idle", NEW v \in Fences \ {0}, garbage[v] # {}
               PROVE  v <= completed \/ \E f \in Slots : slotFence[f] >= v
    BY DEF GarbageTiedToFrame
  <2>1. completed \in Int /\ submitted \in Int /\ v \in Int
    BY DEF Inv, TypeOK, Fences
  <2>2. v <= submitted
    BY DEF Inv, LastFenceIsAwaited
  <2>3. CASE submitted <= completed
    BY <2>1, <2>2, <2>3
  <2>4. CASE \E f \in Slots : slotFence[f] = submitted
    BY <2>1, <2>2, <2>4
  <2>5. QED
    BY <2>3, <2>4 DEF Inv, LastFenceIsAwaited
<1>2. QED
  BY InvInit, InvStep, <1>1, PTL DEF Spec

-----------------------------------------------------------------------------
USE PageAssumption, SizeAssumption

Rect == [page : Nat, x : Nat, y : Nat]

\* The size of a raster is a pair of positive numbers.
LEMMA SizeIsPositive ==
  ASSUME NEW k \in Rasters
  PROVE  SizeOf[k].w \in Nat \ {0} /\ SizeOf[k].h \in Nat \ {0}
  OBVIOUS

\* alloc_page_rect moves a cursor to another cursor, and keeps what was
\* behind it behind it, whether the rectangle fits or not.
LEMMA WrapKeepsBehind ==
  ASSUME NEW c \in Atlas!Cursor, NEW k \in Rasters
  PROVE  /\ Atlas!Wrap(c, k) \in Atlas!Cursor
         /\ \A l \in Rasters, e \in Rect : Atlas!Behind(e, l, c) => Atlas!Behind(e, l, Atlas!Wrap(c, k))
  <1>1. CASE ~Atlas!TooLarge(k) /\ c.x + SizeOf[k].w > Width
    <2>1. Atlas!Wrap(c, k) = [x |-> 0, y |-> c.y + c.row, row |-> 0]
      BY <1>1 DEF Atlas!Wrap
    <2>. QED  BY <2>1, SizeIsPositive DEF Atlas!Cursor, Atlas!Behind, Rect
  <1>2. CASE ~(~Atlas!TooLarge(k) /\ c.x + SizeOf[k].w > Width)
    <2>1. Atlas!Wrap(c, k) = c
      BY <1>2 DEF Atlas!Wrap
    <2>. QED  BY <2>1
  <1>. QED  BY <1>1, <1>2

\* A rectangle that fits is handed out at the cursor, inside the page and
\* clear of everything behind the cursor; afterwards it is behind it too.
LEMMA AdvancePlaces ==
  ASSUME NEW c \in Atlas!Cursor, NEW k \in Rasters, Atlas!Fits(c, k),
         NEW f \in Rect, f.x = Atlas!Wrap(c, k).x, f.y = Atlas!Wrap(c, k).y
  PROVE  /\ Atlas!Advance(c, k) \in Atlas!Cursor
         /\ f.x + SizeOf[k].w <= Width /\ f.y + SizeOf[k].h <= Height
         /\ Atlas!Behind(f, k, Atlas!Advance(c, k))
         /\ \A l \in Rasters, e \in Rect : Atlas!Behind(e, l, c) =>
              /\ Atlas!Behind(e, l, Atlas!Advance(c, k))
              /\ \/ e.x + SizeOf[l].w <= f.x
                 \/ e.y + SizeOf[l].h <= f.y
  <1>. DEFINE d == Atlas!Wrap(c, k)
  <1>1. /\ d \in Atlas!Cursor
        /\ \A l \in Rasters, e \in Rect : Atlas!Behind(e, l, c) => Atlas!Behind(e, l, d)
    BY WrapKeepsBehind
  <1>2. f.x + SizeOf[k].w <= Width /\ f.y + SizeOf[k].h <= Height
    BY SizeIsPositive DEF Atlas!Fits, Atlas!Wrap, Atlas!TooLarge, Atlas!Cursor, Rect
  <1>. HIDE DEF d
  <1>3. f.x = d.x /\ f.y = d.y
    BY DEF d
  <1>4. Atlas!Advance(c, k) = [x |-> d.x + SizeOf[k].w, y |-> d.y, row |-> Atlas!Taller(d.row, SizeOf[k].h)]
    BY DEF Atlas!Advance, d
  <1>5. /\ Atlas!Taller(d.row, SizeOf[k].h) \in Nat
        /\ Atlas!Taller(d.row, SizeOf[k].h) >= d.row
        /\ Atlas!Taller(d.row, SizeOf[k].h) >= SizeOf[k].h
    BY <1>1, SizeIsPositive DEF Atlas!Taller, Atlas!Cursor
  <1>6. Atlas!Advance(c, k) \in Atlas!Cursor
    BY <1>1, <1>4, <1>5, SizeIsPositive DEF Atlas!Cursor
  <1>7. Atlas!Behind(f, k, Atlas!Advance(c, k))
    BY <1>1, <1>3, <1>4, <1>5, SizeIsPositive DEF Atlas!Cursor, Atlas!Behind, Rect
  <1>8. ASSUME NEW l \in Rasters, NEW e \in Rect, Atlas!Behind(e, l, c)
        PROVE  /\ Atlas!Behind(e, l, Atlas!Advance(c, k))
               /\ e.x + SizeOf[l].w <= f.x \/ e.y + SizeOf[l].h <= f.y
    <2>1. Atlas!Behind(e, l, d)
      BY <1>1, <1>8
    <2>. QED  BY <2>1, <1>1, <1>3, <1>4, <1>5, SizeIsPositive DEF Atlas!Cursor, Atlas!Behind, Rect
  <1>. QED  BY <1>2, <1>6, <1>7, <1>8

-----------------------------------------------------------------------------
\* The invariant holds initially.
LEMMA AtlasInitInv == Atlas!Init => Atlas!Inv
  <1>. SUFFICES ASSUME Atlas!Init PROVE Atlas!Inv
    OBVIOUS
  <1>1. Atlas!TypeOK
    BY DEF Atlas!Init, Atlas!TypeOK, Atlas!NewPage, Atlas!NoEntry, Atlas!Cursor
  <1>2. \A k \in Rasters : ~Atlas!Stored(k)
    BY DEF Atlas!Init, Atlas!Stored, Atlas!NoEntry
  <1>. QED  BY <1>1, <1>2 DEF Atlas!Inv, Atlas!NoOverlap, Atlas!InBounds, Atlas!BehindCursor

\* A key that gets a rectangle of the first page that fits.
LEMMA EnsureFitsInv ==
  ASSUME Atlas!Inv, NEW k \in Rasters, Atlas!EnsureFits(k)
  PROVE  Atlas!Inv'
  <1>. USE DEF Atlas!Inv
  <1>1. PICK i \in DOMAIN pages :
          /\ Atlas!FirstFit(k, i)
          /\ pages' = Atlas!PagesAfter(k, i)
          /\ entry' = [entry EXCEPT ![k] = [page |-> i, x |-> Atlas!Wrap(pages[i], k).x,
                                                        y |-> Atlas!Wrap(pages[i], k).y]]
    BY DEF Atlas!EnsureFits
  <1>. DEFINE f == [page |-> i, x |-> Atlas!Wrap(pages[i], k).x, y |-> Atlas!Wrap(pages[i], k).y]
  <1>2. /\ DOMAIN pages = 1..Len(pages) /\ Len(pages) \in Nat
        /\ \A j \in DOMAIN pages : pages[j] \in Atlas!Cursor
    BY DEF Atlas!TypeOK
  <1>3. f \in Rect /\ f.page = i /\ f.page # 0
    BY <1>2, WrapKeepsBehind DEF Rect, Atlas!Cursor
  <1>4. f.x = Atlas!Wrap(pages[i], k).x /\ f.y = Atlas!Wrap(pages[i], k).y
    OBVIOUS
  <1>5. entry' = [entry EXCEPT ![k] = f]
    BY <1>1
  <1>. HIDE DEF f
  <1>6. /\ Atlas!Advance(pages[i], k) \in Atlas!Cursor
        /\ f.x + SizeOf[k].w <= Width /\ f.y + SizeOf[k].h <= Height
        /\ Atlas!Behind(f, k, Atlas!Advance(pages[i], k))
        /\ \A l \in Rasters, e \in Rect : Atlas!Behind(e, l, pages[i]) =>
             /\ Atlas!Behind(e, l, Atlas!Advance(pages[i], k))
             /\ e.x + SizeOf[l].w <= f.x \/ e.y + SizeOf[l].h <= f.y
    BY <1>1, <1>2, <1>3, <1>4, AdvancePlaces DEF Atlas!FirstFit
  <1>7. /\ pages' \in Seq(Atlas!Cursor) /\ DOMAIN pages' = DOMAIN pages
        /\ pages'[i] = Atlas!Advance(pages[i], k)
        /\ \A j \in DOMAIN pages : j # i => pages'[j] \in {pages[j], Atlas!Wrap(pages[j], k)}
    <2>1. \A j \in DOMAIN pages : Atlas!PagesAfter(k, i)[j] \in Atlas!Cursor
      BY <1>2, <1>6, WrapKeepsBehind DEF Atlas!PagesAfter
    <2>2. Atlas!PagesAfter(k, i) \in [1..Len(pages) -> Atlas!Cursor]
      BY <2>1, <1>2 DEF Atlas!PagesAfter
    <2>3. Atlas!PagesAfter(k, i) \in Seq(Atlas!Cursor)
      BY <2>2, <1>2
    <2>. QED  BY <2>3, <1>1, <1>2 DEF Atlas!PagesAfter
  <1>8. /\ entry \in [Rasters -> Rect] /\ entry' \in [Rasters -> Rect]
        /\ entry'[k] = f /\ \A l \in Rasters : l # k => entry'[l] = entry[l]
        /\ ~Atlas!Stored(k)
    BY <1>3, <1>5 DEF Atlas!TypeOK, Rect, Atlas!EnsureFits, Atlas!Stored, Atlas!NoEntry
  <1>9. Atlas!TypeOK'
    BY <1>7, <1>8 DEF Atlas!TypeOK, Rect, Atlas!EnsureFits
  <1>10. Atlas!InBounds'
    BY <1>2, <1>3, <1>6, <1>7, <1>8 DEF Atlas!InBounds, Atlas!Stored
  <1>11. ASSUME NEW l \in Rasters, Atlas!Stored(l)'
         PROVE  Atlas!Behind(entry'[l], l, pages'[entry'[l].page])
    <2>1. CASE l = k
      BY <2>1, <1>3, <1>6, <1>7, <1>8
    <2>2. CASE l # k
      <3>1. /\ entry'[l] = entry[l] /\ entry[l] \in Rect /\ entry[l].page \in DOMAIN pages
            /\ Atlas!Behind(entry[l], l, pages[entry[l].page])
        BY <2>2, <1>8, <1>11 DEF Atlas!Stored, Atlas!InBounds, Atlas!BehindCursor
      <3>2. CASE entry[l].page = i
        BY <3>1, <3>2, <1>6, <1>7
      <3>3. CASE entry[l].page # i
        <4>1. Atlas!Behind(entry[l], l, Atlas!Wrap(pages[entry[l].page], k))
          BY <3>1, <1>2, WrapKeepsBehind
        <4>. QED  BY <3>1, <3>3, <4>1, <1>7
      <3>. QED  BY <3>2, <3>3
    <2>. QED  BY <2>1, <2>2
  <1>12. Atlas!BehindCursor'
    BY <1>11 DEF Atlas!BehindCursor
  <1>13. \A l \in Rasters : l # k /\ Atlas!Stored(l)' /\ entry'[l].page = i =>
           entry[l].x + SizeOf[l].w <= f.x \/ entry[l].y + SizeOf[l].h <= f.y
    BY <1>6, <1>8 DEF Atlas!Stored, Atlas!BehindCursor
  <1>14. Atlas!NoOverlap'
    BY <1>3, <1>8, <1>13 DEF Atlas!NoOverlap, Atlas!Stored
  <1>. QED  BY <1>9, <1>10, <1>12, <1>14

\* A key no page has room for: a page is added, and nothing is stored.
LEMMA EnsureCreatesPageInv ==
  ASSUME Atlas!Inv, NEW k \in Rasters, Atlas!EnsureCreatesPage(k)
  PROVE  Atlas!Inv'
  <1>. USE DEF Atlas!Inv
  <1>. DEFINE new == IF Atlas!TooLarge(k) THEN Atlas!NewPage ELSE Atlas!Advance(Atlas!NewPage, k)
              wrapped == [j \in DOMAIN pages |-> Atlas!Wrap(pages[j], k)]
  <1>1. /\ DOMAIN pages = 1..Len(pages) /\ Len(pages) \in Nat
        /\ \A j \in DOMAIN pages : pages[j] \in Atlas!Cursor
    BY DEF Atlas!TypeOK
  <1>2. Atlas!NewPage \in Atlas!Cursor
    BY DEF Atlas!NewPage, Atlas!Cursor
  <1>3. new \in Atlas!Cursor
    <2>1. Atlas!Wrap(Atlas!NewPage, k) \in Atlas!Cursor
      BY <1>2, WrapKeepsBehind
    <2>2. Atlas!Advance(Atlas!NewPage, k) \in Atlas!Cursor
      BY <2>1, SizeIsPositive DEF Atlas!Advance, Atlas!Taller, Atlas!Cursor
    <2>. QED  BY <1>2, <2>2
  <1>4. \A j \in DOMAIN pages : Atlas!Wrap(pages[j], k) \in Atlas!Cursor
    BY <1>1, WrapKeepsBehind
  <1>5. wrapped \in Seq(Atlas!Cursor) /\ Len(wrapped) = Len(pages)
    BY <1>1, <1>4
  <1>6. pages' = Append(wrapped, new) /\ UNCHANGED entry
    BY DEF Atlas!EnsureCreatesPage
  <1>. HIDE DEF new
  <1>7. \A j \in DOMAIN pages : wrapped[j] = Atlas!Wrap(pages[j], k)
    OBVIOUS
  <1>. HIDE DEF wrapped
  <1>8. /\ pages' \in Seq(Atlas!Cursor)
        /\ \A j \in DOMAIN pages : j \in DOMAIN pages' /\ pages'[j] = Atlas!Wrap(pages[j], k)
    BY <1>1, <1>3, <1>5, <1>6, <1>7, AppendProperties
  <1>9. Atlas!TypeOK'
    BY <1>8, <1>6 DEF Atlas!TypeOK, Atlas!EnsureCreatesPage
  <1>10. Atlas!InBounds'
    BY <1>6, <1>8 DEF Atlas!InBounds, Atlas!Stored
  <1>11. Atlas!BehindCursor'
    <2>1. \A l \in Rasters : entry[l] \in Rect
      BY DEF Atlas!TypeOK, Rect
    <2>. QED  BY <2>1, <1>1, <1>6, <1>8, WrapKeepsBehind DEF Atlas!BehindCursor, Atlas!InBounds, Atlas!Stored
  <1>12. Atlas!NoOverlap'
    BY <1>6 DEF Atlas!NoOverlap, Atlas!Stored
  <1>. QED  BY <1>9, <1>10, <1>11, <1>12

\* Nothing is stored after clear_atlas and destroy_atlas.
LEMMA EmptyInv ==
  ASSUME Atlas!Inv, Atlas!Clear \/ Atlas!Destroy
  PROVE  Atlas!Inv'
  <1>1. pages' \in Seq(Atlas!Cursor)
    <2>1. CASE Atlas!Clear
      <3>1. Atlas!NewPage \in Atlas!Cursor
        BY DEF Atlas!NewPage, Atlas!Cursor
      <3>2. pages \in Seq(Atlas!Cursor) /\ pages' = [i \in DOMAIN pages |-> Atlas!NewPage]
        BY <2>1 DEF Atlas!Clear, Atlas!Inv, Atlas!TypeOK
      <3>3. DOMAIN pages = 1..Len(pages) /\ Len(pages) \in Nat
        BY <3>2
      <3>4. pages' \in [1..Len(pages) -> Atlas!Cursor]
        BY <3>1, <3>2, <3>3
      <3>. QED  BY <3>3, <3>4
    <2>2. CASE Atlas!Destroy
      BY <2>2 DEF Atlas!Destroy
    <2>. QED  BY <2>1, <2>2
  <1>2. entry' = [l \in Rasters |-> Atlas!NoEntry] /\ status' \in {"open", "destroyed"}
    BY DEF Atlas!Clear, Atlas!Destroy
  <1>3. Atlas!TypeOK'
    BY <1>1, <1>2 DEF Atlas!TypeOK, Atlas!NoEntry
  <1>4. \A l \in Rasters : ~Atlas!Stored(l)'
    BY <1>2 DEF Atlas!Stored, Atlas!NoEntry
  <1>. QED  BY <1>3, <1>4 DEF Atlas!Inv, Atlas!NoOverlap, Atlas!InBounds, Atlas!BehindCursor

\* Inv is an inductive invariant of the atlas.
THEOREM AtlasInvariance == Atlas!Spec => []Atlas!Inv
  <1>1. Atlas!Inv /\ UNCHANGED Atlas!vars => Atlas!Inv'
    BY DEF Atlas!Inv, Atlas!vars, Atlas!TypeOK, Atlas!NoOverlap, Atlas!InBounds, Atlas!BehindCursor, Atlas!Behind, Atlas!Stored
  <1>2. Atlas!Inv /\ [Atlas!Next]_Atlas!vars => Atlas!Inv'
    <2>. HIDE DEF Atlas!Inv
    <2>. QED  BY <1>1, EnsureFitsInv, EnsureCreatesPageInv, EmptyInv DEF Atlas!Next
  <1>. QED  BY AtlasInitInv, <1>2, PTL DEF Atlas!Spec

\* Cursors, entries and the status stay in their sets.
THEOREM AtlasTypeCorrect == Atlas!Spec => []Atlas!TypeOK
  BY AtlasInvariance, PTL DEF Atlas!Inv

\* Two glyphs or masks of one page never share a texel.
THEOREM RectanglesAreDisjoint == Atlas!Spec => []NoOverlap
  BY AtlasInvariance, PTL DEF Atlas!Inv, NoOverlap

\* Every rectangle lies inside a page that exists.
THEOREM RectanglesAreInBounds == Atlas!Spec => []Atlas!InBounds
  BY AtlasInvariance, PTL DEF Atlas!Inv

\* What alloc_page_rect hands out next is free.
THEOREM CursorIsAhead == Atlas!Spec => []Atlas!BehindCursor
  BY AtlasInvariance, PTL DEF Atlas!Inv
=============================================================================

