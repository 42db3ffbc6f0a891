-------------------------- MODULE Documents_proofs --------------------------
(***************************************************************************)
(* Theorems about what the code editor shows: the documents of its panes   *)
(* (EditorPanes), and the results of a language server (LspResults).        *)
(*                                                                         *)
(* Panes: PanesAgree alone is not inductive. A handler works on one record *)
(* of the application, App: it puts a document into the editor, brings the *)
(* panes of that file into line, stores it in the list.  Tight says what   *)
(* holds of that record against the disk and the clock between handlers,   *)
(* Loose what is left of it inside of one; every helper has a lemma that   *)
(* says which of the two it needs and which it gives.                      *)
(*                                                                         *)
(* Results: AnswersActedOn counts what was done with each request.  It     *)
(* needs that a request is either asked or answered by one result, and     *)
(* that a result that is still new has not been acted on (Sound).           *)
(***************************************************************************)
EXTENDS MCDocuments, SequenceTheorems, FiniteSetTheorems, WellFoundedInduction, TLAPS

-----------------------------------------------------------------------------
(* Helpers *)

\* A set of numbers that is not empty has a least one (Min of the library).
LEMMA MinIsIn ==
  ASSUME NEW S \in SUBSET Nat, S # {}
  PROVE  Min(S) \in S
<1>1. PICK n \in S : TRUE
  OBVIOUS
<1> DEFINE T == {0..m : m \in {k \in S : k <= n}}
           R == StrictSubsetOrdering(0..n)
<1>2. IsWellFoundedOn(R, SUBSET (0..n))
  <2>1. IsFiniteSet(0..n)
    BY FS_Interval
  <2>2. QED
    BY <2>1, FS_StrictSubsetOrderingWellFounded, FS_FiniteSubsetsOfFinite
<1>3. T \subseteq SUBSET (0..n) /\ T # {}
  BY <1>1
<1>4. PICK t \in T : \A u \in T : ~(<<u, t>> \in R)
  <2> HIDE DEF R, T
  <2> QED BY <1>2, <1>3, WFMin
<1>5. PICK m \in S : m <= n /\ t = 0..m
  BY <1>4
<1>6. \A k \in S : m <= k
  <2>1. SUFFICES ASSUME NEW k \in S, k < m PROVE FALSE
    OBVIOUS
  <2>2. 0..k \in T /\ 0..k \in SUBSET (0..n) /\ 0..m \in SUBSET (0..n)
    BY <1>5, <2>1
  <2>3. 0..k \subseteq 0..m /\ 0..k # 0..m
    BY <2>1
  <2>4. <<0..k, t>> \in R
    BY <1>5, <2>2, <2>3 DEF StrictSubsetOrdering
  <2>5. QED
    BY <1>4, <2>2, <2>4
<1>7. QED
  BY <1>6 DEF Min

\* The list of recent files stays one of files when a file is closed.
LEMMA RemoveFirstType ==
  ASSUME NEW S, NEW s \in Seq(S), NEW e
  PROVE  RemoveFirst(s, e) \in Seq(S)
<1> DEFINE I == {i \in 1..Len(s) : s[i] = e}
           i == Min(I)
<1>1. CASE \E j \in 1..Len(s) : s[j] = e
  <2>1. I # {} /\ I \in SUBSET Nat
    BY <1>1
  <2>2. i \in 1..Len(s)
    BY <2>1, MinIsIn
  <2>3. RemoveFirst(s, e) = SubSeq(s, 1, i - 1) \o SubSeq(s, i + 1, Len(s))
    BY <1>1, <2>1 DEF RemoveFirst, RemoveAt, SelectInSeq
  <2> HIDE DEF i
  <2>4. SubSeq(s, 1, i - 1) \in Seq(S) /\ SubSeq(s, i + 1, Len(s)) \in Seq(S)
    <3>1. Len(s) \in Nat /\ \A j \in 1..Len(s) : s[j] \in S
      BY LenProperties, ElementOfSeq
    <3>2. QED
      BY <2>2, <3>1, SubSeqProperties
  <2>5. QED
    BY <2>3, <2>4, ConcatProperties
<1>2. CASE ~\E j \in 1..Len(s) : s[j] = e
  BY <1>2 DEF RemoveFirst
<1>3. QED
  BY <1>1, <1>2

-----------------------------------------------------------------------------
(* The invariant of the panes *)

\* The types with the clock for the texts: none is from later than now.
DocUpTo(c) ==
    [file: Paths, text: 1..c, saved: 1..c, undo: Seq(1..c), redo: Seq(1..c),
     rev: 0..(Revisions - 1), stamp: 0..c, dirty: BOOLEAN, pending: BOOLEAN,
     deleted: BOOLEAN]
DiskUpTo(c) == [Paths -> [text: 1..c, stamp: 0..c]]
AppUpTo(c) ==
    [ed: DocUpTo(c), panes: [PaneIds -> DocUpTo(c) \cup {Here, Shut}], focus: PaneIds,
     opened: [Paths -> DocUpTo(c) \cup {NotOpen}], recent: Seq(Paths),
     intent: {"NONE", "BUFFER", "APP"}, closeReq: BOOLEAN, confirmed: BOOLEAN]

\* A document by itself: the flag is true, and it was read no later than the disk is.
Good(d, D, c) ==
    /\ d \in DocUpTo(c)
    /\ d.dirty <=> d.text # d.saved
    /\ d.stamp <= D[d.file].stamp \/ D[d.file].stamp = 0
\* The listed copy o of a file that a pane shows as d is the older of the two.
Behind(o, d) == o.stamp <= d.stamp \/ d.stamp = 0

\* The panes among themselves and with the list. The document in the editor is left
\* out: a handler that has just put another one there keeps the rest.
Loose(s, D, c) ==
    /\ s \in AppUpTo(c)
    /\ s.panes[s.focus] = Here
    /\ \A p \in Back(s) : Good(s.panes[p], D, c)
    /\ \A f \in Listed(s) : s.opened[f].file = f /\ Good(s.opened[f], D, c)
    /\ \A p, q \in Back(s) : s.panes[p].file = s.panes[q].file => s.panes[p] = s.panes[q]
    /\ \A p \in Back(s) : s.panes[p].file \in Listed(s) =>
           Behind(s.opened[s.panes[p].file], s.panes[p])

\* The document in the editor may be shown to the panes and put in the list.
Leads(s, D, c) ==
    /\ Good(s.ed, D, c)
    /\ s.ed.file \in Listed(s) => Behind(s.opened[s.ed.file], s.ed)

\* Between frames the panes of the editor's file also have the editor's document.
Tight(s, D, c) ==
    /\ Loose(s, D, c)
    /\ Leads(s, D, c)
    /\ \A p \in Back(s) : s.panes[p].file = s.ed.file => s.panes[p] = s.ed

\* The inductive invariant of EditorPanes.
PanesInv == /\ Tight(App, disk, clock)
            /\ disk \in DiskUpTo(clock)
            /\ clock \in Texts

\* A document is none of the marks for a pane or a list without one.
LEMMA Absent ==
  ASSUME NEW c \in Texts, NEW d \in DocUpTo(c)
  PROVE  d \in Doc /\ d # Shut /\ d # Here /\ d # NotOpen
<1>1. 1..c \subseteq Texts /\ 0..c \subseteq 0..(MaxClock + 1)
  BY PanesAssumption DEF Texts
<1>2. d.undo \in Seq(Texts) /\ d.redo \in Seq(Texts)
  BY <1>1, SeqMonotonic DEF DocUpTo
<1>3. d \in Doc
  BY <1>1, <1>2 DEF DocUpTo, Doc
<1>4. QED
  BY <1>3, PanesAssumption

-----------------------------------------------------------------------------
(* The helpers of the handlers: each takes panes that hold together to such *)

\* sync_current_file_to_matching_panes makes whole what a change of the editor left.
LEMMA SyncMatchingTight ==
  ASSUME NEW D, NEW c \in Texts, NEW s, Loose(s, D, c), Leads(s, D, c)
  PROVE  /\ Tight(SyncMatching(s), D, c)
         /\ Back(SyncMatching(s)) = Back(s)
<1> DEFINE y == SyncMatching(s)
           q == [p \in PaneIds |-> IF p \in Showing(s, s.ed.file) THEN s.ed ELSE s.panes[p]]
<1>1. s \in AppUpTo(c) /\ s.ed \in DocUpTo(c)
  BY DEF Loose, Leads, Good
<1>2. q \in [PaneIds -> DocUpTo(c) \cup {Here, Shut}]
  BY <1>1 DEF AppUpTo
<1>3. y = [s EXCEPT !.panes = q]
  BY DEF SyncMatching
<1> HIDE DEF y, q
<1>4. /\ y \in AppUpTo(c) /\ y.panes = q /\ y.ed = s.ed /\ y.focus = s.focus
      /\ y.opened = s.opened
  BY <1>1, <1>2, <1>3 DEF AppUpTo
<1>5. Showing(s, s.ed.file) \subseteq Back(s)
  BY DEF Showing
<1>6. \A p \in PaneIds : y.panes[p] = IF p \in Showing(s, s.ed.file) THEN s.ed ELSE s.panes[p]
  BY <1>4 DEF q
<1>7. s.ed # Shut
  BY <1>1, Absent
<1>8. Back(y) = Back(s)
  BY <1>4, <1>5, <1>6, <1>7 DEF Back
<1>9. \A p \in Back(y) : \/ s.panes[p].file = s.ed.file /\ y.panes[p] = s.ed
                         \/ s.panes[p].file # s.ed.file /\ y.panes[p] = s.panes[p]
  BY <1>6, <1>8 DEF Showing, Back
<1>10. y.panes[y.focus] = Here
  BY <1>1, <1>4, <1>5, <1>6 DEF Loose, AppUpTo, Back
<1>11. Listed(y) = Listed(s)
  BY <1>4 DEF Listed
<1>12. Loose(y, D, c)
  BY <1>4, <1>8, <1>9, <1>10, <1>11 DEF Loose, Leads
<1>13. QED
  BY <1>4, <1>8, <1>9, <1>11, <1>12 DEF Tight, Leads, y

\* Panes that differ from the editor without a new revision have its text.
SameRevisionSameText(s) ==
    \A p \in Showing(s, s.ed.file) : s.panes[p].rev = s.ed.rev => s.panes[p].text = s.ed.text

LEMMA SyncSharedMatches ==
  ASSUME NEW c, NEW s \in AppUpTo(c), SameRevisionSameText(s)
  PROVE  SyncShared(s) = SyncMatching(s)
<1>1. \A p \in Showing(s, s.ed.file) :
        s.panes[p].rev = s.ed.rev => [s.ed EXCEPT !.text = s.panes[p].text] = s.ed
  BY DEF SameRevisionSameText, AppUpTo, DocUpTo
<1>2. QED
  BY <1>1 DEF SyncShared, SyncMatching

LEMMA SyncMatchingSame ==
  ASSUME NEW D, NEW c, NEW s, Tight(s, D, c)
  PROVE  SyncMatching(s) = s
<1> DEFINE q == [p \in PaneIds |-> IF p \in Showing(s, s.ed.file) THEN s.ed ELSE s.panes[p]]
<1>1. s \in AppUpTo(c) /\ s.panes \in [PaneIds -> DocUpTo(c) \cup {Here, Shut}]
  BY DEF Tight, Loose, AppUpTo
<1>2. q = s.panes
  BY <1>1 DEF Tight, Showing
<1>3. SyncMatching(s) = [s EXCEPT !.panes = q]
  BY DEF SyncMatching
<1>4. [s EXCEPT !.panes = s.panes] = s
  BY <1>1 DEF AppUpTo
<1>5. QED
  BY <1>2, <1>3, <1>4

LEMMA SyncSharedSame ==
  ASSUME NEW D, NEW c, NEW s, Tight(s, D, c)
  PROVE  SyncShared(s) = s
<1>1. s \in AppUpTo(c) /\ SameRevisionSameText(s)
  BY DEF Tight, Loose, SameRevisionSameText, Showing
<1>2. QED
  BY <1>1, SyncSharedMatches, SyncMatchingSame

\* Another document in the editor, the panes and the list as they were.
LEMMA LoadTight ==
  ASSUME NEW D, NEW c, NEW s, Loose(s, D, c),
         NEW y \in AppUpTo(c), y.panes = s.panes, y.focus = s.focus, y.opened = s.opened,
         Leads(y, D, c),
         \A p \in Back(s) : s.panes[p].file = y.ed.file => s.panes[p] = y.ed
  PROVE  Tight(y, D, c)
<1>1. Back(y) = Back(s) /\ Listed(y) = Listed(s)
  BY DEF Back, Listed
<1>2. Loose(y, D, c)
  BY <1>1 DEF Loose
<1>3. QED
  BY <1>1, <1>2 DEF Tight

LEMMA FlagsTight ==
  ASSUME NEW D, NEW c, NEW s, Tight(s, D, c),
         NEW y \in AppUpTo(c), y.ed = s.ed, y.panes = s.panes, y.focus = s.focus,
         y.opened = s.opened
  PROVE  Tight(y, D, c)
<1>1. Leads(y, D, c)
  BY DEF Tight, Leads, Listed
<1>2. QED
  BY <1>1, LoadTight DEF Tight

LEMMA TouchTight ==
  ASSUME NEW D, NEW c, NEW s, Tight(s, D, c), NEW f \in Paths
  PROVE  Tight(Touch(s, f), D, c)
<1> DEFINE y == Touch(s, f)
           r == Append(RemoveFirst(s.recent, f), f)
<1>1. s \in AppUpTo(c)
  BY DEF Tight, Loose
<1>2. r \in Seq(Paths)
  BY <1>1, RemoveFirstType, AppendProperties DEF AppUpTo
<1>3. y = [s EXCEPT !.recent = r]
  BY DEF Touch
<1> HIDE DEF y, r
<1>4. y \in AppUpTo(c) /\ y.ed = s.ed /\ y.panes = s.panes /\ y.focus = s.focus /\ y.opened = s.opened
  BY <1>1, <1>2, <1>3 DEF AppUpTo
<1>5. QED
  BY <1>4, FlagsTight DEF y

\* The list changes at one place only.
LEMMA ListTight ==
  ASSUME NEW D, NEW c \in Texts, NEW s, Tight(s, D, c), NEW f \in Paths,
         NEW y \in AppUpTo(c), y.ed = s.ed, y.panes = s.panes, y.focus = s.focus,
         \A g \in Paths \ {f} : y.opened[g] = s.opened[g],
         \/ y.opened[f] = NotOpen
         \/ /\ y.opened[f].file = f
            /\ Good(y.opened[f], D, c)
            /\ f = s.ed.file => Behind(y.opened[f], s.ed)
            /\ \A p \in Back(s) : s.panes[p].file = f => Behind(y.opened[f], s.panes[p])
  PROVE  Tight(y, D, c)
<1>1. Back(y) = Back(s)
  BY DEF Back
<1>2. \A g \in Listed(y) : g \in Listed(s) \/ g = f
  BY DEF Listed
<1>3. f \in Listed(y) => y.opened[f] # NotOpen
  BY DEF Listed
<1>4. Loose(y, D, c)
  <2>1. \A g \in Listed(y) : y.opened[g].file = g /\ Good(y.opened[g], D, c)
    BY <1>2, <1>3 DEF Tight, Loose, Listed
  <2>2. \A p \in Back(y) : y.panes[p].file \in Listed(y) =>
           Behind(y.opened[y.panes[p].file], y.panes[p])
    BY <1>1, <1>2, <1>3 DEF Tight, Loose, Listed
  <2>3. QED
    BY <1>1, <2>1, <2>2 DEF Tight, Loose
<1>5. Leads(y, D, c)
  BY <1>2, <1>3 DEF Tight, Leads, Listed
<1>6. QED
  BY <1>1, <1>4, <1>5 DEF Tight

LEMMA StoreTight ==
  ASSUME NEW D, NEW c \in Texts, NEW s, Tight(s, D, c)
  PROVE  Tight(StoreCurrent(s), D, c)
<1> DEFINE y == StoreCurrent(s)
           d == [s.ed EXCEPT !.rev = 0]
           f == s.ed.file
<1>1. s \in AppUpTo(c) /\ s.ed \in DocUpTo(c) /\ f \in Paths
  BY DEF Tight, Loose, AppUpTo, DocUpTo
<1>2. d \in DocUpTo(c) /\ d.stamp = s.ed.stamp /\ d.file = f /\ d.dirty = s.ed.dirty
      /\ d.text = s.ed.text /\ d.saved = s.ed.saved
  <2>1. 0 \in 0..(Revisions - 1)
    BY PanesAssumption
  <2>2. d \in DocUpTo(c)
    BY <1>1, <2>1 DEF DocUpTo
  <2>3. QED
    BY <1>1, <2>2 DEF DocUpTo
<1> HIDE DEF d
<1>3. y = [s EXCEPT !.opened[f] = d]
  BY DEF StoreCurrent, d
<1> HIDE DEF y
<1>4. /\ y \in AppUpTo(c) /\ y.ed = s.ed /\ y.panes = s.panes /\ y.focus = s.focus
      /\ y.opened[f] = d /\ \A g \in Paths \ {f} : y.opened[g] = s.opened[g]
  BY <1>1, <1>2, <1>3 DEF AppUpTo
<1>5. Good(d, D, c)
  BY <1>2 DEF Tight, Leads, Good
<1>6. Behind(d, s.ed) /\ \A p \in Back(s) : s.panes[p].file = f => Behind(d, s.panes[p])
  BY <1>1, <1>2 DEF Tight, Behind, DocUpTo
<1>7. QED
  BY <1>1, <1>2, <1>4, <1>5, <1>6, ListTight DEF y

LEMMA ForgetTight ==
  ASSUME NEW D, NEW c \in Texts, NEW s, Tight(s, D, c), NEW f \in Paths
  PROVE  Tight(Forget(s, f), D, c)
<1> DEFINE y == Forget(s, f)
           r == RemoveFirst(s.recent, f)
<1>1. s \in AppUpTo(c)
  BY DEF Tight, Loose
<1>2. r \in Seq(Paths)
  BY <1>1, RemoveFirstType DEF AppUpTo
<1>3. y = [s EXCEPT !.opened[f] = NotOpen, !.recent = r]
  BY DEF Forget
<1> HIDE DEF y, r
<1>4. /\ y \in AppUpTo(c) /\ y.ed = s.ed /\ y.panes = s.panes /\ y.focus = s.focus
      /\ y.opened[f] = NotOpen /\ \A g \in Paths \ {f} : y.opened[g] = s.opened[g]
  BY <1>1, <1>2, <1>3 DEF AppUpTo
<1>5. QED
  BY <1>4, ListTight DEF y

LEMMA BumpType ==
  ASSUME NEW rev \in 0..(Revisions - 1)
  PROVE  Bump(rev) \in 0..(Revisions - 1) /\ Bump(rev) # rev
<1>1. CASE rev + 1 < Revisions
  <2>1. Bump(rev) = rev + 1
    BY <1>1, PanesAssumption DEF Bump
  <2>2. QED
    BY <1>1, <2>1, PanesAssumption
<1>2. CASE rev + 1 = Revisions
  <2>1. Bump(rev) = 0
    BY <1>2, PanesAssumption DEF Bump
  <2>2. QED
    BY <1>2, <2>1, PanesAssumption
<1>3. QED
  BY <1>1, <1>2, PanesAssumption

LEMMA FromDiskGood ==
  ASSUME NEW c \in Texts, NEW D \in DiskUpTo(c), NEW f \in Paths, D[f] = disk[f],
         NEW rev \in 0..(Revisions - 1)
  PROVE  LET d == FromDisk(f, rev) IN
         Good(d, D, c) /\ d.file = f /\ d.stamp = disk[f].stamp
<1> DEFINE d == FromDisk(f, rev)
<1>1. disk[f].text \in 1..c /\ disk[f].stamp \in 0..c
  BY DEF DiskUpTo
<1>2. d \in DocUpTo(c)
  BY <1>1, EmptySeq DEF FromDisk, DocUpTo
<1>3. d.file = f /\ d.stamp = disk[f].stamp /\ d.dirty = FALSE /\ d.text = d.saved
  BY DEF FromDisk
<1> HIDE DEF d
<1>4. Good(d, D, c)
  BY <1>1, <1>2, <1>3 DEF Good, Texts
<1>5. QED
  BY <1>3, <1>4 DEF d

\* The disk of the step, but for the file that a handler has just written.
OpenFilePre(s, D) == \A g \in Paths \ {s.ed.file} : D[g] = disk[g]

LEMMA OpenFileTight ==
  ASSUME NEW c \in Texts, NEW D \in DiskUpTo(c), NEW s, Tight(s, D, c), OpenFilePre(s, D),
         NEW f \in Paths, NEW store \in BOOLEAN
  PROVE  Tight(OpenFile(s, f, store), D, c)
<1> DEFINE a == IF store THEN StoreCurrent(s) ELSE s
           rev == Bump(a.ed.rev)
           y == OpenFile(s, f, store)
<1>1. Tight(a, D, c) /\ a.ed = s.ed /\ a.panes = s.panes /\ a.focus = s.focus
  <2>1. s \in AppUpTo(c)
    BY DEF Tight, Loose
  <2>2. QED
    BY <2>1, StoreTight DEF StoreCurrent, AppUpTo
<1>2. y = IF a.ed.file = f THEN Touch(a, f)
          ELSE IF Showing(a, f) # {}
               THEN Touch(StoreCurrent([a EXCEPT !.ed = a.panes[Min(Showing(a, f))]]), f)
          ELSE IF a.opened[f] # NotOpen
               THEN Touch([a EXCEPT !.ed = [a.opened[f] EXCEPT !.rev = rev],
                                    !.intent = "NONE"], f)
          ELSE IF Exists(f)
               THEN Touch(StoreCurrent([a EXCEPT !.ed = FromDisk(f, rev),
                                                 !.intent = "NONE"]), f)
          ELSE a
  BY DEF OpenFile
<1> HIDE DEF a, y
<1>3. a \in AppUpTo(c) /\ a.ed \in DocUpTo(c) /\ Loose(a, D, c) /\ rev \in 0..(Revisions - 1)
  <2>1. a \in AppUpTo(c) /\ a.ed \in DocUpTo(c) /\ Loose(a, D, c)
    BY <1>1 DEF Tight, Loose, Leads, Good
  <2>2. QED
    BY <2>1, BumpType DEF DocUpTo
<1> HIDE DEF rev
<1>4. CASE a.ed.file = f
  BY <1>1, <1>2, <1>4, TouchTight DEF y
<1>5. CASE a.ed.file # f /\ Showing(a, f) # {}
  <2> DEFINE p == Min(Showing(a, f))
             x == [a EXCEPT !.ed = a.panes[p]]
  <2>1. p \in Showing(a, f)
    <3>1. Showing(a, f) \in SUBSET Nat
      BY DEF Showing, Back, PaneIds
    <3>2. QED
      BY <1>5, <3>1, MinIsIn
  <2> HIDE DEF p
  <2>2. p \in Back(a) /\ a.panes[p].file = f /\ Good(a.panes[p], D, c)
    BY <1>3, <2>1 DEF Showing, Loose
  <2>3. /\ x \in AppUpTo(c) /\ x.ed = a.panes[p] /\ x.panes = a.panes /\ x.focus = a.focus
        /\ x.opened = a.opened
    BY <1>3, <2>2 DEF AppUpTo, Good
  <2> HIDE DEF x
  <2>4. Listed(x) = Listed(a)
    BY <2>3 DEF Listed
  <2>5. Tight(x, D, c)
    BY <1>3, <2>2, <2>3, <2>4, LoadTight DEF Leads, Loose
  <2>6. QED
    BY <1>2, <1>5, <2>5, StoreTight, TouchTight DEF x, y, p
<1>6. CASE a.ed.file # f /\ Showing(a, f) = {} /\ a.opened[f] # NotOpen
  <2> DEFINE d == [a.opened[f] EXCEPT !.rev = rev]
             x == [a EXCEPT !.ed = d, !.intent = "NONE"]
  <2>1. Good(a.opened[f], D, c) /\ a.opened[f].file = f /\ f \in Listed(a)
    BY <1>3, <1>6 DEF Loose, Listed
  <2>2. /\ Good(d, D, c) /\ d.file = f /\ d.stamp = a.opened[f].stamp
        /\ a.opened[f] \in DocUpTo(c)
    <3>1. /\ d \in DocUpTo(c) /\ d.file = a.opened[f].file /\ d.dirty = a.opened[f].dirty
          /\ d.text = a.opened[f].text /\ d.saved = a.opened[f].saved
          /\ d.stamp = a.opened[f].stamp
      BY <1>3, <2>1 DEF Good, DocUpTo
    <3> HIDE DEF d
    <3>2. QED
      BY <2>1, <3>1 DEF Good
  <2> HIDE DEF d
  <2>3. /\ x \in AppUpTo(c) /\ x.ed = d /\ x.panes = a.panes /\ x.focus = a.focus
        /\ x.opened = a.opened
    BY <1>3, <2>2 DEF AppUpTo, Good
  <2> HIDE DEF x
  <2>4. Leads(x, D, c)
    BY <2>2, <2>3 DEF Leads, Behind, DocUpTo
  <2>5. Tight(x, D, c)
    BY <1>3, <1>6, <2>2, <2>3, <2>4, LoadTight DEF Showing
  <2>6. QED
    BY <1>2, <1>6, <2>5, TouchTight DEF x, y, d
<1>7. CASE a.ed.file # f /\ Showing(a, f) = {} /\ a.opened[f] = NotOpen /\ Exists(f)
  <2> DEFINE d == FromDisk(f, rev)
             x == [a EXCEPT !.ed = d, !.intent = "NONE"]
  <2>1. Good(d, D, c) /\ d.file = f
    BY <1>1, <1>3, <1>7, FromDiskGood DEF OpenFilePre
  <2> HIDE DEF d
  <2>2. /\ x \in AppUpTo(c) /\ x.ed = d /\ x.panes = a.panes /\ x.focus = a.focus
        /\ x.opened = a.opened
    BY <1>3, <2>1 DEF AppUpTo, Good
  <2> HIDE DEF x
  <2>3. Leads(x, D, c)
    BY <1>7, <2>1, <2>2 DEF Leads, Listed
  <2>4. Tight(x, D, c)
    BY <1>3, <1>7, <2>1, <2>2, <2>3, LoadTight DEF Showing
  <2>5. Tight(Touch(StoreCurrent(x), f), D, c)
    BY <2>4, StoreTight, TouchTight
  <2>6. y = Touch(StoreCurrent(x), f)
    BY <1>2, <1>7 DEF x, d
  <2>7. QED
    BY <2>5, <2>6 DEF y
<1>8. CASE a.ed.file # f /\ Showing(a, f) = {} /\ a.opened[f] = NotOpen /\ ~Exists(f)
  BY <1>1, <1>2, <1>8 DEF y
<1>9. QED
  BY <1>4, <1>5, <1>6, <1>7, <1>8 DEF y

LEMMA CloseCurrentTight ==
  ASSUME NEW c \in Texts, NEW D \in DiskUpTo(c), NEW s, Tight(s, D, c), OpenFilePre(s, D)
  PROVE  Tight(CloseCurrent(s), D, c)
<1> DEFINE a == Forget(s, s.ed.file)
           f == IF a.recent # <<>> THEN Last(a.recent) ELSE CHOOSE g \in Listed(a) : TRUE
<1>1. Tight(a, D, c) /\ a.ed = s.ed
  <2>1. s \in AppUpTo(c) /\ s.ed.file \in Paths
    BY DEF Tight, Loose, Leads, Good, DocUpTo
  <2>2. QED
    BY <2>1, ForgetTight DEF Forget, AppUpTo
<1>2. CloseCurrent(s) = IF Listed(a) = {} THEN [a EXCEPT !.closeReq = TRUE]
                        ELSE OpenFile(a, f, FALSE)
  BY DEF CloseCurrent
<1> HIDE DEF a
<1>3. a \in AppUpTo(c)
  BY <1>1 DEF Tight, Loose
<1>4. CASE Listed(a) = {}
  <2> DEFINE x == [a EXCEPT !.closeReq = TRUE]
  <2>1. x \in AppUpTo(c) /\ x.ed = a.ed /\ x.panes = a.panes /\ x.focus = a.focus /\ x.opened = a.opened
    BY <1>3 DEF AppUpTo
  <2> HIDE DEF x
  <2>2. Tight(x, D, c)
    BY <1>1, <2>1, FlagsTight
  <2>3. QED
    BY <1>2, <1>4, <2>2 DEF x
<1>5. CASE Listed(a) # {}
  <2>1. f \in Paths
    <3>1. CASE a.recent # <<>>
      <4>1. a.recent \in Seq(Paths)
        BY <1>3 DEF AppUpTo
      <4>2. Len(a.recent) \in 1..Len(a.recent)
        BY <3>1, <4>1, EmptySeq
      <4>3. QED
        BY <3>1, <4>1, <4>2, ElementOfSeq DEF Last
    <3>2. CASE a.recent = <<>>
      BY <1>5, <3>2 DEF Listed
    <3>3. QED
      BY <3>1, <3>2
  <2> HIDE DEF f
  <2>2. QED
    BY <1>1, <1>2, <1>5, <2>1, OpenFileTight DEF OpenFilePre
<1>6. QED
  BY <1>4, <1>5

LEMMA AskOrCloseTight ==
  ASSUME NEW c \in Texts, NEW D \in DiskUpTo(c), NEW s, Tight(s, D, c), OpenFilePre(s, D),
         NEW y \in AskOrClose(s)
  PROVE  Tight(y, D, c)
<1> DEFINE q == [s EXCEPT !.closeReq = FALSE]
           a == StoreCurrent(q)
           dirty == {f \in Listed(a) : FileDirty(a, f)}
<1>1. s \in AppUpTo(c)
  BY DEF Tight, Loose
<1>2. q \in AppUpTo(c) /\ q.ed = s.ed /\ q.panes = s.panes /\ q.focus = s.focus /\ q.opened = s.opened
  BY <1>1 DEF AppUpTo
<1>3. y \in (IF s.intent # "NONE" THEN {q} ELSE IF dirty = {} THEN {[a EXCEPT !.confirmed = TRUE]}
             ELSE {[OpenFile(a, f, TRUE) EXCEPT !.intent = "APP"] : f \in dirty})
  BY DEF AskOrClose
<1> HIDE DEF q
<1>4. Tight(q, D, c)
  BY <1>2, FlagsTight
<1>5. Tight(a, D, c) /\ a.ed = s.ed
  BY <1>2, <1>4, StoreTight DEF StoreCurrent, AppUpTo
<1> HIDE DEF a
<1>6. CASE y = q
  BY <1>4, <1>6
<1>7. CASE y = [a EXCEPT !.confirmed = TRUE]
  <2>1. a \in AppUpTo(c)
    BY <1>5 DEF Tight, Loose
  <2>2. y \in AppUpTo(c) /\ y.ed = a.ed /\ y.panes = a.panes /\ y.focus = a.focus /\ y.opened = a.opened
    BY <1>7, <2>1 DEF AppUpTo
  <2>3. QED
    BY <1>5, <2>2, FlagsTight
<1>8. ASSUME NEW f \in dirty, y = [OpenFile(a, f, TRUE) EXCEPT !.intent = "APP"]
      PROVE  Tight(y, D, c)
  <2> DEFINE o == OpenFile(a, f, TRUE)
  <2>1. Tight(o, D, c)
    BY <1>5, OpenFileTight DEF OpenFilePre, Listed
  <2> HIDE DEF o
  <2>2. o \in AppUpTo(c)
    BY <2>1 DEF Tight, Loose
  <2>3. y = [o EXCEPT !.intent = "APP"]
    BY <1>8 DEF o
  <2>4. y \in AppUpTo(c) /\ y.ed = o.ed /\ y.panes = o.panes /\ y.focus = o.focus /\ y.opened = o.opened
    BY <2>2, <2>3 DEF AppUpTo
  <2>5. QED
    BY <2>1, <2>4, FlagsTight
<1>9. QED
  BY <1>3, <1>6, <1>7, <1>8

\* Time goes on; on the disk a file is as it was, gone, or just written.
Later(D, E, e) ==
    \A f \in Paths : E[f].stamp = D[f].stamp \/ E[f].stamp = 0 \/ E[f].stamp = e

LEMMA DocLater ==
  ASSUME NEW c \in Texts, NEW e \in Texts, c <= e, NEW d \in DocUpTo(c)
  PROVE  d \in DocUpTo(e)
<1>1. 1..c \subseteq 1..e /\ 0..c \subseteq 0..e
  BY DEF Texts
<1>2. d.undo \in Seq(1..e) /\ d.redo \in Seq(1..e)
  BY <1>1, SeqMonotonic DEF DocUpTo
<1>3. QED
  BY <1>1, <1>2 DEF DocUpTo

LEMMA GoodLater ==
  ASSUME NEW c \in Texts, NEW e \in Texts, c <= e, NEW D, NEW E \in DiskUpTo(e),
         Later(D, E, e), NEW d, Good(d, D, c)
  PROVE  Good(d, E, e)
<1>1. d \in DocUpTo(c) /\ d \in DocUpTo(e)
  BY DocLater DEF Good
<1>2. d.file \in Paths /\ d.stamp \in 0..c
  BY <1>1 DEF DocUpTo
<1>3. d.stamp <= E[d.file].stamp \/ E[d.file].stamp = 0
  BY <1>2 DEF Good, Later, Texts
<1>4. QED
  BY <1>1, <1>3 DEF Good

LEMMA TightLater ==
  ASSUME NEW c \in Texts, NEW e \in Texts, c <= e, NEW D, NEW E \in DiskUpTo(e),
         Later(D, E, e), NEW s, Tight(s, D, c)
  PROVE  Tight(s, E, e)
<1>1. DocUpTo(c) \subseteq DocUpTo(e)
  BY DocLater
<1>2. s \in AppUpTo(c) /\ s.panes \in [PaneIds -> DocUpTo(e) \cup {Here, Shut}]
      /\ s.opened \in [Paths -> DocUpTo(e) \cup {NotOpen}] /\ s.ed \in DocUpTo(e)
  BY <1>1 DEF Tight, Loose, AppUpTo
<1>3. s \in AppUpTo(e)
  BY <1>2 DEF AppUpTo
<1>4. Loose(s, E, e)
  BY <1>3, GoodLater DEF Tight, Loose
<1>5. Leads(s, E, e)
  BY GoodLater DEF Tight, Leads
<1>6. QED
  BY <1>4, <1>5 DEF Tight

LEMMA RefreshDirtyGood ==
  ASSUME NEW c \in Texts, NEW D, NEW d \in DocUpTo(c),
         d.stamp <= D[d.file].stamp \/ D[d.file].stamp = 0
  PROVE  LET e == RefreshDirty(d) IN
         /\ Good(e, D, c) /\ e.file = d.file /\ e.rev = d.rev /\ e.stamp = d.stamp
         /\ e.undo = d.undo /\ e.redo = d.redo
<1> DEFINE dirty == d.text # d.saved
           e == RefreshDirty(d)
<1>1. e = [d EXCEPT !.dirty = dirty, !.pending = @ /\ dirty]
  BY DEF RefreshDirty
<1>2. dirty \in BOOLEAN
  OBVIOUS
<1>3. (d.pending /\ dirty) \in BOOLEAN
  BY DEF DocUpTo
<1> HIDE DEF dirty, e
<1>4. /\ e \in DocUpTo(c) /\ e.file = d.file /\ e.rev = d.rev /\ e.stamp = d.stamp
      /\ e.text = d.text /\ e.saved = d.saved /\ e.undo = d.undo /\ e.redo = d.redo
  BY <1>1, <1>2, <1>3 DEF DocUpTo
<1>5. e.dirty = dirty
  BY <1>1 DEF DocUpTo
<1>6. Good(e, D, c)
  BY <1>4, <1>5 DEF Good, dirty
<1>7. QED
  BY <1>4, <1>6 DEF e

\* A text with a new revision reaches the other panes of its file.
LEMMA EditedTight ==
  ASSUME NEW c \in Texts, NEW D, NEW s, Tight(s, D, c),
         NEW d, Good(d, D, c), d.file = s.ed.file, d.stamp = s.ed.stamp, d.rev # s.ed.rev
  PROVE  /\ Tight(SyncShared([s EXCEPT !.ed = d]), D, c)
         /\ SyncShared([s EXCEPT !.ed = d]) = SyncMatching([s EXCEPT !.ed = d])
<1> DEFINE x == [s EXCEPT !.ed = d]
<1>1. s \in AppUpTo(c) /\ d \in DocUpTo(c)
  BY DEF Tight, Loose, Good
<1>2. /\ x \in AppUpTo(c) /\ x.ed = d /\ x.panes = s.panes /\ x.focus = s.focus
      /\ x.opened = s.opened
  BY <1>1 DEF AppUpTo
<1> HIDE DEF x
<1>3. Back(x) = Back(s) /\ Listed(x) = Listed(s)
  BY <1>2 DEF Back, Listed
<1>4. SameRevisionSameText(x)
  BY <1>2, <1>3 DEF Tight, SameRevisionSameText, Showing
<1>5. Loose(x, D, c) /\ Leads(x, D, c)
  BY <1>2, <1>3 DEF Tight, Loose, Leads, Behind
<1>6. QED
  BY <1>2, <1>4, <1>5, SyncSharedMatches, SyncMatchingTight DEF x

\* What was read from or written to the disk just now leads.
LEMMA ReplacedTight ==
  ASSUME NEW c \in Texts, NEW D, NEW s, Tight(s, D, c),
         NEW x \in AppUpTo(c), x.panes = s.panes, x.focus = s.focus, x.opened = s.opened,
         Good(x.ed, D, c), x.ed.stamp = D[x.ed.file].stamp
  PROVE  Tight(SyncMatching(x), D, c)
<1>1. Back(x) = Back(s) /\ Listed(x) = Listed(s)
  BY DEF Back, Listed
<1>2. Loose(x, D, c) /\ Leads(x, D, c)
  BY <1>1, SMTT(30) DEF Tight, Loose, Leads, Good, Behind
<1>3. QED
  BY <1>2, SyncMatchingTight

LEMMA WrittenTight ==
  ASSUME NEW c \in Texts, disk' \in DiskUpTo(c), NEW s, Tight(s, disk', c), NEW f \in Paths
  PROVE  Tight(Written(s, f), disk', c) /\ Written(s, f).ed.file = f
<1> DEFINE e == [s.ed EXCEPT !.stamp = disk'[f].stamp, !.file = f]
           d == MarkSaved(e)
           x == [s EXCEPT !.ed = d]
<1>1. s \in AppUpTo(c) /\ s.ed \in DocUpTo(c) /\ disk'[f].stamp \in 0..c
  BY DEF Tight, Loose, Leads, Good, DiskUpTo
<1>2. e \in DocUpTo(c) /\ e.file = f /\ e.stamp = disk'[f].stamp
  BY <1>1 DEF DocUpTo
<1> HIDE DEF e
<1>3. d \in DocUpTo(c) /\ d.file = f /\ d.stamp = disk'[f].stamp /\ d.dirty = FALSE /\ d.text = d.saved
  BY <1>2 DEF MarkSaved, DocUpTo
<1> HIDE DEF d
<1>4. Good(d, disk', c)
  BY <1>1, <1>3 DEF Good
<1>5. /\ x \in AppUpTo(c) /\ x.ed = d /\ x.panes = s.panes /\ x.focus = s.focus
      /\ x.opened = s.opened
  BY <1>1, <1>3 DEF AppUpTo
<1>6. Written(s, f) = StoreCurrent(SyncMatching(x))
  BY DEF Written, d, e
<1> HIDE DEF x
<1>7. Tight(SyncMatching(x), disk', c)
  BY <1>3, <1>4, <1>5, ReplacedTight
<1>8. SyncMatching(x).ed = d /\ StoreCurrent(SyncMatching(x)).ed = d
  <2>1. SyncMatching(x) \in AppUpTo(c) /\ SyncMatching(x).ed = d
    BY <1>5, <1>7 DEF SyncMatching, AppUpTo, Tight, Loose
  <2>2. QED
    BY <2>1 DEF StoreCurrent, AppUpTo
<1>9. QED
  BY <1>3, <1>6, <1>7, <1>8, StoreTight

LEMMA BecomesApp ==
  ASSUME NEW D, NEW c, NEW x, Tight(x, D, c), Becomes(x)
  PROVE  App' = x
BY DEF Tight, Loose, AppUpTo, Becomes, App

\* The panes before and after the focus moves to p.
LEMMA FocusTight ==
  ASSUME NEW c \in Texts, NEW D, NEW s, Tight(s, D, c), NEW p \in Back(s),
         NEW left \in {s.ed, Shut}
  PROVE  LET x == [s EXCEPT !.panes = [@ EXCEPT ![s.focus] = left, ![p] = Here],
                            !.ed = s.panes[p], !.focus = p]
         IN  Tight(x, D, c)
<1> DEFINE q == [s.panes EXCEPT ![s.focus] = left, ![p] = Here]
           x == [s EXCEPT !.panes = q, !.ed = s.panes[p], !.focus = p]
<1>1. /\ s \in AppUpTo(c) /\ s.focus \in PaneIds /\ p \in PaneIds \ {s.focus}
      /\ s.panes \in [PaneIds -> DocUpTo(c) \cup {Here, Shut}]
      /\ s.ed \in DocUpTo(c) /\ s.panes[p] \in DocUpTo(c)
  BY DEF Tight, Loose, Leads, Good, AppUpTo, Back
<1>2. q \in [PaneIds -> DocUpTo(c) \cup {Here, Shut}] /\ q[p] = Here /\ q[s.focus] = left
      /\ \A o \in PaneIds \ {p, s.focus} : q[o] = s.panes[o]
  BY <1>1
<1> HIDE DEF q
<1>3. /\ x \in AppUpTo(c) /\ x.ed = s.panes[p] /\ x.panes = q /\ x.focus = p /\ x.opened = s.opened
  BY <1>1, <1>2 DEF AppUpTo
<1> HIDE DEF x
<1>4. \A o \in Back(x) : (o \in Back(s) /\ q[o] = s.panes[o]) \/ (q[o] = s.ed)
  BY <1>2, <1>3 DEF Back
<1>5. Listed(x) = Listed(s)
  BY <1>3 DEF Listed
<1>6. Loose(x, D, c)
  <2>1. \A o \in Back(x) : Good(q[o], D, c)
    BY <1>4 DEF Tight, Loose, Leads
  <2>2. \A o, r \in Back(x) : q[o].file = q[r].file => q[o] = q[r]
    BY <1>4 DEF Tight, Loose
  <2>3. \A o \in Back(x) : q[o].file \in Listed(s) => Behind(s.opened[q[o].file], q[o])
    BY <1>4 DEF Tight, Loose, Leads
  <2>4. QED
    BY <1>2, <1>3, <1>5, <2>1, <2>2, <2>3 DEF Tight, Loose
<1>7. Leads(x, D, c)
  BY <1>3, <1>5 DEF Tight, Loose, Leads
<1>8. \A o \in Back(x) : q[o].file = s.panes[p].file => q[o] = s.panes[p]
  BY <1>4 DEF Tight, Loose
<1>9. QED
  BY <1>3, <1>6, <1>7, <1>8 DEF Tight, x, q

LEMMA SplitTight ==
  ASSUME NEW c \in Texts, NEW D, NEW s, Tight(s, D, c), NEW p \in PaneIds, s.panes[p] = Shut
  PROVE  LET x == [s EXCEPT !.panes = [@ EXCEPT ![s.focus] = s.ed, ![p] = Here], !.focus = p]
         IN  Tight(SyncShared(x), D, c) /\ Tight(x, D, c)
<1> DEFINE q == [s.panes EXCEPT ![s.focus] = s.ed, ![p] = Here]
           x == [s EXCEPT !.panes = q, !.focus = p]
<1>1. /\ s \in AppUpTo(c) /\ s.focus \in PaneIds
      /\ s.panes \in [PaneIds -> DocUpTo(c) \cup {Here, Shut}]
      /\ s.ed \in DocUpTo(c) /\ p # s.focus
  BY PanesAssumption DEF Tight, Loose, Leads, Good, AppUpTo
<1>2. q \in [PaneIds -> DocUpTo(c) \cup {Here, Shut}] /\ q[p] = Here /\ q[s.focus] = s.ed
      /\ \A o \in PaneIds \ {p, s.focus} : q[o] = s.panes[o]
  BY <1>1
<1> HIDE DEF q
<1>3. /\ x \in AppUpTo(c) /\ x.ed = s.ed /\ x.panes = q /\ x.focus = p /\ x.opened = s.opened
  BY <1>1, <1>2 DEF AppUpTo
<1> HIDE DEF x
<1>4. \A o \in Back(x) : (o \in Back(s) /\ q[o] = s.panes[o]) \/ (q[o] = s.ed)
  BY <1>2, <1>3 DEF Back
<1>5. Listed(x) = Listed(s)
  BY <1>3 DEF Listed
<1>6. Loose(x, D, c)
  <2>1. \A o \in Back(x) : Good(q[o], D, c)
    BY <1>4 DEF Tight, Loose, Leads
  <2>2. \A o, r \in Back(x) : q[o].file = q[r].file => q[o] = q[r]
    BY <1>4 DEF Tight, Loose
  <2>3. \A o \in Back(x) : q[o].file \in Listed(s) => Behind(s.opened[q[o].file], q[o])
    BY <1>4 DEF Tight, Loose, Leads
  <2>4. QED
    BY <1>2, <1>3, <1>5, <2>1, <2>2, <2>3 DEF Tight, Loose
<1>7. Leads(x, D, c)
  BY <1>3, <1>5 DEF Tight, Leads
<1>8. \A o \in Back(x) : q[o].file = s.ed.file => q[o] = s.ed
  BY <1>4 DEF Tight
<1>9. Tight(x, D, c)
  BY <1>3, <1>6, <1>7, <1>8 DEF Tight
<1>10. QED
  BY <1>9, SyncSharedSame DEF x, q

-----------------------------------------------------------------------------
(* The steps *)

LEMMA AppFields ==
  ASSUME PanesInv
  PROVE  /\ App \in AppUpTo(clock) /\ App.ed = ed /\ App.panes = panes /\ App.focus = focus
         /\ App.opened = opened /\ App.recent = recent /\ App.intent = intent
         /\ Good(ed, disk, clock) /\ ed \in DocUpTo(clock) /\ ed.file \in Paths
         /\ clock \in Texts /\ disk \in DiskUpTo(clock)
         /\ Tight(App, disk, clock)
BY DEF PanesInv, App, Tight, Loose, Leads, Good, DocUpTo

LEMMA PanesInvInit == Init => PanesInv
<1> SUFFICES ASSUME Init PROVE PanesInv
  OBVIOUS
<1>1. PICK f \in Paths :
        LET start == [file |-> f, text |-> 1, saved |-> 1, undo |-> <<>>,
                      redo |-> <<>>, rev |-> 0, stamp |-> 1, dirty |-> FALSE,
                      pending |-> FALSE, deleted |-> FALSE]
        IN  /\ ed = start
            /\ opened = [g \in Paths |-> IF g = f THEN start ELSE NotOpen]
  BY DEF Init
<1>2. /\ panes = [p \in PaneIds |-> IF p = 1 THEN Here ELSE Shut] /\ focus = 1
      /\ intent = "NONE" /\ closeReq = FALSE /\ confirmed = FALSE
      /\ disk = [g \in Paths |-> [text |-> 1, stamp |-> 1]] /\ clock = 1
  BY DEF Init
<1>3. recent \in Seq(Paths)
  BY DEF Init
<1>4. clock \in Texts /\ disk \in DiskUpTo(clock) /\ 1 \in PaneIds
  BY <1>2, PanesAssumption DEF Texts, DiskUpTo, PaneIds
<1>5. Good(ed, disk, clock) /\ ed.file = f
  <2>1. 0 \in 0..(Revisions - 1)
    BY PanesAssumption
  <2>2. ed \in DocUpTo(clock)
    BY <1>1, <1>2, <2>1, EmptySeq DEF DocUpTo
  <2>3. QED
    BY <1>1, <1>2, <2>2 DEF Good
<1>6. opened = [g \in Paths |-> IF g = f THEN ed ELSE NotOpen]
  BY <1>1
<1>7. App \in AppUpTo(clock)
  <2>1. panes \in [PaneIds -> DocUpTo(clock) \cup {Here, Shut}]
    BY <1>2
  <2>2. opened \in [Paths -> DocUpTo(clock) \cup {NotOpen}]
    BY <1>5, <1>6 DEF Good
  <2>3. focus \in PaneIds /\ intent \in {"NONE", "BUFFER", "APP"}
    BY <1>2, <1>4
  <2>4. closeReq \in BOOLEAN
    BY <1>2
  <2>5. confirmed \in BOOLEAN
    BY <1>2
  <2>6. QED
    BY <1>3, <1>5, <2>1, <2>2, <2>3, <2>4, <2>5 DEF App, AppUpTo, Good
<1>8. Back(App) = {}
  BY <1>2 DEF Back, App
<1>9. \A g \in Listed(App) : g = f /\ App.opened[g] = ed
  BY <1>6 DEF Listed, App
<1>10. Loose(App, disk, clock)
  BY <1>2, <1>4, <1>5, <1>7, <1>8, <1>9 DEF Loose, App
<1>11. Leads(App, disk, clock)
  BY <1>2, <1>5, <1>9 DEF Leads, App, Behind, Good, DocUpTo
<1>12. QED
  BY <1>4, <1>8, <1>10, <1>11 DEF PanesInv, Tight, App

\* What the watcher makes of a document does not depend on the pane it is in.
LEMMA NoticedGood ==
  ASSUME NEW c \in Texts, disk \in DiskUpTo(c), NEW d, Good(d, disk, c)
  PROVE  LET e == Noticed(d) IN
         /\ Good(e, disk, c)
         /\ e.file = d.file
         /\ e.stamp = IF disk[d.file].stamp = 0 THEN d.stamp ELSE disk[d.file].stamp
         /\ d.dirty => e.rev = d.rev /\ e.text = d.text /\ e.dirty = d.dirty
         /\ e.rev # d.rev => e.stamp = disk[d.file].stamp /\ Noticed(e) = e
<1> DEFINE e == Noticed(d)
           now == disk[d.file].stamp
           seen == [d EXCEPT !.deleted = FALSE]
<1>1. d \in DocUpTo(c) /\ d.file \in Paths /\ now \in 0..c
  BY DEF Good, DocUpTo, DiskUpTo
<1>2. e = IF now = 0
          THEN IF d.stamp = 0 THEN d ELSE [d EXCEPT !.deleted = TRUE, !.pending = FALSE]
          ELSE IF d.stamp = 0 THEN [seen EXCEPT !.stamp = now]
          ELSE IF d.stamp = now THEN seen
          ELSE IF d.dirty THEN [seen EXCEPT !.stamp = now, !.pending = TRUE]
          ELSE FromDisk(d.file, Bump(d.rev))
  BY DEF Noticed
<1>3. CASE now = 0 \/ d.stamp = 0 \/ d.stamp = now \/ d.dirty
  <2> DEFINE f1 == [d EXCEPT !.deleted = TRUE, !.pending = FALSE]
             f2 == [seen EXCEPT !.stamp = now]
             f3 == [seen EXCEPT !.stamp = now, !.pending = TRUE]
             Same(x) == /\ x \in DocUpTo(c) /\ x.file = d.file /\ x.rev = d.rev
                        /\ x.text = d.text /\ x.saved = d.saved /\ x.dirty = d.dirty
  <2>1. Same(seen) /\ seen.stamp = d.stamp
    BY <1>1 DEF DocUpTo
  <2>2. Same(f1) /\ f1.stamp = d.stamp
    BY <1>1 DEF DocUpTo
  <2> HIDE DEF seen, now
  <2>3. Same(f2) /\ f2.stamp = now
    BY <1>1, <2>1 DEF DocUpTo
  <2>4. Same(f3) /\ f3.stamp = now
    BY <1>1, <2>1 DEF DocUpTo
  <2>5. e \in {d, f1, f2, seen, f3} /\ e.stamp = IF now = 0 THEN d.stamp ELSE now
    <3> HIDE DEF f1, f2, f3
    <3>1. e = IF now = 0 THEN IF d.stamp = 0 THEN d ELSE f1
              ELSE IF d.stamp = 0 THEN f2 ELSE IF d.stamp = now THEN seen
              ELSE IF d.dirty THEN f3 ELSE FromDisk(d.file, Bump(d.rev))
      BY <1>2 DEF f1, f2, f3
    <3> HIDE DEF e
    <3>2. QED
      BY <1>3, <2>1, <2>2, <2>3, <2>4, <3>1
  <2>6. Same(e)
    <3>1. Same(d)
      BY <1>1
    <3> HIDE DEF Same
    <3>2. QED
      BY <2>1, <2>2, <2>3, <2>4, <2>5, <3>1
  <2> HIDE DEF e, f1, f2, f3
  <2>7. Good(e, disk, c)
    BY <1>1, <2>5, <2>6 DEF Good, now
  <2>8. QED
    BY <2>5, <2>6, <2>7 DEF e, now
<1>4. CASE ~(now = 0 \/ d.stamp = 0 \/ d.stamp = now \/ d.dirty)
  <2>1. e = FromDisk(d.file, Bump(d.rev))
    BY <1>2, <1>4
  <2>2. Bump(d.rev) \in 0..(Revisions - 1)
    BY <1>1, BumpType DEF DocUpTo
  <2>3. Good(e, disk, c) /\ e.file = d.file /\ e.stamp = now
    BY <1>1, <2>1, <2>2, FromDiskGood
  <2>4. e.deleted = FALSE /\ e \in DocUpTo(c)
    BY <2>1, <2>3 DEF FromDisk, Good
  <2> HIDE DEF e
  <2>5. [e EXCEPT !.deleted = FALSE] = e
    BY <2>4 DEF DocUpTo
  <2>6. Noticed(e) = e
    BY <1>4, <2>3, <2>5 DEF Noticed
  <2>7. QED
    BY <1>4, <2>3, <2>6 DEF e
<1>5. QED
  BY <1>3, <1>4

LEMMA NoticeTight ==
  ASSUME PanesInv, Notice
  PROVE  /\ Tight(App', disk, clock)
         /\ App'.ed = Noticed(ed) /\ Back(App') = Back(App)
         /\ \A p \in Back(App) : App'.panes[p] = Noticed(panes[p])
<1> DEFINE c == clock
           now == Noticed(ed)
           reloaded == now.rev # ed.rev
           a == [App EXCEPT !.ed = now, !.intent = IF reloaded THEN "NONE" ELSE @]
           b == IF reloaded THEN StoreCurrent(SyncMatching(a)) ELSE a
           shown == {ed.file} \cup {panes[p].file : p \in Back(App)}
           list == [f \in Paths |->
               IF b.opened[f] = NotOpen THEN NotOpen
               ELSE IF f \in shown
                    THEN [b.opened[f] EXCEPT !.deleted =
                              IF Exists(f) THEN FALSE
                              ELSE @ \/ (\E d \in {ed} \cup {panes[p] : p \in Back(App)} :
                                             d.file = f /\ d.stamp # 0)]
               ELSE [Noticed(b.opened[f]) EXCEPT !.rev = 0]]
           back == [p \in PaneIds |-> IF p \in Back(b) THEN Noticed(b.panes[p]) ELSE b.panes[p]]
           y == [b EXCEPT !.panes = back, !.opened = list]
<1>1. Becomes(y)
  BY DEF Notice
<1>2. /\ App \in AppUpTo(c) /\ App.ed = ed /\ App.panes = panes /\ App.focus = focus
      /\ App.opened = opened /\ App.intent = intent
      /\ Good(ed, disk, c) /\ ed \in DocUpTo(c) /\ c \in Texts /\ disk \in DiskUpTo(c)
      /\ Tight(App, disk, c) /\ Loose(App, disk, c) /\ Leads(App, disk, c)
  BY AppFields DEF Tight
<1> HIDE DEF c
<1>3. /\ Good(now, disk, c) /\ now.file = ed.file
      /\ now.stamp = IF disk[ed.file].stamp = 0 THEN ed.stamp ELSE disk[ed.file].stamp
      /\ reloaded => now.stamp = disk[ed.file].stamp /\ Noticed(now) = now
  BY <1>2, NoticedGood
<1> HIDE DEF now
<1>4. /\ a \in AppUpTo(c) /\ a.ed = now /\ a.panes = panes /\ a.focus = focus
      /\ a.opened = opened
  <2>1. now \in DocUpTo(c)
    BY <1>3 DEF Good
  <2>2. (IF reloaded THEN "NONE" ELSE App.intent) \in {"NONE", "BUFFER", "APP"}
    BY <1>2 DEF AppUpTo
  <2>3. QED
    BY <1>2, <2>1, <2>2 DEF AppUpTo
<1> HIDE DEF a
\* In both cases every other pane is what it was, as the watcher found it.
<1>5. /\ b \in AppUpTo(c) /\ b.ed = now /\ b.focus = focus
      /\ \A f \in Paths : f # ed.file => b.opened[f] = opened[f]
      /\ \/ ~reloaded /\ b.opened[ed.file] = opened[ed.file]
         \/ reloaded /\ b.opened[ed.file] = [now EXCEPT !.rev = 0]
      /\ back = [p \in PaneIds |-> IF p \in Back(App) THEN Noticed(panes[p]) ELSE panes[p]]
  <2>1. CASE ~reloaded
    <3>1. b = a
      BY <2>1
    <3>2. Back(b) = Back(App)
      BY <1>2, <1>4, <3>1 DEF Back
    <3> HIDE DEF b, reloaded
    <3>3. QED
      BY <1>4, <2>1, <3>1, <3>2
  <2>2. CASE reloaded
    <3> DEFINE x == SyncMatching(a)
    <3>1. Tight(x, disk, c)
      BY <1>2, <1>3, <1>4, <2>2, ReplacedTight
    <3>2. /\ x.ed = now /\ x.focus = focus /\ x.opened = opened /\ x \in AppUpTo(c)
          /\ x.panes = [p \in PaneIds |-> IF p \in Showing(a, now.file) THEN now ELSE panes[p]]
      <4>1. x \in AppUpTo(c)
        BY <3>1 DEF Tight, Loose
      <4>2. QED
        BY <1>4, <4>1 DEF SyncMatching, AppUpTo
    <3> HIDE DEF x
    <3>3. b = StoreCurrent(x)
      BY <2>2 DEF x
    <3>4. b.ed = now /\ b.focus = focus /\ b.panes = x.panes
          /\ b.opened = [opened EXCEPT ![now.file] = [now EXCEPT !.rev = 0]] /\ b \in AppUpTo(c)
      <4>1. Tight(StoreCurrent(x), disk, c)
        BY <1>2, <3>1, StoreTight
      <4>2. b \in AppUpTo(c)
        BY <3>3, <4>1 DEF Tight, Loose
      <4> HIDE DEF b
      <4>3. QED
        BY <3>2, <3>3, <4>2 DEF StoreCurrent, AppUpTo
    <3> HIDE DEF b
    <3>5. Showing(a, now.file) = {p \in Back(App) : panes[p].file = ed.file}
      BY <1>2, <1>3, <1>4 DEF Showing, Back
    <3>6. \A p \in Back(App) : panes[p].file = ed.file => panes[p] = ed
      BY <1>2 DEF Tight
    <3>7. now # Shut
      BY <1>2, <1>3, Absent DEF Good
    <3>8. Back(b) = Back(App)
      BY <1>2, <3>2, <3>4, <3>5, <3>7 DEF Back
    <3>9. \A p \in Back(App) : Noticed(b.panes[p]) = Noticed(panes[p])
      <4>1. SUFFICES ASSUME NEW p \in Back(App) PROVE Noticed(b.panes[p]) = Noticed(panes[p])
        OBVIOUS
      <4>2. p \in PaneIds
        BY DEF Back
      <4>3. CASE panes[p].file = ed.file
        <5>1. b.panes[p] = now /\ panes[p] = ed
          BY <3>2, <3>4, <3>5, <3>6, <4>2, <4>3
        <5>2. QED
          BY <1>3, <2>2, <5>1 DEF now
      <4>4. CASE panes[p].file # ed.file
        BY <3>2, <3>4, <3>5, <4>2, <4>4
      <4>5. QED
        BY <4>3, <4>4
    <3>10. \A p \in PaneIds \ Back(App) : b.panes[p] = panes[p]
      BY <3>2, <3>4, <3>5
    <3>11. back = [p \in PaneIds |-> IF p \in Back(App) THEN Noticed(panes[p]) ELSE panes[p]]
      BY <3>8, <3>9, <3>10
    <3> HIDE DEF back
    <3>12. opened \in [Paths -> DocUpTo(c) \cup {NotOpen}] /\ now.file \in Paths
      BY <1>2, <1>3 DEF AppUpTo, DocUpTo
    <3>13. QED
      BY <1>3, <2>2, <3>4, <3>11, <3>12
  <2>3. QED
    BY <2>1, <2>2
<1>6. \A f \in Paths : b.opened[f] # NotOpen =>
        /\ b.opened[f].file = f /\ Good(b.opened[f], disk, c)
        /\ f = ed.file => Behind(b.opened[f], now)
  <2>1. SUFFICES ASSUME NEW f \in Paths, b.opened[f] # NotOpen
                 PROVE  /\ b.opened[f].file = f /\ Good(b.opened[f], disk, c)
                        /\ f = ed.file => Behind(b.opened[f], now)
    OBVIOUS
  <2> HIDE DEF b, reloaded
  <2>2. CASE b.opened[f] = opened[f]
    <3>1. f \in Listed(App) /\ Good(opened[f], disk, c) /\ opened[f].file = f
      BY <1>2, <2>1, <2>2 DEF Listed, Loose
    <3>2. f = ed.file => Behind(opened[f], ed)
      BY <1>2, <3>1 DEF Leads
    <3>3. f = ed.file => Behind(opened[f], now)
      BY <1>3, <3>1, <3>2 DEF Behind, Good
    <3>4. QED
      BY <2>2, <3>1, <3>3
  <2>3. CASE f = ed.file /\ b.opened[f] = [now EXCEPT !.rev = 0]
    <3>1. now \in DocUpTo(c) /\ 0 \in 0..(Revisions - 1)
      BY <1>3, PanesAssumption DEF Good
    <3> DEFINE d == [now EXCEPT !.rev = 0]
    <3>2. d \in DocUpTo(c)
      BY <3>1 DEF DocUpTo
    <3>3. /\ d.file = now.file /\ d.stamp = now.stamp
          /\ d.dirty = now.dirty /\ d.text = now.text /\ d.saved = now.saved
      BY <3>1 DEF DocUpTo
    <3> HIDE DEF d
    <3>4. Good(d, disk, c) /\ Behind(d, now)
      BY <1>3, <3>2, <3>3 DEF Good, Behind, DocUpTo
    <3>5. QED
      BY <1>3, <2>3, <3>3, <3>4 DEF d
  <2>4. QED
    BY <1>5, <2>2, <2>3
<1> HIDE DEF b, back, reloaded
<1>7. \A f \in Paths : list[f] # NotOpen =>
        /\ list[f].file = f /\ Good(list[f], disk, c)
        /\ f \in shown => b.opened[f] # NotOpen /\ list[f].stamp = b.opened[f].stamp
  <2>1. SUFFICES ASSUME NEW f \in Paths, list[f] # NotOpen
                 PROVE  /\ list[f].file = f /\ Good(list[f], disk, c)
                        /\ f \in shown => b.opened[f] # NotOpen /\ list[f].stamp = b.opened[f].stamp
    OBVIOUS
  <2> DEFINE o == b.opened[f]
             mark == IF Exists(f) THEN FALSE
                     ELSE o.deleted \/ (\E d \in {ed} \cup {panes[p] : p \in Back(App)} :
                                            d.file = f /\ d.stamp # 0)
             n == Noticed(o)
  <2>2. o # NotOpen /\ list[f] = IF f \in shown THEN [o EXCEPT !.deleted = mark]
                                 ELSE [n EXCEPT !.rev = 0]
    BY <2>1
  <2>3. Good(o, disk, c) /\ o.file = f /\ o \in DocUpTo(c)
    BY <1>6, <2>2 DEF Good
  <2>4. Good(n, disk, c) /\ n.file = f /\ n \in DocUpTo(c)
    BY <1>2, <2>3, NoticedGood DEF Good
  <2>5. mark \in BOOLEAN
    BY <2>3 DEF DocUpTo
  <2> HIDE DEF o, mark, n, shown, list
  <2>6. CASE f \in shown
    <3> DEFINE d == [o EXCEPT !.deleted = mark]
    <3>1. d \in DocUpTo(c)
      BY <2>3, <2>5 DEF DocUpTo
    <3>2. /\ d.file = o.file /\ d.stamp = o.stamp
          /\ d.dirty = o.dirty /\ d.text = o.text /\ d.saved = o.saved
      BY <2>3 DEF DocUpTo
    <3>3. list[f] = d
      BY <2>2, <2>6
    <3> HIDE DEF d
    <3>4. QED
      BY <2>2, <2>3, <3>1, <3>2, <3>3 DEF Good, o
  <2>7. CASE f \notin shown
    <3> DEFINE d == [n EXCEPT !.rev = 0]
    <3>1. 0 \in 0..(Revisions - 1)
      BY PanesAssumption
    <3>2. d \in DocUpTo(c)
      BY <2>4, <3>1 DEF DocUpTo
    <3>3. /\ d.file = n.file /\ d.stamp = n.stamp
          /\ d.dirty = n.dirty /\ d.text = n.text /\ d.saved = n.saved
      BY <2>4 DEF DocUpTo
    <3>4. list[f] = d
      BY <2>2, <2>7
    <3> HIDE DEF d
    <3>5. QED
      BY <2>4, <2>7, <3>2, <3>3, <3>4 DEF Good
  <2>8. QED
    BY <2>6, <2>7
<1>8. DOMAIN list = Paths /\ \A f \in Paths : list[f] \in DocUpTo(c) \cup {NotOpen}
  BY <1>7 DEF Good
<1>9. list \in [Paths -> DocUpTo(c) \cup {NotOpen}]
  <2>1. list = [f \in Paths |-> list[f]]
    OBVIOUS
  <2> HIDE DEF list
  <2>2. QED
    BY <1>8, <2>1
<1> HIDE DEF list, shown
<1>10. \A p \in Back(App) : p \in PaneIds /\ Good(panes[p], disk, c) /\ panes[p] \in DocUpTo(c)
  BY <1>2 DEF Loose, Back, Good
<1>11. \A p \in Back(App) :
         /\ Good(back[p], disk, c) /\ back[p].file = panes[p].file /\ back[p] = Noticed(panes[p])
         /\ back[p].stamp = IF disk[panes[p].file].stamp = 0 THEN panes[p].stamp
                            ELSE disk[panes[p].file].stamp
         /\ back[p] \in DocUpTo(c)
  BY <1>2, <1>5, <1>10, NoticedGood DEF Good
<1>12. \A p \in PaneIds \ Back(App) : back[p] = panes[p]
  BY <1>5
<1>13. panes \in [PaneIds -> DocUpTo(c) \cup {Here, Shut}] /\ focus \in PaneIds
  BY <1>2 DEF AppUpTo
<1>14. back \in [PaneIds -> DocUpTo(c) \cup {Here, Shut}]
  <2>1. back = [p \in PaneIds |-> back[p]]
    BY <1>5
  <2>2. \A p \in PaneIds : back[p] \in DocUpTo(c) \cup {Here, Shut}
    BY <1>11, <1>12, <1>13
  <2>3. QED
    BY <2>1, <2>2
<1>15. /\ y \in AppUpTo(c) /\ y.ed = now /\ y.panes = back /\ y.focus = focus /\ y.opened = list
  BY <1>5, <1>9, <1>14 DEF AppUpTo
<1> HIDE DEF y
<1>16. Back(y) = Back(App)
  <2>1. \A p \in Back(App) : back[p] # Shut
    BY <1>2, <1>11, Absent
  <2>2. QED
    BY <1>2, <1>12, <1>15, <2>1 DEF Back
<1>17. \A f \in Listed(y) : f \in Paths /\ list[f] # NotOpen
  BY <1>15 DEF Listed
<1>18. \A p \in Back(App) : panes[p].file \in Listed(y) => Behind(list[panes[p].file], back[p])
  <2>1. SUFFICES ASSUME NEW p \in Back(App), panes[p].file \in Listed(y)
                 PROVE  Behind(list[panes[p].file], back[p])
    OBVIOUS
  <2> DEFINE f == panes[p].file
  <2>2. f \in Paths /\ f \in shown /\ b.opened[f] # NotOpen /\ list[f].stamp = b.opened[f].stamp
    BY <1>7, <1>17, <2>1 DEF shown
  <2>3. CASE f = ed.file
    <3>1. panes[p] = ed
      BY <1>2, <2>3 DEF Tight
    <3>2. back[p] = now
      BY <1>11, <3>1 DEF now
    <3>3. QED
      BY <1>6, <2>2, <2>3, <3>2 DEF Behind
  <2>4. CASE f # ed.file
    <3>1. b.opened[f] = opened[f] /\ f \in Listed(App)
      BY <1>2, <1>5, <2>2, <2>4 DEF Listed
    <3>2. Behind(opened[f], panes[p])
      BY <1>2, <3>1 DEF Loose
    <3>3. Good(opened[f], disk, c) /\ opened[f].file = f
      BY <1>6, <2>2, <3>1
    <3>4. QED
      BY <1>11, <2>2, <3>1, <3>2, <3>3 DEF Behind, Good
  <2>5. QED
    BY <2>3, <2>4
<1>19. Loose(y, disk, c)
  <2>1. back[focus] = Here
    BY <1>2, <1>12, <1>13 DEF Loose, Back
  <2>2. \A p, q \in Back(App) : back[p].file = back[q].file => back[p] = back[q]
    BY <1>2, <1>11 DEF Loose
  <2>3. \A f \in Listed(y) : list[f].file = f /\ Good(list[f], disk, c)
    BY <1>7, <1>17
  <2>4. QED
    BY <1>11, <1>15, <1>16, <1>18, <2>1, <2>2, <2>3 DEF Loose
<1>20. Leads(y, disk, c)
  <2>1. ed.file \in Listed(y) => Behind(list[ed.file], now)
    BY <1>6, <1>7, <1>17 DEF Behind, shown
  <2>2. QED
    BY <1>3, <1>15, <2>1 DEF Leads
<1>21. \A p \in Back(y) : y.panes[p].file = y.ed.file => y.panes[p] = y.ed
  <2>1. SUFFICES ASSUME NEW p \in Back(App), panes[p].file = ed.file PROVE back[p] = now
    BY <1>3, <1>11, <1>15, <1>16
  <2>2. panes[p] = ed
    BY <1>2, <2>1 DEF Tight
  <2>3. QED
    BY <1>11, <2>2 DEF now
<1>22. Tight(y, disk, c)
  BY <1>19, <1>20, <1>21 DEF Tight
<1>23. App' = y
  BY <1>1, <1>22, BecomesApp
<1>24. QED
  BY <1>11, <1>15, <1>16, <1>22, <1>23 DEF c, now

\* The editor's flags and requests do not matter to the panes.
LEMMA WithFlagsTight ==
  ASSUME NEW D, NEW c, NEW s, Tight(s, D, c), NEW i \in {"NONE", "BUFFER", "APP"},
         NEW b \in BOOLEAN
  PROVE  Tight([s EXCEPT !.intent = i], D, c) /\ Tight([s EXCEPT !.closeReq = b], D, c)
<1> DEFINE y == [s EXCEPT !.intent = i]
           z == [s EXCEPT !.closeReq = b]
<1>1. s \in AppUpTo(c)
  BY DEF Tight, Loose
<1>2. y \in AppUpTo(c) /\ y.ed = s.ed /\ y.panes = s.panes /\ y.focus = s.focus /\ y.opened = s.opened
  BY <1>1 DEF AppUpTo
<1>3. z \in AppUpTo(c) /\ z.ed = s.ed /\ z.panes = s.panes /\ z.focus = s.focus /\ z.opened = s.opened
  BY <1>1 DEF AppUpTo
<1> HIDE DEF y, z
<1>4. Tight(y, D, c) /\ Tight(z, D, c)
  BY <1>2, <1>3, FlagsTight
<1>5. QED
  BY <1>4 DEF y, z

\* The clock and the disk move before the handler's state is looked at.
LEMMA TickTight ==
  ASSUME PanesInv, clock <= MaxClock, clock' = clock + 1, UNCHANGED disk
  PROVE  /\ clock' \in Texts /\ disk' \in DiskUpTo(clock') /\ Tight(App, disk', clock')
         /\ disk' = disk
<1>1. clock \in Texts /\ disk \in DiskUpTo(clock) /\ Tight(App, disk, clock)
  BY DEF PanesInv
<1>2. clock' \in Texts /\ clock <= clock'
  BY <1>1, PanesAssumption DEF Texts
<1>3. disk' \in DiskUpTo(clock')
  BY <1>1, <1>2 DEF DiskUpTo, Texts
<1>4. Later(disk, disk', clock')
  BY DEF Later
<1>5. QED
  BY <1>1, <1>2, <1>3, <1>4, TightLater

LEMMA WriteTight ==
  ASSUME PanesInv, clock <= MaxClock, clock' = clock + 1, NEW f \in Paths,
         NEW t \in 1..clock', disk' = [disk EXCEPT ![f] = [text |-> t, stamp |-> clock']]
  PROVE  /\ clock' \in Texts /\ disk' \in DiskUpTo(clock') /\ Tight(App, disk', clock')
         /\ \A g \in Paths \ {f} : disk'[g] = disk[g]
<1>1. clock \in Texts /\ disk \in DiskUpTo(clock) /\ Tight(App, disk, clock)
  BY DEF PanesInv
<1>2. clock' \in Texts /\ clock <= clock'
  BY <1>1, PanesAssumption DEF Texts
<1>3. [text |-> t, stamp |-> clock'] \in [text : 1..clock', stamp : 0..clock']
  BY <1>2 DEF Texts
<1>4. \A g \in Paths : disk[g] \in [text : 1..clock', stamp : 0..clock']
  BY <1>1, <1>2 DEF DiskUpTo, Texts
<1>5. disk' \in DiskUpTo(clock')
  BY <1>1, <1>3, <1>4 DEF DiskUpTo
<1>6. disk'[f].stamp = clock' /\ \A g \in Paths \ {f} : disk'[g] = disk[g]
  BY <1>1 DEF DiskUpTo
<1>7. Later(disk, disk', clock')
  BY <1>6 DEF Later
<1>8. QED
  BY <1>1, <1>2, <1>5, <1>6, <1>7, TightLater

\* Edit, Undo and Redo: a text of the history and the next revision.
Typed(s, d, undo, redo, D, c) ==
    /\ Good(d, D, c) /\ d.file = s.ed.file /\ d.undo = undo /\ d.redo = redo
    /\ Tight(SyncShared([s EXCEPT !.ed = d]), D, c)
    /\ SyncShared([s EXCEPT !.ed = d]) = SyncMatching([s EXCEPT !.ed = d])

LEMMA TypedTight ==
  ASSUME NEW c \in Texts, NEW D, NEW s, Tight(s, D, c), NEW t \in 1..c,
         NEW undo \in Seq(1..c), NEW redo \in Seq(1..c),
         NEW e, e = [s.ed EXCEPT !.undo = undo, !.redo = redo, !.text = t, !.rev = Bump(@)]
  PROVE  Typed(s, RefreshDirty(e), undo, redo, D, c)
<1> DEFINE d == RefreshDirty(e)
<1>1. s.ed \in DocUpTo(c) /\ Good(s.ed, D, c)
  BY DEF Tight, Leads, Good
<1>2. Bump(s.ed.rev) \in 0..(Revisions - 1) /\ Bump(s.ed.rev) # s.ed.rev
  BY <1>1, BumpType DEF DocUpTo
<1>3. /\ e \in DocUpTo(c) /\ e.file = s.ed.file /\ e.stamp = s.ed.stamp
      /\ e.rev = Bump(s.ed.rev) /\ e.undo = undo /\ e.redo = redo
  BY <1>1, <1>2 DEF DocUpTo
<1>4. e.stamp <= D[e.file].stamp \/ D[e.file].stamp = 0
  BY <1>1, <1>3 DEF Good
<1>5. /\ Good(d, D, c) /\ d.file = e.file /\ d.rev = e.rev /\ d.stamp = e.stamp
      /\ d.undo = e.undo /\ d.redo = e.redo
  <2>1. \A z \in DocUpTo(c) : (z.stamp <= D[z.file].stamp \/ D[z.file].stamp = 0) =>
          Good(RefreshDirty(z), D, c) /\ RefreshDirty(z).file = z.file
          /\ RefreshDirty(z).rev = z.rev /\ RefreshDirty(z).stamp = z.stamp
          /\ RefreshDirty(z).undo = z.undo /\ RefreshDirty(z).redo = z.redo
    BY RefreshDirtyGood
  <2>2. QED
    BY <1>3, <1>4, <2>1
<1> HIDE DEF d
<1>6. Typed(s, d, undo, redo, D, c)
  BY <1>2, <1>3, <1>5, EditedTight DEF Typed
<1>7. QED
  BY <1>6 DEF d

LEMMA InvBecomes ==
  ASSUME NEW x, Becomes(x), Tight(x, disk', clock'), clock' \in Texts,
         disk' \in DiskUpTo(clock')
  PROVE  PanesInv'
<1>1. App' = x
  BY BecomesApp
<1>2. QED
  BY <1>1 DEF PanesInv

LEMMA StillTight ==
  ASSUME PanesInv, UNCHANGED Outside
  PROVE  /\ clock' \in Texts /\ disk' \in DiskUpTo(clock') /\ Tight(App, disk', clock')
         /\ disk' = disk /\ clock' = clock
BY DEF PanesInv, Outside

\* The text that a key replaced is in the history.
Remembered ==
    \E d : /\ App' = SyncMatching([App EXCEPT !.ed = d]) /\ Tight(App', disk', clock')
           /\ Good(d, disk', clock') /\ d.file = ed.file
           /\ ed.text \in Range(d.undo) \cup Range(d.redo)

LEMMA AppendRange ==
  ASSUME NEW S, NEW s \in Seq(S), NEW e \in S
  PROVE  e \in Range(Append(s, e))
<1>1. Len(s) + 1 \in DOMAIN Append(s, e) /\ Append(s, e)[Len(s) + 1] = e
  BY AppendProperties, LenProperties
<1>2. QED
  BY <1>1 DEF Range

LEMMA EditStep == PanesInv /\ Edit => PanesInv' /\ Remembered
<1> SUFFICES ASSUME PanesInv, Edit PROVE PanesInv' /\ Remembered
  OBVIOUS
<1> DEFINE e == [ed EXCEPT !.undo = Append(@, ed.text), !.redo = <<>>,
                           !.text = clock', !.rev = Bump(@)]
           d == RefreshDirty(e)
           x == [App EXCEPT !.ed = d]
<1>1. Becomes(SyncShared(x)) /\ clock <= MaxClock /\ clock' = clock + 1 /\ UNCHANGED disk
  BY AppFields, PanesAssumption DEF Edit, Tick, Texts
<1>2. clock' \in Texts /\ disk' \in DiskUpTo(clock') /\ Tight(App, disk', clock')
  BY <1>1, TickTight
<1>3. App.ed = ed /\ ed \in DocUpTo(clock')
  BY <1>2, AppFields DEF Tight, Leads, Good
<1>4. Append(ed.undo, ed.text) \in Seq(1..clock') /\ <<>> \in Seq(1..clock') /\ clock' \in 1..clock'
  BY <1>2, <1>3, AppendProperties, EmptySeq DEF DocUpTo, Texts
<1>5. e = [App.ed EXCEPT !.undo = Append(ed.undo, ed.text), !.redo = <<>>,
                         !.text = clock', !.rev = Bump(@)]
  BY <1>3
<1> HIDE DEF e
<1>6. /\ Tight(SyncShared(x), disk', clock') /\ SyncShared(x) = SyncMatching(x)
      /\ Good(d, disk', clock') /\ d.file = ed.file /\ d.undo = Append(ed.undo, ed.text)
  <2>1. Typed(App, d, Append(ed.undo, ed.text), <<>>, disk', clock')
    BY <1>2, <1>4, <1>5, TypedTight
  <2> HIDE DEF d
  <2>2. QED
    BY <1>3, <2>1 DEF Typed
<1> HIDE DEF d
<1>7. ed.text \in Range(d.undo)
  <2>1. ed.undo \in Seq(1..clock') /\ ed.text \in 1..clock' /\ d.undo = Append(ed.undo, ed.text)
    BY <1>3, <1>6 DEF DocUpTo
  <2>2. QED
    BY <2>1, AppendRange
<1>8. App' = SyncMatching([App EXCEPT !.ed = d])
  BY <1>1, <1>6, BecomesApp
<1>9. QED
  BY <1>1, <1>2, <1>6, <1>7, <1>8, InvBecomes DEF Remembered

LEMMA UndoStep == PanesInv /\ (Undo \/ Redo) => PanesInv' /\ Remembered
<1> SUFFICES ASSUME PanesInv, Undo \/ Redo PROVE PanesInv' /\ Remembered
  OBVIOUS
<1>1. clock' \in Texts /\ disk' \in DiskUpTo(clock') /\ Tight(App, disk', clock')
  BY StillTight DEF Undo, Redo
<1>2. App.ed = ed /\ ed \in DocUpTo(clock')
  BY <1>1, AppFields DEF Tight, Leads, Good
<1>3. \A s \in Seq(1..clock') : s # <<>> =>
        Front(s) \in Seq(1..clock') /\ Last(s) \in 1..clock'
  <2>1. SUFFICES ASSUME NEW s \in Seq(1..clock'), s # <<>>
                 PROVE  Front(s) \in Seq(1..clock') /\ Last(s) \in 1..clock'
    OBVIOUS
  <2>2. Len(s) \in Nat \ {0} /\ \A i \in 1..Len(s) : s[i] \in 1..clock'
    BY <2>1, EmptySeq, ElementOfSeq
  <2>3. Front(s) \in Seq(1..clock')
    BY <2>2, SubSeqProperties DEF Front
  <2>4. QED
    BY <2>2, <2>3 DEF Last
<1>4. CASE Undo
  <2> DEFINE e == [ed EXCEPT !.undo = Front(@), !.text = Last(ed.undo),
                             !.redo = Append(@, ed.text), !.rev = Bump(@)]
             d == RefreshDirty(e)
             x == [App EXCEPT !.ed = d]
  <2>1. Becomes(SyncShared(x)) /\ ed.undo # <<>>
    BY <1>4 DEF Undo
  <2>2. /\ Front(ed.undo) \in Seq(1..clock') /\ Last(ed.undo) \in 1..clock'
        /\ Append(ed.redo, ed.text) \in Seq(1..clock')
    BY <1>2, <1>3, <2>1, AppendProperties DEF DocUpTo
  <2>3. e = [App.ed EXCEPT !.undo = Front(ed.undo), !.redo = Append(ed.redo, ed.text),
                           !.text = Last(ed.undo), !.rev = Bump(@)]
    BY <1>2 DEF DocUpTo
  <2> HIDE DEF e
  <2>4. /\ Tight(SyncShared(x), disk', clock') /\ SyncShared(x) = SyncMatching(x)
        /\ Good(d, disk', clock') /\ d.file = ed.file /\ d.redo = Append(ed.redo, ed.text)
    <3>1. Typed(App, d, Front(ed.undo), Append(ed.redo, ed.text), disk', clock')
      BY <1>1, <2>2, <2>3, TypedTight
    <3> HIDE DEF d
    <3>2. QED
      BY <1>2, <3>1 DEF Typed
  <2> HIDE DEF d
  <2>5. ed.text \in Range(d.redo)
    <3>1. ed.redo \in Seq(1..clock') /\ ed.text \in 1..clock' /\ d.redo = Append(ed.redo, ed.text)
      BY <1>2, <2>4 DEF DocUpTo
    <3>2. QED
      BY <3>1, AppendRange
  <2>6. App' = SyncMatching([App EXCEPT !.ed = d])
    BY <2>1, <2>4, BecomesApp
  <2>7. QED
    BY <1>1, <2>1, <2>4, <2>5, <2>6, InvBecomes DEF Remembered
<1>5. CASE Redo
  <2> DEFINE e == [ed EXCEPT !.redo = Front(@), !.text = Last(ed.redo),
                             !.undo = Append(@, ed.text), !.rev = Bump(@)]
             d == RefreshDirty(e)
             x == [App EXCEPT !.ed = d]
  <2>1. Becomes(SyncShared(x)) /\ ed.redo # <<>>
    BY <1>5 DEF Redo
  <2>2. /\ Front(ed.redo) \in Seq(1..clock') /\ Last(ed.redo) \in 1..clock'
        /\ Append(ed.undo, ed.text) \in Seq(1..clock')
    BY <1>2, <1>3, <2>1, AppendProperties DEF DocUpTo
  <2>3. e = [App.ed EXCEPT !.undo = Append(ed.undo, ed.text), !.redo = Front(ed.redo),
                           !.text = Last(ed.redo), !.rev = Bump(@)]
    BY <1>2 DEF DocUpTo
  <2> HIDE DEF e
  <2>4. /\ Tight(SyncShared(x), disk', clock') /\ SyncShared(x) = SyncMatching(x)
        /\ Good(d, disk', clock') /\ d.file = ed.file /\ d.undo = Append(ed.undo, ed.text)
    <3>1. Typed(App, d, Append(ed.undo, ed.text), Front(ed.redo), disk', clock')
      BY <1>1, <2>2, <2>3, TypedTight
    <3> HIDE DEF d
    <3>2. QED
      BY <1>2, <3>1 DEF Typed
  <2> HIDE DEF d
  <2>5. ed.text \in Range(d.undo)
    <3>1. ed.undo \in Seq(1..clock') /\ ed.text \in 1..clock' /\ d.undo = Append(ed.undo, ed.text)
      BY <1>2, <2>4 DEF DocUpTo
    <3>2. QED
      BY <3>1, AppendRange
  <2>6. App' = SyncMatching([App EXCEPT !.ed = d])
    BY <2>1, <2>4, BecomesApp
  <2>7. QED
    BY <1>1, <2>1, <2>4, <2>5, <2>6, InvBecomes DEF Remembered
<1>6. QED
  BY <1>4, <1>5

\* Save, SaveAndClose, Overwrite, SaveThenClose: the file is written first.
LEMMA WriteFileTight ==
  ASSUME PanesInv, clock <= MaxClock, clock' = clock + 1, NEW f \in Paths,
         WriteFile(f, ed.text)
  PROVE  /\ clock' \in Texts /\ disk' \in DiskUpTo(clock') /\ Tight(App, disk', clock')
         /\ \A g \in Paths \ {f} : disk'[g] = disk[g]
<1>1. ed.text \in 1..clock'
  BY AppFields DEF DocUpTo, Texts
<1>2. QED
  BY <1>1, WriteTight DEF WriteFile

LEMMA SaveStep == PanesInv /\ (Save \/ SaveAndClose \/ Overwrite \/ SaveThenClose) => PanesInv'
<1> SUFFICES ASSUME PanesInv, Save \/ SaveAndClose \/ Overwrite \/ SaveThenClose
             PROVE  PanesInv'
  OBVIOUS
<1> DEFINE f == ed.file
           i == [App EXCEPT !.intent = "NONE"]
<1>1. WriteFile(f, ed.text) /\ clock <= MaxClock /\ clock' = clock + 1
  BY AppFields, PanesAssumption
  DEF Save, SaveAndClose, Overwrite, SaveThenClose, Tick, OneMoreTick, Texts
<1>2. f \in Paths
  BY AppFields
<1>3. /\ clock' \in Texts /\ disk' \in DiskUpTo(clock') /\ Tight(App, disk', clock')
      /\ \A g \in Paths \ {f} : disk'[g] = disk[g]
  BY <1>1, <1>2, WriteFileTight
<1>4. SyncShared(App) = App
  BY <1>3, SyncSharedSame
<1> HIDE DEF f
<1>5. \A s : Tight(s, disk', clock') => /\ Tight(Written(s, f), disk', clock')
                                        /\ OpenFilePre(Written(s, f), disk')
  BY <1>2, <1>3, WrittenTight DEF OpenFilePre
<1>6. Tight(i, disk', clock')
  BY <1>3, WithFlagsTight
<1>7. CASE Save
  BY <1>3, <1>4, <1>5, <1>7, InvBecomes DEF Save, f
<1>8. CASE SaveAndClose
  BY <1>3, <1>4, <1>5, <1>8, CloseCurrentTight, InvBecomes DEF SaveAndClose, f
<1>9. CASE Overwrite
  BY <1>3, <1>5, <1>9, InvBecomes DEF Overwrite, f
<1>10. CASE SaveThenClose
  <2> DEFINE a == Written(i, f)
  <2>1. Tight(a, disk', clock') /\ OpenFilePre(a, disk')
    BY <1>5, <1>6
  <2>2. \/ \E s \in AskOrClose(a) : Becomes(s)
        \/ Becomes(CloseCurrent(a))
    BY <1>10 DEF SaveThenClose, f
  <2> HIDE DEF a
  <2>3. QED
    BY <1>3, <2>1, <2>2, AskOrCloseTight, CloseCurrentTight, InvBecomes
<1>11. QED
  BY <1>7, <1>8, <1>9, <1>10

\* The handlers that leave the disk alone.
LEMMA QuietStep ==
  ASSUME PanesInv,
         \/ CloseDeleted \/ ForceClose \/ RequestClose \/ Reload \/ Split \/ CloseSplit
         \/ RequestCloseApp \/ Discard
         \/ (\E f \in Paths : Open(f) \/ CloseTab(f))
         \/ (\E p \in PaneIds : FocusPane(p))
  PROVE  PanesInv'
<1>1. /\ clock' \in Texts /\ disk' \in DiskUpTo(clock') /\ Tight(App, disk', clock')
      /\ disk' = disk
  BY StillTight DEF CloseDeleted, ForceClose, RequestClose, Reload, Split, CloseSplit,
                    RequestCloseApp, Discard, Open, CloseTab, FocusPane
<1>2. \A s : OpenFilePre(s, disk')
  BY <1>1 DEF OpenFilePre
<1>3. SyncShared(App) = App
  BY <1>1, SyncSharedSame
<1>4. /\ App.ed = ed /\ App.panes = panes /\ App.focus = focus /\ App.opened = opened
      /\ ed.file \in Paths /\ ed \in DocUpTo(clock') /\ Good(ed, disk', clock')
  BY <1>1, AppFields DEF Tight, Leads, Good
<1>5. CASE CloseDeleted \/ ForceClose
  BY <1>1, <1>2, <1>5, CloseCurrentTight, InvBecomes DEF CloseDeleted, ForceClose
<1>6. CASE RequestClose
  <2> DEFINE b == [App EXCEPT !.intent = "BUFFER"]
  <2>1. Tight(b, disk', clock')
    BY <1>1, WithFlagsTight
  <2>2. Tight(CloseCurrent(App), disk', clock')
    BY <1>1, <1>2, CloseCurrentTight
  <2>3. Becomes(b) \/ Becomes(CloseCurrent(App))
    BY <1>6 DEF RequestClose
  <2> HIDE DEF b
  <2>4. QED
    BY <1>1, <2>1, <2>2, <2>3, InvBecomes
<1>7. CASE Reload
  <2> DEFINE d == FromDisk(ed.file, Bump(ed.rev))
             x == [App EXCEPT !.ed = d]
  <2>1. Bump(ed.rev) \in 0..(Revisions - 1)
    BY <1>4, BumpType DEF DocUpTo
  <2>2. Good(d, disk', clock') /\ d.stamp = disk'[d.file].stamp
    BY <1>1, <1>4, <2>1, FromDiskGood
  <2>3. Becomes(StoreCurrent(SyncMatching(x)))
    BY <1>7 DEF Reload
  <2> HIDE DEF d
  <2>4. /\ x \in AppUpTo(clock') /\ x.ed = d /\ x.panes = panes /\ x.focus = focus
        /\ x.opened = opened
    BY <1>1, <1>4, <2>2 DEF Tight, Loose, Good, AppUpTo
  <2> HIDE DEF x
  <2>5. Tight(StoreCurrent(SyncMatching(x)), disk', clock')
    BY <1>1, <1>4, <2>2, <2>4, ReplacedTight, StoreTight
  <2>6. QED
    BY <1>1, <2>3, <2>5, InvBecomes
<1>8. CASE Split
  <2>1. PICK p \in PaneIds :
          /\ panes[p] = Shut
          /\ Becomes(SyncShared([App EXCEPT !.panes = [@ EXCEPT ![focus] = ed, ![p] = Here],
                                            !.focus = p]))
    BY <1>8 DEF Split
  <2>2. [App EXCEPT !.panes = [@ EXCEPT ![focus] = ed, ![p] = Here], !.focus = p]
          = [App EXCEPT !.panes = [@ EXCEPT ![App.focus] = App.ed, ![p] = Here], !.focus = p]
    BY <1>4
  <2>3. QED
    BY <1>1, <1>4, <2>1, <2>2, SplitTight, InvBecomes
<1>9. ASSUME NEW p \in PaneIds, FocusPane(p) PROVE PanesInv'
  <2>1. p \in Back(App)
    BY <1>9 DEF FocusPane
  <2>2. Becomes([App EXCEPT !.panes = [@ EXCEPT ![App.focus] = App.ed, ![p] = Here],
                            !.ed = App.panes[p], !.focus = p])
    BY <1>3, <1>4, <1>9 DEF FocusPane
  <2>3. QED
    BY <1>1, <2>1, <2>2, FocusTight, InvBecomes
<1>10. CASE CloseSplit
  <2>1. CASE Back(App) = {}
    <3> DEFINE b == [App EXCEPT !.closeReq = TRUE]
    <3>1. Becomes(b)
      BY <1>10, <2>1 DEF CloseSplit
    <3>2. Tight(b, disk', clock')
      BY <1>1, WithFlagsTight
    <3> HIDE DEF b
    <3>3. QED
      BY <1>1, <3>1, <3>2, InvBecomes
  <2>2. CASE Back(App) # {}
    <3>1. PICK p \in Back(App) :
            Becomes([App EXCEPT !.panes = [@ EXCEPT ![App.focus] = Shut, ![p] = Here],
                                !.ed = App.panes[p], !.focus = p])
      BY <1>3, <1>4, <1>10, <2>2 DEF CloseSplit
    <3>2. QED
      BY <1>1, <3>1, FocusTight, InvBecomes
  <2>3. QED
    BY <2>1, <2>2
<1>11. CASE RequestCloseApp
  BY <1>1, <1>2, <1>11, AskOrCloseTight, InvBecomes DEF RequestCloseApp
<1>12. CASE Discard
  <2> DEFINE a == CloseCurrent([App EXCEPT !.intent = "NONE"])
  <2>1. Tight(a, disk', clock')
    BY <1>1, <1>2, WithFlagsTight, CloseCurrentTight
  <2>2. Becomes(a) \/ \E s \in AskOrClose(a) : Becomes(s)
    BY <1>12 DEF Discard
  <2> HIDE DEF a
  <2>3. QED
    BY <1>1, <1>2, <2>1, <2>2, AskOrCloseTight, InvBecomes
<1>13. ASSUME NEW f \in Paths, Open(f) PROVE PanesInv'
  BY <1>1, <1>2, <1>13, OpenFileTight, InvBecomes DEF Open
<1>14. ASSUME NEW f \in Paths, CloseTab(f) PROVE PanesInv'
  <2> DEFINE gone == Forget(App, f)
             o == OpenFile(App, f, TRUE)
             x == [o EXCEPT !.intent = "BUFFER"]
             y == [gone EXCEPT !.closeReq = TRUE]
  <2>1. Becomes(x) \/ Becomes(y) \/ Becomes(gone)
    BY <1>14 DEF CloseTab
  <2>2. Tight(gone, disk', clock') /\ Tight(o, disk', clock')
    BY <1>1, <1>2, ForgetTight, OpenFileTight
  <2> HIDE DEF gone, o
  <2>3. Tight(x, disk', clock') /\ Tight(y, disk', clock')
    BY <2>2, WithFlagsTight
  <2> HIDE DEF x, y
  <2>4. QED
    BY <1>1, <2>1, <2>2, <2>3, InvBecomes
<1>15. QED
  BY <1>5, <1>6, <1>7, <1>8, <1>9, <1>10, <1>11, <1>12, <1>13, <1>14

LEMMA RenamedTight ==
  ASSUME PanesInv, NEW f \in Paths, SaveDeletedAs(f)
  PROVE  LET x == [App EXCEPT !.opened[ed.file] = NotOpen,
                              !.recent = ReplaceAll(@, ed.file, f)]
         IN  /\ Tight(x, disk', clock') /\ Tight(Written(x, f), disk', clock')
             /\ Becomes(Written(x, f)) /\ clock' \in Texts /\ disk' \in DiskUpTo(clock')
<1> DEFINE r == ReplaceAll(recent, ed.file, f)
           x == [App EXCEPT !.opened[ed.file] = NotOpen,
                            !.recent = ReplaceAll(@, ed.file, f)]
<1>1. WriteFile(f, ed.text) /\ clock <= MaxClock /\ clock' = clock + 1 /\ Becomes(Written(x, f))
  BY AppFields, PanesAssumption DEF SaveDeletedAs, Tick, Texts
<1>2. /\ clock' \in Texts /\ disk' \in DiskUpTo(clock') /\ Tight(App, disk', clock')
  BY <1>1, WriteFileTight
<1>3. App \in AppUpTo(clock') /\ App.recent = recent /\ App.ed = ed /\ ed.file \in Paths
  BY <1>2, AppFields DEF Tight, Loose
<1>4. r \in Seq(Paths)
  <2>1. recent \in Seq(Paths)
    BY <1>3 DEF AppUpTo
  <2>2. Len(recent) \in Nat /\ \A i \in 1..Len(recent) : recent[i] \in Paths
    BY <2>1, LenProperties, ElementOfSeq
  <2>3. r \in [1..Len(recent) -> Paths]
    BY <2>2 DEF ReplaceAll
  <2>4. QED
    BY <2>2, <2>3, SeqDef
<1>5. x = [App EXCEPT !.opened[ed.file] = NotOpen, !.recent = r]
  BY <1>3
<1> HIDE DEF x, r
<1>6. /\ x \in AppUpTo(clock') /\ x.ed = App.ed /\ x.panes = App.panes /\ x.focus = App.focus
      /\ x.opened[ed.file] = NotOpen /\ \A g \in Paths \ {ed.file} : x.opened[g] = App.opened[g]
  BY <1>3, <1>4, <1>5 DEF AppUpTo
<1>7. Tight(x, disk', clock')
  BY <1>2, <1>3, <1>6, ListTight
<1>8. QED
  BY <1>1, <1>2, <1>7, WrittenTight DEF x

LEMMA SaveDeletedAsStep ==
  ASSUME PanesInv, NEW f \in Paths, SaveDeletedAs(f)
  PROVE  PanesInv'
BY RenamedTight, InvBecomes

LEMMA LspEditStep ==
  ASSUME PanesInv, NEW f \in Paths, LspEdit(f)
  PROVE  PanesInv'
<1> DEFINE e == clock'
<1>1. clock <= MaxClock /\ clock' = clock + 1 /\ UNCHANGED disk /\ f # ed.file
  BY AppFields, PanesAssumption DEF LspEdit, Tick, Texts
<1>2. clock' \in Texts /\ disk' \in DiskUpTo(clock') /\ Tight(App, disk', clock') /\ disk' = disk
  BY <1>1, TickTight
<1>3. /\ App \in AppUpTo(clock') /\ Loose(App, disk', clock')
      /\ Tight(App, disk, clock) /\ Loose(App, disk, clock) /\ clock \in Texts
      /\ disk \in DiskUpTo(clock)
  BY <1>2, AppFields DEF Tight, Loose
<1>4. PICK d : /\ opened' = [opened EXCEPT ![f] = d]
               /\ d.file = f /\ Good(d, disk', clock')
               /\ \A p \in Back(App) : panes[p].file = f => Behind(d, panes[p])
  <2>1. CASE opened[f] # NotOpen /\ opened' = [opened EXCEPT ![f].text = clock', ![f].dirty = TRUE]
    <3> DEFINE o == opened[f]
               d == [o EXCEPT !.text = clock', !.dirty = TRUE]
    <3>1. f \in Listed(App) /\ App.opened = opened /\ App.panes = panes
      BY <2>1 DEF Listed, App
    <3>2. Good(o, disk, clock) /\ Good(o, disk', clock') /\ o.file = f
      BY <1>3, <3>1 DEF Loose
    <3>3. o \in DocUpTo(clock) /\ o \in DocUpTo(clock')
      BY <3>2 DEF Good
    <3>4. opened' = [opened EXCEPT ![f] = d]
      <4>1. opened \in [Paths -> DocUpTo(clock) \cup {NotOpen}]
        BY <1>3, <3>1 DEF Tight, Loose, AppUpTo
      <4>2. QED
        BY <2>1, <4>1
    <3> HIDE DEF o
    <3>5. /\ d \in DocUpTo(clock') /\ d.file = f /\ d.stamp = o.stamp /\ d.saved = o.saved
          /\ d.text = clock'
      <4>1. clock' \in 1..clock'
        BY <1>2 DEF Texts
      <4>2. d \in DocUpTo(clock')
        BY <3>3, <4>1 DEF DocUpTo
      <4>3. QED
        BY <3>2, <3>3, <4>2 DEF DocUpTo
    <3>6. d.dirty = TRUE
      BY <3>3 DEF DocUpTo
    <3> HIDE DEF d
    <3>7. d.text # d.saved
      BY <1>1, <1>3, <3>3, <3>5 DEF DocUpTo, Texts
    <3>8. Good(d, disk', clock')
      BY <3>2, <3>5, <3>6, <3>7 DEF Good
    <3>9. \A p \in Back(App) : panes[p].file = f => Behind(d, panes[p])
      BY <1>3, <3>1, <3>5 DEF Loose, Behind, o
    <3>10. QED
      BY <3>4, <3>5, <3>8, <3>9
  <2>2. CASE opened' = [opened EXCEPT ![f] = [FromDisk(f, 0) EXCEPT
                            !.text = clock', !.dirty = TRUE, !.stamp = 0]]
    <3> DEFINE o == FromDisk(f, 0)
               d == [o EXCEPT !.text = clock', !.dirty = TRUE, !.stamp = 0]
    <3>1. 0 \in 0..(Revisions - 1)
      BY PanesAssumption
    <3>2. Good(o, disk, clock) /\ o.file = f
      BY <1>3, <3>1, FromDiskGood
    <3>3. o \in DocUpTo(clock) /\ o \in DocUpTo(clock')
      BY <1>1, <1>2, <1>3, <3>2, DocLater DEF Good, Texts
    <3> HIDE DEF o
    <3>4. /\ d \in DocUpTo(clock') /\ d.file = f /\ d.stamp = 0 /\ d.saved = o.saved
          /\ d.text = clock'
      <4>1. clock' \in 1..clock' /\ 0 \in 0..clock'
        BY <1>2 DEF Texts
      <4>2. d \in DocUpTo(clock')
        BY <3>3, <4>1 DEF DocUpTo
      <4>3. QED
        BY <3>2, <3>3, <4>2 DEF DocUpTo
    <3>5. d.dirty = TRUE
      BY <3>3 DEF DocUpTo
    <3>6. opened' = [opened EXCEPT ![f] = d]
      BY <2>2 DEF o
    <3> HIDE DEF d
    <3>7. d.text # d.saved
      BY <1>1, <1>3, <3>3, <3>4 DEF DocUpTo, Texts
    <3>8. disk'[f].stamp \in Nat
      BY <1>2 DEF DiskUpTo
    <3>9. Good(d, disk', clock')
      BY <3>4, <3>5, <3>7, <3>8 DEF Good
    <3>10. \A p \in Back(App) : panes[p].file = f => Behind(d, panes[p])
      <4>1. \A p \in Back(App) : panes[p] \in DocUpTo(clock)
        BY <1>3 DEF Loose, Good, App
      <4>2. QED
        BY <3>4, <4>1 DEF Behind, DocUpTo
    <3>11. QED
      BY <3>4, <3>6, <3>9, <3>10
  <2>3. QED
    BY <2>1, <2>2 DEF LspEdit
<1>5. /\ App'.ed = App.ed /\ App'.panes = App.panes /\ App'.focus = App.focus
      /\ App.panes = panes /\ App.ed = ed /\ App.opened = opened /\ App'.opened = opened'
      /\ App' = [App EXCEPT !.opened = opened']
  BY DEF LspEdit, App
<1>6. opened \in [Paths -> DocUpTo(clock') \cup {NotOpen}]
  BY <1>3, <1>5 DEF AppUpTo
<1>7. /\ opened' \in [Paths -> DocUpTo(clock') \cup {NotOpen}] /\ opened'[f] = d
      /\ \A g \in Paths \ {f} : opened'[g] = opened[g]
  BY <1>4, <1>6 DEF Good
<1>8. App' \in AppUpTo(clock')
  BY <1>3, <1>5, <1>7 DEF AppUpTo
<1>9. Tight(App', disk', clock')
  <2>1. \/ App'.opened[f] = NotOpen
        \/ /\ App'.opened[f].file = f
           /\ Good(App'.opened[f], disk', clock')
           /\ f = App.ed.file => Behind(App'.opened[f], App.ed)
           /\ \A p \in Back(App) : App.panes[p].file = f => Behind(App'.opened[f], App.panes[p])
    BY <1>1, <1>4, <1>5, <1>7
  <2>2. \A g \in Paths \ {f} : App'.opened[g] = App.opened[g]
    BY <1>5, <1>7
  <2> DEFINE y == App'
  <2>3. y \in AppUpTo(clock') /\ y.ed = App.ed /\ y.panes = App.panes /\ y.focus = App.focus
    BY <1>5, <1>8
  <2> HIDE DEF y
  <2>4. Tight(y, disk', clock')
    BY <1>2, <2>1, <2>2, <2>3, ListTight DEF y
  <2>5. QED
    BY <2>4 DEF y
<1>10. QED
  BY <1>2, <1>9 DEF PanesInv

LEMMA DiskStep ==
  ASSUME PanesInv, NEW f \in Paths, DiskWrite(f) \/ DiskDelete(f)
  PROVE  PanesInv'
<1>1. App' = App
  BY DEF DiskWrite, DiskDelete, App
<1>2. clock <= MaxClock /\ clock' = clock + 1
  BY AppFields, PanesAssumption DEF DiskWrite, DiskDelete, Tick, Texts
<1>3. CASE DiskWrite(f)
  <2>1. clock' \in 1..clock'
    BY <1>2, AppFields DEF Texts
  <2>2. QED
    BY <1>1, <1>2, <1>3, <2>1, WriteTight DEF DiskWrite, PanesInv
<1>4. CASE DiskDelete(f)
  <2>1. /\ clock \in Texts /\ disk \in DiskUpTo(clock) /\ Tight(App, disk, clock)
        /\ disk' = [disk EXCEPT ![f].stamp = 0]
    BY <1>4, AppFields DEF DiskDelete
  <2>2. clock' \in Texts /\ clock <= clock'
    BY <1>2, <2>1, PanesAssumption DEF Texts
  <2>3. disk' \in DiskUpTo(clock')
    BY <1>2, <2>1, <2>2 DEF DiskUpTo, Texts
  <2>4. Later(disk, disk', clock')
    BY <2>1 DEF Later, DiskUpTo
  <2>5. Tight(App, disk', clock')
    BY <2>1, <2>2, <2>3, <2>4, TightLater
  <2>6. QED
    BY <1>1, <2>2, <2>3, <2>5 DEF PanesInv
<1>5. QED
  BY <1>3, <1>4

LEMMA PanesInvStep == PanesInv /\ [Next]_vars => PanesInv'
<1> SUFFICES ASSUME PanesInv, [Next]_vars PROVE PanesInv'
  OBVIOUS
<1>1. CASE UNCHANGED vars
  BY <1>1 DEF vars, PanesInv, App
<1>2. CASE Notice
  <2>1. clock' = clock /\ disk' = disk
    BY <1>2 DEF Notice
  <2>2. QED
    BY <1>2, <2>1, NoticeTight DEF PanesInv
<1>3. QED
  BY <1>1, <1>2, EditStep, UndoStep, SaveStep, QuietStep, SaveDeletedAsStep, LspEditStep, DiskStep
  DEF Next

LEMMA PanesInvAlways == Spec => []PanesInv
BY PanesInvInit, PanesInvStep, PTL DEF Spec

\* Every document is well formed; only the focused pane lends its text.
THEOREM PanesTyped == Spec => []TypeOK
<1>1. ASSUME PanesInv PROVE TypeOK
  <2>1. /\ App \in AppUpTo(clock) /\ Loose(App, disk, clock) /\ ed \in DocUpTo(clock)
        /\ clock \in Texts /\ App.panes = panes /\ App.focus = focus /\ App.opened = opened
        /\ App.intent = intent
    BY <1>1, AppFields DEF Tight
  <2>2. ed \in Doc
    BY <2>1, Absent
  <2>3. focus \in PaneIds /\ intent \in {"NONE", "BUFFER", "APP"}
    BY <2>1 DEF AppUpTo
  <2>4. panes[focus] = Here /\ \A p \in PaneIds \ {focus} : panes[p] = Shut \/ panes[p] \in Doc
    BY <2>1, Absent DEF Loose, Good, Back
  <2>5. \A f \in Paths : opened[f] = NotOpen \/ (opened[f] \in Doc /\ opened[f].file = f)
    BY <2>1, Absent DEF Loose, Good, Listed
  <2>6. QED
    BY <2>1, <2>2, <2>3, <2>4, <2>5 DEF TypeOK
<1>2. QED
  BY <1>1, PanesInvAlways, PTL

\* Panes that show one file show one document: text, history and flags are the
\* same whatever was typed, saved, reloaded, split or noticed on the disk
\* (sync_shared_panes and sync_current_file_to_matching_panes).
THEOREM PanesAgreeAlways == Spec => []PanesAgree
<1>1. ASSUME PanesInv PROVE PanesAgree
  <2>1. Tight(App, disk, clock) /\ App.ed = ed /\ App.panes = panes
    BY <1>1, AppFields
  <2>2. QED
    BY <2>1 DEF Tight, Loose, PanesAgree, Shown
<1>2. QED
  BY <1>1, PanesInvAlways, PTL

\* A document is marked unsaved exactly when its text is not what was saved or
\* loaded, in the editor, in a pane and in the list; so the questions before a
\* close are asked when they should be (refresh_editor_dirty, mark_editor_saved).
THEOREM DirtyIsTrueAlways == Spec => []DirtyIsTrue
<1>1. ASSUME PanesInv PROVE DirtyIsTrue
  <2>1. /\ Tight(App, disk, clock) /\ App.ed = ed /\ App.panes = panes /\ App.opened = opened
        /\ Good(ed, disk, clock)
    BY <1>1, AppFields
  <2>2. \A d \in Shown \cup {opened[f] : f \in Listed(App)} : Good(d, disk, clock)
    BY <2>1 DEF Tight, Loose, Shown
  <2>3. QED
    BY <2>2 DEF DirtyIsTrue, Good
<1>2. QED
  BY <1>1, PanesInvAlways, PTL

\* The listed copy of a file never claims a newer state of the disk than the
\* pane that shows it (update_open_file_change skips files that are shown).
THEOREM ListedNeverAhead == Spec => []ListedNotAhead
<1>1. ASSUME PanesInv PROVE ListedNotAhead
  <2>1. /\ Tight(App, disk, clock) /\ App.ed = ed /\ App.panes = panes /\ App.opened = opened
    BY <1>1, AppFields
  <2>2. QED
    BY <2>1 DEF Tight, Loose, Leads, Behind, Shown, ListedNotAhead
<1>2. QED
  BY <1>1, PanesInvAlways, PTL

-----------------------------------------------------------------------------
(* Unsaved text *)

\* Where a text of the panes may be found again; the disk comes on top.
Has(s, t) ==
    \/ t = s.ed.text \/ t \in Range(s.ed.undo) \cup Range(s.ed.redo)
    \/ \E p \in Back(s) : t = s.panes[p].text
    \/ \E f \in Listed(s) : t = s.opened[f].text
Shows(s, t) == t = s.ed.text \/ \E p \in Back(s) : t = s.panes[p].text

\* The panes are as before, and the text that was in the editor still is, or is listed.
Keeps(s, y) ==
    /\ y.panes = s.panes /\ y.focus = s.focus
    /\ \/ y.ed.text = s.ed.text
       \/ s.ed.file \in Listed(y) /\ y.opened[s.ed.file].text = s.ed.text

LEMMA KeepsHas ==
  ASSUME NEW s, NEW y, Keeps(s, y), NEW t, Shows(s, t)
  PROVE  Has(y, t)
<1>1. Back(y) = Back(s)
  BY DEF Keeps, Back
<1>2. QED
  BY <1>1 DEF Keeps, Shows, Has

LEMMA StoreKeeps ==
  ASSUME NEW c \in Texts, NEW s \in AppUpTo(c)
  PROVE  LET y == StoreCurrent(s) IN
         /\ y \in AppUpTo(c) /\ y.ed = s.ed /\ y.panes = s.panes /\ y.focus = s.focus
         /\ s.ed.file \in Listed(y) /\ y.opened[s.ed.file].text = s.ed.text
         /\ \A g \in Paths \ {s.ed.file} : y.opened[g] = s.opened[g]
<1> DEFINE d == [s.ed EXCEPT !.rev = 0]
           y == StoreCurrent(s)
<1>1. s.ed \in DocUpTo(c) /\ s.ed.file \in Paths /\ 0 \in 0..(Revisions - 1)
  BY PanesAssumption DEF AppUpTo, DocUpTo
<1>2. d \in DocUpTo(c) /\ d.text = s.ed.text
  BY <1>1 DEF DocUpTo
<1>3. y = [s EXCEPT !.opened[s.ed.file] = d]
  BY DEF StoreCurrent
<1> HIDE DEF d, y
<1>4. /\ y \in AppUpTo(c) /\ y.ed = s.ed /\ y.panes = s.panes /\ y.focus = s.focus
      /\ y.opened[s.ed.file] = d /\ \A g \in Paths \ {s.ed.file} : y.opened[g] = s.opened[g]
  BY <1>1, <1>2, <1>3 DEF AppUpTo
<1>5. d # NotOpen
  BY <1>2, Absent
<1>6. QED
  BY <1>1, <1>2, <1>4, <1>5 DEF Listed, y

LEMMA TouchKeeps ==
  ASSUME NEW c, NEW s \in AppUpTo(c), NEW f \in Paths
  PROVE  LET y == Touch(s, f) IN
         /\ y.ed = s.ed /\ y.panes = s.panes /\ y.focus = s.focus
         /\ y.opened = s.opened
BY DEF Touch, AppUpTo

\* A document goes into the editor, and into the list when it was not there.
LEMMA LoadKeeps ==
  ASSUME NEW c \in Texts, NEW s \in AppUpTo(c), NEW f \in Paths,
         NEW x \in AppUpTo(c), x.panes = s.panes, x.focus = s.focus, x.opened = s.opened,
         x.ed.file = f,
         NEW z \in {Touch(x, f), Touch(StoreCurrent(x), f)}
  PROVE  /\ z.panes = s.panes /\ z.focus = s.focus
         /\ \A g \in Paths \ {f} : z.opened[g] = s.opened[g]
<1>1. CASE z = Touch(x, f)
  BY <1>1, TouchKeeps
<1>2. CASE z = Touch(StoreCurrent(x), f)
  <2> DEFINE y == StoreCurrent(x)
  <2>1. /\ y \in AppUpTo(c) /\ y.panes = x.panes /\ y.focus = x.focus
        /\ \A g \in Paths \ {f} : y.opened[g] = x.opened[g]
    BY StoreKeeps
  <2> HIDE DEF y
  <2>2. QED
    BY <1>2, <2>1, TouchKeeps DEF y
<1>3. QED
  BY <1>1, <1>2

LEMMA OpenFileKeeps ==
  ASSUME NEW c \in Texts, NEW D \in DiskUpTo(c), NEW s, Tight(s, D, c), OpenFilePre(s, D),
         NEW f \in Paths, NEW store \in BOOLEAN
  PROVE  LET y == OpenFile(s, f, store) IN
         y.panes = s.panes /\ y.focus = s.focus /\ (store => Keeps(s, y))
<1> DEFINE a == IF store THEN StoreCurrent(s) ELSE s
           rev == Bump(a.ed.rev)
           y == OpenFile(s, f, store)
           Kept(z) == /\ z.panes = a.panes /\ z.focus = a.focus
                      /\ \A g \in Paths \ {f} : z.opened[g] = a.opened[g]
<1>1. s \in AppUpTo(c) /\ s.ed.file \in Paths
  BY DEF Tight, Loose, Leads, Good, DocUpTo
<1>2. /\ Tight(a, D, c) /\ a \in AppUpTo(c) /\ a.ed = s.ed /\ a.panes = s.panes /\ a.focus = s.focus
      /\ store => s.ed.file \in Listed(a) /\ a.opened[s.ed.file].text = s.ed.text
  BY <1>1, StoreTight, StoreKeeps
<1>3. y = IF a.ed.file = f THEN Touch(a, f)
          ELSE IF Showing(a, f) # {}
               THEN Touch(StoreCurrent([a EXCEPT !.ed = a.panes[Min(Showing(a, f))]]), f)
          ELSE IF a.opened[f] # NotOpen
               THEN Touch([a EXCEPT !.ed = [a.opened[f] EXCEPT !.rev = rev],
                                    !.intent = "NONE"], f)
          ELSE IF Exists(f)
               THEN Touch(StoreCurrent([a EXCEPT !.ed = FromDisk(f, rev),
                                                 !.intent = "NONE"]), f)
          ELSE a
  BY DEF OpenFile
<1> HIDE DEF a, y
<1>4. Loose(a, D, c) /\ rev \in 0..(Revisions - 1)
  BY <1>2, BumpType DEF Tight, Leads, Good, DocUpTo
<1> HIDE DEF rev
<1>5. y.panes = a.panes /\ y.focus = a.focus
      /\ (y.opened = a.opened \/ (a.ed.file # f /\ Kept(y)))
  <2>1. CASE a.ed.file = f
    BY <1>2, <1>3, <2>1, TouchKeeps
  <2>2. CASE a.ed.file # f /\ Showing(a, f) # {}
    <3> DEFINE p == Min(Showing(a, f))
               x == [a EXCEPT !.ed = a.panes[p]]
    <3>1. p \in Showing(a, f)
      <4>1. Showing(a, f) \in SUBSET Nat
        BY DEF Showing, Back, PaneIds
      <4>2. QED
        BY <2>2, <4>1, MinIsIn
    <3> HIDE DEF p
    <3>2. p \in Back(a) /\ a.panes[p].file = f /\ Good(a.panes[p], D, c)
      BY <1>4, <3>1 DEF Showing, Loose
    <3>3. /\ x \in AppUpTo(c) /\ x.ed = a.panes[p] /\ x.panes = a.panes /\ x.focus = a.focus
          /\ x.opened = a.opened
      BY <1>2, <3>2 DEF AppUpTo, Good
    <3>4. y = Touch(StoreCurrent(x), f)
      BY <1>3, <2>2 DEF p
    <3> HIDE DEF x
    <3>5. Kept(y)
      BY <1>2, <3>2, <3>3, <3>4, LoadKeeps
    <3>6. QED
      BY <2>2, <3>5
  <2>3. CASE a.ed.file # f /\ Showing(a, f) = {} /\ a.opened[f] # NotOpen
    <3> DEFINE d == [a.opened[f] EXCEPT !.rev = rev]
               x == [a EXCEPT !.ed = d, !.intent = "NONE"]
    <3>1. a.opened[f] \in DocUpTo(c) /\ a.opened[f].file = f
      BY <1>4, <2>3 DEF Loose, Listed, Good
    <3>2. d \in DocUpTo(c) /\ d.file = f
      BY <1>4, <3>1 DEF DocUpTo
    <3>3. y = Touch(x, f)
      BY <1>3, <2>3
    <3> HIDE DEF d
    <3>4. /\ x \in AppUpTo(c) /\ x.ed = d /\ x.panes = a.panes /\ x.focus = a.focus
          /\ x.opened = a.opened
      BY <1>2, <3>2 DEF AppUpTo
    <3> HIDE DEF x
    <3>5. Kept(y)
      BY <1>2, <3>2, <3>3, <3>4, LoadKeeps
    <3>6. QED
      BY <2>3, <3>5
  <2>4. CASE a.ed.file # f /\ Showing(a, f) = {} /\ a.opened[f] = NotOpen /\ Exists(f)
    <3> DEFINE d == FromDisk(f, rev)
               x == [a EXCEPT !.ed = d, !.intent = "NONE"]
    <3>1. Good(d, D, c) /\ d.file = f
      BY <1>2, <1>4, <2>4, FromDiskGood DEF OpenFilePre
    <3>2. y = Touch(StoreCurrent(x), f)
      BY <1>3, <2>4
    <3> HIDE DEF d
    <3>3. /\ x \in AppUpTo(c) /\ x.ed = d /\ x.panes = a.panes /\ x.focus = a.focus
          /\ x.opened = a.opened
      BY <1>2, <3>1 DEF AppUpTo, Good
    <3> HIDE DEF x
    <3>4. Kept(y)
      BY <1>2, <3>1, <3>2, <3>3, LoadKeeps
    <3>5. QED
      BY <2>4, <3>4
  <2>5. CASE a.ed.file # f /\ Showing(a, f) = {} /\ a.opened[f] = NotOpen /\ ~Exists(f)
    BY <1>3, <2>5
  <2>6. QED
    BY <2>1, <2>2, <2>3, <2>4, <2>5
<1>6. store => s.ed.file \in Listed(y) /\ y.opened[s.ed.file].text = s.ed.text
  BY <1>1, <1>2, <1>5 DEF Listed
<1>7. QED
  BY <1>2, <1>5, <1>6 DEF Keeps, y

LEMMA CloseCurrentKeeps ==
  ASSUME NEW c \in Texts, NEW D \in DiskUpTo(c), NEW s, Tight(s, D, c), OpenFilePre(s, D)
  PROVE  CloseCurrent(s).panes = s.panes /\ CloseCurrent(s).focus = s.focus
<1> DEFINE a == Forget(s, s.ed.file)
           f == IF a.recent # <<>> THEN Last(a.recent) ELSE CHOOSE g \in Listed(a) : TRUE
<1>1. Tight(a, D, c) /\ a.ed = s.ed /\ a.panes = s.panes /\ a.focus = s.focus
  <2>1. s \in AppUpTo(c) /\ s.ed.file \in Paths
    BY DEF Tight, Loose, Leads, Good, DocUpTo
  <2>2. QED
    BY <2>1, ForgetTight DEF Forget, AppUpTo
<1>2. CloseCurrent(s) = IF Listed(a) = {} THEN [a EXCEPT !.closeReq = TRUE]
                        ELSE OpenFile(a, f, FALSE)
  BY DEF CloseCurrent
<1> HIDE DEF a
<1>3. a \in AppUpTo(c)
  BY <1>1 DEF Tight, Loose
<1>4. CASE Listed(a) = {}
  BY <1>1, <1>2, <1>3, <1>4 DEF AppUpTo
<1>5. CASE Listed(a) # {}
  <2>1. f \in Paths
    <3>1. a.recent \in Seq(Paths)
      BY <1>3 DEF AppUpTo
    <3>2. a.recent # <<>> => Len(a.recent) \in 1..Len(a.recent)
      BY <3>1, EmptySeq
    <3>3. a.recent # <<>> => Last(a.recent) \in Paths
      BY <3>1, <3>2, ElementOfSeq DEF Last
    <3>4. QED
      BY <1>5, <3>3 DEF Listed
  <2> HIDE DEF f
  <2>2. QED
    <3>1. OpenFilePre(a, D)
      BY <1>1 DEF OpenFilePre
    <3>2. \A store \in BOOLEAN : OpenFile(a, f, store).panes = a.panes
                               /\ OpenFile(a, f, store).focus = a.focus
      BY <1>1, <2>1, <3>1, OpenFileKeeps
    <3>3. QED
      BY <1>1, <1>2, <1>5, <3>2
<1>6. QED
  BY <1>4, <1>5

LEMMA AskOrCloseKeeps ==
  ASSUME NEW c \in Texts, NEW D \in DiskUpTo(c), NEW s, Tight(s, D, c), OpenFilePre(s, D),
         NEW y \in AskOrClose(s)
  PROVE  Keeps(s, y)
<1> DEFINE q == [s EXCEPT !.closeReq = FALSE]
           a == StoreCurrent(q)
           dirty == {f \in Listed(a) : FileDirty(a, f)}
<1>1. s \in AppUpTo(c)
  BY DEF Tight, Loose
<1>2. q \in AppUpTo(c) /\ q.ed = s.ed /\ q.panes = s.panes /\ q.focus = s.focus /\ q.opened = s.opened
  BY <1>1 DEF AppUpTo
<1>3. y \in (IF s.intent # "NONE" THEN {q} ELSE IF dirty = {} THEN {[a EXCEPT !.confirmed = TRUE]}
             ELSE {[OpenFile(a, f, TRUE) EXCEPT !.intent = "APP"] : f \in dirty})
  BY DEF AskOrClose
<1> HIDE DEF q
<1>4. Tight(q, D, c)
  BY <1>2, FlagsTight
<1>5. /\ Tight(a, D, c) /\ a \in AppUpTo(c) /\ a.ed = s.ed /\ a.panes = s.panes
      /\ a.focus = s.focus
  BY <1>2, <1>4, StoreTight, StoreKeeps
<1> HIDE DEF a
<1>6. CASE y = q
  BY <1>2, <1>6 DEF Keeps
<1>7. CASE y = [a EXCEPT !.confirmed = TRUE]
  BY <1>5, <1>7 DEF Keeps, AppUpTo
<1>8. ASSUME NEW f \in dirty, y = [OpenFile(a, f, TRUE) EXCEPT !.intent = "APP"]
      PROVE  Keeps(s, y)
  <2> DEFINE o == OpenFile(a, f, TRUE)
  <2>1. Tight(o, D, c) /\ Keeps(a, o)
    BY <1>5, OpenFileTight, OpenFileKeeps DEF OpenFilePre, Listed
  <2>2. y = [o EXCEPT !.intent = "APP"]
    BY <1>8
  <2> HIDE DEF o
  <2>3. o \in AppUpTo(c)
    BY <2>1 DEF Tight, Loose
  <2>4. y.ed = o.ed /\ y.panes = o.panes /\ y.focus = o.focus /\ y.opened = o.opened
    BY <2>2, <2>3 DEF AppUpTo
  <2>5. QED
    BY <1>5, <2>1, <2>4 DEF Keeps, Listed
<1>9. QED
  BY <1>3, <1>6, <1>7, <1>8

LEMMA HasHeld ==
  ASSUME NEW t, Has(App', t) \/ \E f \in Paths : t = disk'[f].text
  PROVE  Held(t)'
<1>1. CASE \E f \in Paths : t = disk'[f].text
  BY <1>1 DEF Held
<1>2. CASE Has(App', t)
  <2>1. /\ App'.ed = ed' /\ App'.panes = panes' /\ App'.opened = opened' /\ App'.focus = focus'
        /\ Listed(App') = Listed(App)' /\ Back(App') = Back(App)'
    BY DEF App, Listed, Back
  <2>2. CASE t = ed'.text \/ t \in Range(ed'.undo) \cup Range(ed'.redo)
    BY <2>2 DEF Held, Shown
  <2>3. CASE \E p \in Back(App)' : t = panes'[p].text
    BY <2>3 DEF Held, Shown
  <2>4. CASE \E f \in Listed(App)' : t = opened'[f].text
    BY <2>4 DEF Held, Shown
  <2>5. QED
    BY <1>2, <2>1, <2>2, <2>3, <2>4 DEF Has
<1>3. QED
  BY <1>1, <1>2

LEMMA CloseCurrentHas ==
  ASSUME NEW c \in Texts, NEW D \in DiskUpTo(c), NEW s, Tight(s, D, c), OpenFilePre(s, D),
         NEW t, Shows(s, t), t # s.ed.text
  PROVE  Has(CloseCurrent(s), t)
<1>1. CloseCurrent(s).panes = s.panes /\ CloseCurrent(s).focus = s.focus
  BY CloseCurrentKeeps
<1>2. QED
  BY <1>1 DEF Shows, Has, Back

\* The panes of the file get the editor's document, the others stay.
LEMMA SyncMatchingShows ==
  ASSUME NEW c \in Texts, NEW D, NEW s, Tight(s, D, c), NEW d, Good(d, D, c), d.file = s.ed.file,
         Tight(SyncMatching([s EXCEPT !.ed = d]), D, c)
  PROVE  LET y == SyncMatching([s EXCEPT !.ed = d]) IN
         /\ y.ed = d
         /\ \A t : Shows(s, t) => t = s.ed.text \/ Shows(y, t)
<1> DEFINE x == [s EXCEPT !.ed = d]
           y == SyncMatching(x)
           q == [p \in PaneIds |-> IF p \in Showing(x, d.file) THEN d ELSE s.panes[p]]
<1>1. s \in AppUpTo(c) /\ d \in DocUpTo(c)
  BY DEF Tight, Loose, Good
<1>2. x \in AppUpTo(c) /\ x.ed = d /\ x.panes = s.panes /\ x.focus = s.focus
  BY <1>1 DEF AppUpTo
<1> HIDE DEF x
<1>3. y.ed = d /\ y.panes = q /\ y.focus = s.focus
  BY <1>2 DEF SyncMatching, AppUpTo
<1> HIDE DEF y
<1>4. \A p \in Back(s) : s.panes[p].file # s.ed.file => p \in Back(y) /\ y.panes[p] = s.panes[p]
  BY <1>2, <1>3 DEF Showing, Back
<1>5. \A p \in Back(s) : s.panes[p].file = s.ed.file => s.panes[p] = s.ed
  BY DEF Tight
<1>6. \A t : Shows(s, t) => t = s.ed.text \/ Shows(y, t)
  BY <1>4, <1>5 DEF Shows
<1>7. QED
  BY <1>3, <1>6 DEF x, y

LEMMA WrittenShows ==
  ASSUME NEW c \in Texts, disk' \in DiskUpTo(c), NEW s, Tight(s, disk', c),
         NEW t, Shows(s, t)
  PROVE  LET w == Written(s, s.ed.file) IN Shows(w, t) /\ w.ed.text = s.ed.text
<1> DEFINE f == s.ed.file
           e == [s.ed EXCEPT !.stamp = disk'[f].stamp, !.file = f]
           d == MarkSaved(e)
           x == [s EXCEPT !.ed = d]
           y == SyncMatching(x)
           w == Written(s, f)
<1>1. s \in AppUpTo(c) /\ s.ed \in DocUpTo(c) /\ f \in Paths
  BY DEF Tight, Loose, Leads, Good, DocUpTo
<1>2. disk'[f].stamp \in 0..c
  BY <1>1 DEF DiskUpTo
<1> HIDE DEF f
<1>3. e \in DocUpTo(c) /\ e.file = f /\ e.stamp = disk'[f].stamp /\ e.text = s.ed.text
  BY <1>1, <1>2 DEF DocUpTo
<1>4. w = StoreCurrent(y)
  BY DEF Written
<1> HIDE DEF e
<1>5. /\ d \in DocUpTo(c) /\ d.file = f /\ d.stamp = disk'[f].stamp /\ d.dirty = FALSE
      /\ d.text = d.saved /\ d.text = s.ed.text
  BY <1>3 DEF MarkSaved, DocUpTo
<1> HIDE DEF d
<1>6. Good(d, disk', c)
  BY <1>2, <1>5 DEF Good
<1>7. /\ x \in AppUpTo(c) /\ x.ed = d /\ x.panes = s.panes /\ x.focus = s.focus
      /\ x.opened = s.opened
  BY <1>1, <1>5 DEF AppUpTo
<1>8. Tight(y, disk', c)
  BY <1>5, <1>6, <1>7, ReplacedTight
<1>9. y.ed = d /\ (t = s.ed.text \/ Shows(y, t))
  BY <1>5, <1>6, <1>8, SyncMatchingShows DEF f
<1> HIDE DEF y, w
<1>10. y \in AppUpTo(c)
  BY <1>8 DEF Tight, Loose
<1>11. w.ed = y.ed /\ w.panes = y.panes /\ w.focus = y.focus
  BY <1>4, <1>10, StoreKeeps
<1>12. Shows(w, t) /\ w.ed.text = s.ed.text
  BY <1>5, <1>9, <1>11 DEF Shows, Back
<1>13. QED
  BY <1>12 DEF w, f

\* A text that a pane shows unsaved is found after every step but the exempt ones.
LEMMA UnsavedStep ==
  ASSUME PanesInv, Next, NEW d \in Shown, d.dirty,
         ~(Discard \/ ForceClose \/ Reload \/ CloseDeleted \/ CloseSplit
           \/ (\E f \in Paths : SaveDeletedAs(f) /\ opened[f] = NotOpen))
  PROVE  Held(d.text)'
<1> DEFINE t == d.text
<1>1. /\ App \in AppUpTo(clock) /\ App.ed = ed /\ App.panes = panes /\ App.focus = focus
      /\ App.opened = opened /\ ed \in DocUpTo(clock) /\ ed.file \in Paths
      /\ Tight(App, disk, clock) /\ Good(ed, disk, clock) /\ clock \in Texts
      /\ disk \in DiskUpTo(clock)
  BY AppFields
<1>2. d = ed \/ \E p \in Back(App) : d = panes[p]
  BY DEF Shown
<1>3. Shows(App, t)
  BY <1>1, <1>2 DEF Shows
<1>4. SyncShared(App) = App
  BY <1>1, SyncSharedSame
<1> HIDE DEF t
\* It is enough to find it in what the step makes of the panes and the list.
<1>5. ASSUME NEW x, NEW D, NEW c, Tight(x, D, c), Becomes(x), Has(x, t)
      PROVE  Held(t)'
  <2>1. App' = x
    BY <1>5, BecomesApp
  <2>2. Has(App', t)
    BY <1>5, <2>1
  <2>3. QED
    BY <2>2, HasHeld
<1>6. \A s : Shows(s, t) => Has(s, t)
  BY DEF Shows, Has
<1>7. CASE Edit \/ Undo \/ Redo
  <2>1. PICK n : /\ App' = SyncMatching([App EXCEPT !.ed = n]) /\ Tight(App', disk', clock')
                 /\ Good(n, disk', clock') /\ n.file = ed.file
                 /\ ed.text \in Range(n.undo) \cup Range(n.redo)
    BY <1>7, EditStep, UndoStep DEF Remembered
  <2> DEFINE y == SyncMatching([App EXCEPT !.ed = n])
  <2>2. clock' \in Texts /\ Tight(App, disk', clock')
    <3>1. CASE Edit
      BY <1>1, <3>1, TickTight, PanesAssumption DEF Edit, Tick, Texts
    <3>2. CASE Undo \/ Redo
      BY <3>2, StillTight DEF Undo, Redo
    <3>3. QED
      BY <1>7, <3>1, <3>2
  <2>3. Tight(y, disk', clock')
    BY <2>1
  <2>4. y.ed = n /\ (t = ed.text \/ Shows(y, t))
    BY <1>1, <1>3, <2>1, <2>2, <2>3, SyncMatchingShows
  <2> HIDE DEF y
  <2>5. Has(y, t)
    BY <1>6, <2>1, <2>4 DEF Has
  <2>6. Has(App', t)
    BY <2>1, <2>5 DEF y
  <2>7. QED
    BY <2>6, HasHeld DEF t
<1>8. ASSUME NEW f \in Paths, WriteFile(f, ed.text)
      PROVE  disk'[f].text = ed.text
  BY <1>1, <1>8 DEF WriteFile, DiskUpTo
<1>9. CASE Save \/ SaveAndClose \/ Overwrite \/ SaveThenClose
  <2> DEFINE f == ed.file
             i == [App EXCEPT !.intent = "NONE"]
  <2>1. WriteFile(f, ed.text) /\ clock <= MaxClock /\ clock' = clock + 1
    BY <1>1, <1>9, PanesAssumption
    DEF Save, SaveAndClose, Overwrite, SaveThenClose, Tick, OneMoreTick, Texts
  <2>2. /\ clock' \in Texts /\ disk' \in DiskUpTo(clock') /\ Tight(App, disk', clock')
        /\ \A g \in Paths \ {f} : disk'[g] = disk[g] /\ disk'[f].text = ed.text
    BY <1>1, <1>8, <2>1, WriteFileTight
  <2>3. CASE t = ed.text
    <3>1. disk'[f].text = t
      BY <1>1, <1>8, <2>1, <2>3
    <3>2. QED
      BY <1>1, <3>1, HasHeld DEF t
  <2>4. CASE t # ed.text
    <3>1. /\ i \in AppUpTo(clock) /\ i.ed = ed /\ i.panes = panes /\ i.focus = focus
          /\ Tight(i, disk', clock')
      BY <1>1, <2>2, WithFlagsTight DEF AppUpTo
    <3> HIDE DEF i, f
    <3>2. Shows(i, t)
      BY <1>1, <1>3, <3>1 DEF Shows, Back
    <3>3. \A s : Tight(s, disk', clock') /\ s.ed = ed /\ Shows(s, t) =>
            LET w == Written(s, f) IN
            /\ Tight(w, disk', clock') /\ OpenFilePre(w, disk') /\ Shows(w, t)
            /\ w.ed.text = ed.text
      <4>1. SUFFICES ASSUME NEW s, Tight(s, disk', clock'), s.ed = ed, Shows(s, t)
                     PROVE  LET w == Written(s, f) IN
                            /\ Tight(w, disk', clock') /\ OpenFilePre(w, disk') /\ Shows(w, t)
                            /\ w.ed.text = ed.text
        OBVIOUS
      <4>2. Tight(Written(s, f), disk', clock') /\ Written(s, f).ed.file = f
        BY <1>1, <2>2, <4>1, WrittenTight DEF f
      <4>3. Shows(Written(s, f), t) /\ Written(s, f).ed.text = ed.text
        BY <2>2, <4>1, WrittenShows DEF f
      <4>4. OpenFilePre(Written(s, f), disk')
        BY <2>2, <4>2 DEF OpenFilePre
      <4>5. QED
        BY <4>2, <4>3, <4>4
    <3> DEFINE v == Written(App, f)
               a == Written(i, f)
    <3>4. Tight(v, disk', clock') /\ OpenFilePre(v, disk') /\ Shows(v, t) /\ v.ed.text = ed.text
      BY <1>1, <1>3, <2>2, <3>3
    <3>5. Tight(a, disk', clock') /\ OpenFilePre(a, disk') /\ Shows(a, t) /\ a.ed.text = ed.text
      BY <3>1, <3>2, <3>3
    <3>6. \/ Becomes(v)
          \/ Becomes(CloseCurrent(v))
          \/ \E s \in AskOrClose(a) : Becomes(s)
          \/ Becomes(CloseCurrent(a))
      BY <1>4, <1>9 DEF Save, SaveAndClose, Overwrite, SaveThenClose, f, i
    <3> HIDE DEF v, a
    <3>7. CASE Becomes(v)
      BY <1>5, <1>6, <3>4, <3>7 DEF t
    <3>8. CASE Becomes(CloseCurrent(v))
      <4>1. Has(CloseCurrent(v), t) /\ Tight(CloseCurrent(v), disk', clock')
        BY <2>2, <2>4, <3>4, CloseCurrentHas, CloseCurrentTight
      <4>2. QED
        BY <1>5, <3>8, <4>1 DEF t
    <3>9. CASE Becomes(CloseCurrent(a))
      <4>1. Has(CloseCurrent(a), t) /\ Tight(CloseCurrent(a), disk', clock')
        BY <2>2, <2>4, <3>5, CloseCurrentHas, CloseCurrentTight
      <4>2. QED
        BY <1>5, <3>9, <4>1 DEF t
    <3>10. CASE \E s \in AskOrClose(a) : Becomes(s)
      <4>1. PICK s \in AskOrClose(a) : Becomes(s)
        BY <3>10
      <4>2. Tight(s, disk', clock') /\ Keeps(a, s)
        BY <2>2, <3>5, AskOrCloseTight, AskOrCloseKeeps
      <4>3. Has(s, t)
        BY <3>5, <4>2, KeepsHas
      <4>4. QED
        BY <1>5, <4>1, <4>2, <4>3 DEF t
    <3>11. QED
      BY <3>6, <3>7, <3>8, <3>9, <3>10
  <2>5. QED
    BY <2>3, <2>4
<1>10. ASSUME NEW f \in Paths, SaveDeletedAs(f) PROVE Held(t)'
  <2> DEFINE x == [App EXCEPT !.opened[ed.file] = NotOpen,
                              !.recent = ReplaceAll(@, ed.file, f)]
  <2>1. /\ f = ed.file /\ WriteFile(f, ed.text) /\ clock <= MaxClock /\ clock' = clock + 1
        /\ Becomes(Written(x, f))
    <3>1. opened[f] # NotOpen
      BY <1>10
    <3>2. SaveDeletedAs(f)
      BY <1>10
    <3>3. f = ed.file
      BY <3>1, <3>2 DEF SaveDeletedAs
    <3>4. WriteFile(f, ed.text) /\ Tick
      BY <3>2 DEF SaveDeletedAs
    <3>5. clock <= MaxClock /\ clock' = clock + 1
      BY <1>1, <3>4, PanesAssumption DEF Tick, Texts
    <3>6. Becomes(Written(x, f))
      BY <3>2, RenamedTight
    <3>7. QED
      BY <3>3, <3>4, <3>5, <3>6
  <2>2. clock' \in Texts /\ disk' \in DiskUpTo(clock')
    BY <2>1, WriteFileTight
  <2>3. Tight(x, disk', clock') /\ Tight(Written(x, f), disk', clock')
    BY <1>10, RenamedTight
  <2>4. x.ed = ed /\ x.panes = panes /\ x.focus = focus
    BY <1>1 DEF AppUpTo
  <2> HIDE DEF x
  <2>5. Shows(x, t)
    BY <1>1, <1>3, <2>4 DEF Shows, Back
  <2>6. Shows(Written(x, f), t)
    BY <2>1, <2>2, <2>3, <2>4, <2>5, WrittenShows
  <2>7. QED
    BY <1>5, <1>6, <2>1, <2>3, <2>6 DEF t
<1>11. CASE Notice
  <2>1. /\ App'.ed = Noticed(ed) /\ Back(App') = Back(App)
        /\ \A p \in Back(App) : App'.panes[p] = Noticed(panes[p])
    BY <1>11, NoticeTight
  <2>2. Good(d, disk, clock)
    BY <1>1, <1>2 DEF Tight, Loose
  <2>3. Noticed(d).text = t
    BY <1>1, <2>2, NoticedGood DEF t
  <2>4. Has(App', t)
    BY <1>2, <2>1, <2>3 DEF Has
  <2>5. QED
    BY <2>4, HasHeld DEF t
<1>12. ASSUME NEW f \in Paths, LspEdit(f) \/ DiskWrite(f) \/ DiskDelete(f) PROVE Held(t)'
  <2>1. App'.ed = App.ed /\ App'.panes = App.panes /\ App'.focus = App.focus
    BY <1>12 DEF LspEdit, DiskWrite, DiskDelete, App
  <2>2. Shows(App', t)
    BY <1>3, <2>1 DEF Shows, Back
  <2>3. QED
    BY <1>6, <2>2, HasHeld DEF t
<1>13. CASE \/ RequestClose \/ Split \/ RequestCloseApp
            \/ (\E f \in Paths : Open(f) \/ CloseTab(f)) \/ (\E p \in PaneIds : FocusPane(p))
  <2>1. OpenFilePre(App, disk) /\ \A s : OpenFilePre(s, disk)
    BY DEF OpenFilePre
  <2>2. CASE RequestClose
    <3>1. CASE ed.dirty
      <4> DEFINE b == [App EXCEPT !.intent = "BUFFER"]
      <4>1. Becomes(b)
        BY <2>2, <3>1 DEF RequestClose
      <4>2. Tight(b, disk, clock) /\ b.ed = ed /\ b.panes = panes /\ b.focus = focus
        BY <1>1, WithFlagsTight DEF AppUpTo
      <4> HIDE DEF b
      <4>3. Shows(b, t)
        BY <1>1, <1>3, <4>2 DEF Shows, Back
      <4>4. QED
        BY <1>5, <1>6, <4>1, <4>2, <4>3 DEF t
    <3>2. CASE ~ed.dirty
      <4> DEFINE x == CloseCurrent(App)
      <4>1. Becomes(x)
        BY <2>2, <3>2 DEF RequestClose
      <4>2. Tight(x, disk, clock) /\ x.panes = panes /\ x.focus = focus
        BY <1>1, <2>1, CloseCurrentTight, CloseCurrentKeeps
      <4> HIDE DEF x
      <4>3. \E p \in Back(App) : d = panes[p]
        BY <1>2, <3>2
      <4>4. Has(x, t)
        BY <1>1, <4>2, <4>3 DEF Has, Back, t
      <4>5. QED
        BY <1>5, <4>1, <4>2, <4>4 DEF t
    <3>3. QED
      BY <3>1, <3>2
  <2>3. CASE Split
    <3>1. PICK p \in PaneIds :
            /\ panes[p] = Shut
            /\ Becomes(SyncShared([App EXCEPT !.panes = [@ EXCEPT ![focus] = ed, ![p] = Here],
                                              !.focus = p]))
      BY <2>3 DEF Split
    <3> DEFINE q == [panes EXCEPT ![focus] = ed, ![p] = Here]
               x == [App EXCEPT !.panes = q, !.focus = p]
    <3>2. Becomes(SyncShared(x))
      BY <1>1, <3>1
    <3>3. Tight(x, disk, clock) /\ SyncShared(x) = x
      <4>1. x = [App EXCEPT !.panes = [@ EXCEPT ![App.focus] = App.ed, ![p] = Here], !.focus = p]
        BY <1>1
      <4>2. Tight(x, disk, clock)
        BY <1>1, <3>1, <4>1, SplitTight
      <4>3. QED
        BY <4>2, SyncSharedSame
    <3>4. p # focus /\ panes \in [PaneIds -> DocUpTo(clock) \cup {Here, Shut}] /\ focus \in PaneIds
      BY <1>1, <3>1, PanesAssumption DEF Tight, Loose, AppUpTo
    <3>5. \A o \in PaneIds \ {p, focus} : q[o] = panes[o]
      BY <3>4
    <3> HIDE DEF q
    <3>6. x.ed = ed /\ x.panes = q /\ x.focus = p
      BY <1>1 DEF AppUpTo
    <3> HIDE DEF x
    <3>7. \A o \in Back(App) : o \in Back(x) /\ x.panes[o] = panes[o]
      BY <1>1, <3>1, <3>5, <3>6 DEF Back
    <3>8. Shows(x, t)
      BY <1>1, <1>3, <3>6, <3>7 DEF Shows
    <3>9. QED
      BY <1>5, <1>6, <3>2, <3>3, <3>8 DEF t
  <2>4. ASSUME NEW p \in PaneIds, FocusPane(p) PROVE Held(t)'
    <3> DEFINE q == [panes EXCEPT ![focus] = ed, ![p] = Here]
               x == [App EXCEPT !.panes = q, !.ed = panes[p], !.focus = p]
    <3>1. p \in Back(App)
      BY <2>4 DEF FocusPane
    <3>2. Becomes(x)
      BY <1>1, <1>4, <2>4 DEF FocusPane
    <3>3. Tight(x, disk, clock)
      <4>1. x = [App EXCEPT !.panes = [@ EXCEPT ![App.focus] = App.ed, ![p] = Here],
                            !.ed = App.panes[p], !.focus = p]
        BY <1>1
      <4>2. QED
        BY <1>1, <3>1, <4>1, FocusTight
    <3>4. /\ panes \in [PaneIds -> DocUpTo(clock) \cup {Here, Shut}] /\ focus \in PaneIds
          /\ p # focus /\ ed # Shut
      BY <1>1, <3>1, Absent DEF AppUpTo, Back
    <3>5. q[focus] = ed /\ \A o \in PaneIds \ {p, focus} : q[o] = panes[o]
      BY <3>4
    <3> HIDE DEF q
    <3>6. x.ed = panes[p] /\ x.panes = q /\ x.focus = p
      BY <1>1 DEF AppUpTo
    <3> HIDE DEF x
    <3>7. focus \in Back(x) /\ \A o \in Back(App) : o = p \/ (o \in Back(x) /\ x.panes[o] = panes[o])
      BY <1>1, <3>4, <3>5, <3>6 DEF Back
    <3>8. Shows(x, t)
      BY <1>1, <1>3, <3>5, <3>6, <3>7 DEF Shows
    <3>9. QED
      BY <1>5, <1>6, <3>2, <3>3, <3>8 DEF t
  <2>5. CASE RequestCloseApp
    <3>1. PICK s \in AskOrClose(App) : Becomes(s)
      BY <2>5 DEF RequestCloseApp
    <3>2. Tight(s, disk, clock) /\ Keeps(App, s)
      BY <1>1, <2>1, AskOrCloseTight, AskOrCloseKeeps
    <3>3. QED
      BY <1>3, <1>5, <3>1, <3>2, KeepsHas DEF t
  <2>6. ASSUME NEW f \in Paths, Open(f) PROVE Held(t)'
    <3> DEFINE o == OpenFile(App, f, TRUE)
    <3>1. Tight(o, disk, clock) /\ Keeps(App, o) /\ Becomes(o)
      BY <1>1, <2>1, <2>6, OpenFileTight, OpenFileKeeps DEF Open
    <3> HIDE DEF o
    <3>2. QED
      BY <1>3, <1>5, <3>1, KeepsHas DEF t
  <2>7. ASSUME NEW f \in Paths, CloseTab(f) PROVE Held(t)'
    <3> DEFINE gone == Forget(App, f)
               o == OpenFile(App, f, TRUE)
               x == [o EXCEPT !.intent = "BUFFER"]
               y == [gone EXCEPT !.closeReq = TRUE]
    <3>1. Becomes(x) \/ Becomes(y) \/ Becomes(gone)
      BY <2>7 DEF CloseTab
    <3>2. Tight(gone, disk, clock) /\ Tight(o, disk, clock) /\ Keeps(App, o)
      BY <1>1, <2>1, ForgetTight, OpenFileTight, OpenFileKeeps
    <3>3. gone.ed = ed /\ gone.panes = panes /\ gone.focus = focus /\ gone \in AppUpTo(clock)
      BY <1>1, <3>2 DEF Forget, AppUpTo, Tight, Loose
    <3> HIDE DEF gone, o
    <3>4. o \in AppUpTo(clock)
      BY <3>2 DEF Tight, Loose
    <3>5. Tight(x, disk, clock) /\ Tight(y, disk, clock)
      BY <3>2, WithFlagsTight
    <3>6. x.ed = o.ed /\ x.panes = o.panes /\ x.focus = o.focus /\ x.opened = o.opened
      BY <3>4 DEF AppUpTo
    <3>7. y.ed = ed /\ y.panes = panes /\ y.focus = focus
      BY <3>3 DEF AppUpTo
    <3> HIDE DEF x, y
    <3>8. Keeps(App, x)
      BY <3>2, <3>6 DEF Keeps, Listed
    <3>9. Has(x, t) /\ Shows(gone, t) /\ Shows(y, t)
      BY <1>1, <1>3, <3>3, <3>7, <3>8, KeepsHas DEF Shows, Back
    <3>10. QED
      BY <1>5, <1>6, <3>1, <3>2, <3>5, <3>9 DEF t
  <2>8. QED
    BY <1>13, <2>2, <2>3, <2>4, <2>5, <2>6, <2>7 DEF t
<1>14. QED
  <2>1. CASE \E f \in Paths : SaveDeletedAs(f)
    BY <1>10, <2>1 DEF t
  <2>2. CASE \E f \in Paths : LspEdit(f) \/ DiskWrite(f) \/ DiskDelete(f)
    BY <1>12, <2>2 DEF t
  <2>3. QED
    BY <1>7, <1>9, <1>11, <1>13, <2>1, <2>2 DEF Next

\* Unsaved text that a pane shows stays in a pane, in the list, in a history or on
\* the disk in every step but those in which the user gives it up (editor_render.cpp's
\* popups) and the two in which the code loses it: a deleted file saved under the path of
\* a pane whose file is gone from the list, and the close of a split.
THEOREM UnsavedStays == Spec => UnsavedKept
<1>1. ASSUME PanesInv, [Next]_vars
      PROVE  [\/ \A t \in {d.text : d \in {e \in Shown : e.dirty}} : Held(t)'
              \/ Discard \/ ForceClose \/ Reload \/ CloseDeleted \/ CloseSplit
              \/ (\E f \in Paths : SaveDeletedAs(f) /\ opened[f] = NotOpen)]_vars
  BY <1>1, UnsavedStep
<1>2. QED
  BY <1>1, PanesInvAlways, PTL DEF Spec, UnsavedKept

-----------------------------------------------------------------------------
(* Results of the language server *)

\* The results the editor acts on without being asked again.
Acting == {"DEFINITION", "EDITS"}
StateType ==
    [bridge : [gen : [Results!Kinds -> Nat],
               result : [Results!Kinds -> Results!Result \cup {Results!Nothing}]],
     client : Results!Doc, asked : SUBSET Results!Request,
     e : [file : Files, revs : [Files -> 0..MaxRev], external : BOOLEAN,
          seen : [Results!Kinds -> Nat], popup : Results!Popups, open : BOOLEAN],
     sent : 0..MaxRequests, done : [Results!Ids -> 0..2], json : BOOLEAN]

\* Every id is of one request: asked, or answered by one result.
IdsOnce(x) ==
    /\ \A r \in x.asked : r.id <= x.sent /\ x.done[r.id] = 0
    /\ \A r, q \in x.asked : r.id = q.id => r = q
    /\ \A i \in Results!Ids : x.done[i] > 0 => i <= x.sent
    /\ \A k \in Acting : x.bridge.result[k] # Results!Nothing =>
         /\ x.bridge.result[k].id <= x.sent
         /\ \A r \in x.asked : r.id # x.bridge.result[k].id
         /\ \A l \in Acting : l # k => x.bridge.result[l].id # x.bridge.result[k].id

New(x, k) == x.e.seen[k] # x.bridge.gen[k]

Sound(x) ==
    /\ x \in StateType
    /\ IdsOnce(x)
    /\ x.json \/ x.e.external
    /\ ~x.e.open
    /\ \A k \in Results!Kinds : x.bridge.result[k] # Results!Nothing => x.bridge.gen[k] > 0
    /\ \A k \in Acting : x.bridge.result[k] # Results!Nothing =>
         x.done[x.bridge.result[k].id] >= 1 \/ ~x.e.external \/ New(x, k)
    /\ ~x.json => \A i \in Results!Ids : x.done[i] <= 1
    /\ ~x.json => \A k \in Acting : x.bridge.result[k] # Results!Nothing /\ New(x, k) =>
                    x.done[x.bridge.result[k].id] = 0

\* Between frames no more counts as seen than there is on the bridge that was shown.
Settled(x) == \A k \in Results!Kinds : IF x.e.external THEN x.e.seen[k] <= x.bridge.gen[k]
                                        ELSE x.e.seen[k] = 0

\* In a frame the bridge is that of the file.
Facing(x) == x.e.external <=> x.e.file \notin JsonPaths

ResultsInv == Sound(Results!State) /\ Settled(Results!State) /\ moves \in 0..MaxMoves

LEMMA NothingIsNoResult == \A r \in Results!Result : r # Results!Nothing /\ r.id \in Results!Ids
BY DEF Results!Result, Results!Nothing, Results!Ids, Results!Doc

LEMMA UpdateSound ==
  ASSUME NEW x, Sound(x), Settled(x) \/ Facing(x)
  PROVE Sound(Results!Update(x)) /\ Facing(Results!Update(x))
<1> DEFINE y == Results!Update(x)
<1>1. CASE x.e.file \in JsonPaths
  <2>1. y = [x EXCEPT !.e.external = FALSE, !.json = TRUE]
    BY <1>1 DEF Results!Update
  <2> HIDE DEF y
  <2>2. y \in StateType /\ y.e.external = FALSE /\ y.json /\ y.bridge = x.bridge /\ y.asked = x.asked
        /\ y.sent = x.sent /\ y.done = x.done /\ y.e.seen = x.e.seen /\ y.e.open = x.e.open
        /\ y.e.file = x.e.file
    BY <2>1 DEF Sound, StateType
  <2>3. QED
    BY <1>1, <2>2 DEF Sound, IdsOnce, Facing, New, y
<1>2. CASE x.e.file \notin JsonPaths
  <2>1. y = [x EXCEPT !.e.external = TRUE, !.client = Results!Focused(x)]
    BY <1>2 DEF Results!Update
  <2> HIDE DEF y
  <2>2. y \in StateType /\ y.e.external /\ y.json = x.json /\ y.bridge = x.bridge /\ y.asked = x.asked
        /\ y.sent = x.sent /\ y.done = x.done /\ y.e.seen = x.e.seen /\ y.e.open = x.e.open
        /\ y.e.file = x.e.file
    BY <2>1 DEF Sound, StateType, Results!Focused, Results!Doc
  <2>3. CASE x.e.external
    BY <1>2, <2>2, <2>3 DEF Sound, IdsOnce, Facing, New, y
  <2>4. CASE ~x.e.external
    <3>1. Settled(x)
      BY <1>2, <2>4 DEF Facing
    <3>2. \A k \in Results!Kinds : x.e.seen[k] = 0 /\ x.bridge.gen[k] \in Nat
      BY <2>4, <3>1 DEF Settled, Sound, StateType
    <3>3. \A k \in Acting : x.bridge.result[k] # Results!Nothing => New(x, k)
      BY <3>2 DEF Sound, New, Acting, Results!Kinds
    <3>4. QED
      BY <1>2, <2>2, <2>4, <3>2, <3>3 DEF Sound, IdsOnce, Facing, New, y
  <2>5. QED
    BY <2>3, <2>4
<1>3. QED
  BY <1>1, <1>2

\* A result that is acted on was not, or a JSON file has been shown.
LEMMA ActedOnFields ==
  ASSUME NEW x \in StateType, NEW r \in Results!Result
  PROVE LET y == Results!ActedOn(x, r) IN
        /\ y = [x EXCEPT !.done = y.done]
        /\ y.done \in [Results!Ids -> 0..2]
        /\ y.done[r.id] >= 1
        /\ x.done[r.id] = 0 => y.done[r.id] = 1
        /\ \A i \in Results!Ids : i # r.id => y.done[i] = x.done[i]
<1> DEFINE y == Results!ActedOn(x, r)
           d == [x.done EXCEPT ![r.id] = IF @ < 2 THEN @ + 1 ELSE @]
<1>1. y = [x EXCEPT !.done = d]
  BY DEF Results!ActedOn
<1>2. y.done = d
  BY <1>1 DEF StateType
<1>3. r.id \in Results!Ids /\ x.done \in [Results!Ids -> 0..2]
  BY NothingIsNoResult DEF StateType
<1>4. d \in [Results!Ids -> 0..2] /\ \A i \in Results!Ids : i # r.id => d[i] = x.done[i]
  BY <1>3
<1>5. d[r.id] >= 1 /\ (x.done[r.id] = 0 => d[r.id] = 1)
  BY <1>3
<1>6. QED
  BY <1>1, <1>2, <1>4, <1>5

LEMMA DrawSound ==
  ASSUME NEW x, Sound(x)
  PROVE Sound(Results!Draw(x)) /\ Settled(Results!Draw(x)) /\ Results!Draw(x).json = x.json
<1> DEFINE y == Results!SyncPopups(x)
           z == Results!ApplyEdits(y)
           w == Results!Seen(z)
           v == Results!OpenLocation(w)
           fd == Results!Fresh(x, "DEFINITION")
           fe == Results!Fresh(x, "EDITS")
           rd == x.bridge.result["DEFINITION"]
           re == x.bridge.result["EDITS"]
<1>0. x \in StateType
  BY DEF Sound
<1>1. /\ y \in StateType
      /\ y.bridge = x.bridge /\ y.asked = x.asked /\ y.sent = x.sent /\ y.done = x.done /\ y.json = x.json
      /\ y.e.external = x.e.external /\ y.e.seen = x.e.seen
      /\ y.e.open = fd
  <2> DEFINE c == IF Results!Fresh(x, "COMPLETION") THEN [x EXCEPT !.e.popup = "COMPLETION"] ELSE x
  <2>1. /\ c \in StateType
        /\ c.bridge = x.bridge /\ c.asked = x.asked /\ c.sent = x.sent /\ c.done = x.done /\ c.json = x.json
        /\ c.e.external = x.e.external /\ c.e.seen = x.e.seen /\ c.e.open = x.e.open
    BY <1>0 DEF StateType, Results!Popups
  <2>2. y = IF fd THEN [c EXCEPT !.e.popup = "NONE", !.e.open = TRUE] ELSE c
    BY DEF Results!SyncPopups
  <2>3. x.e.open = FALSE
    BY <1>0 DEF Sound, StateType
  <2> HIDE DEF c
  <2>4. fd \in BOOLEAN
    BY DEF Results!Fresh
  <2>5. CASE fd
    <3> HIDE DEF y
    <3>1. y = [c EXCEPT !.e.popup = "NONE", !.e.open = TRUE]
      BY <2>2, <2>5
    <3>2. QED
      BY <2>1, <2>5, <3>1 DEF StateType, Results!Popups
  <2>6. CASE ~fd
    BY <2>1, <2>2, <2>3, <2>4, <2>6
  <2>7. QED
    BY <2>5, <2>6
<1>2. Results!Fresh(y, "EDITS") = fe /\ Results!Visible(y) = Results!Visible(x)
  BY <1>1 DEF Results!Fresh, Results!Visible
<1>3. fe => x.e.external /\ re \in Results!Result /\ New(x, "EDITS") /\ re.id \in Results!Ids
  <2>1. re \in Results!Result \cup {Results!Nothing}
    BY <1>0 DEF StateType, Results!Kinds
  <2>2. QED
    BY <2>1, NothingIsNoResult DEF Results!Fresh, Results!Visible, Results!NoResults, New, Results!Kinds
<1>4. fd => x.e.external /\ rd \in Results!Result /\ New(x, "DEFINITION") /\ rd.id \in Results!Ids
  <2>1. rd \in Results!Result \cup {Results!Nothing}
    BY <1>0 DEF StateType, Results!Kinds
  <2>2. QED
    BY <2>1, NothingIsNoResult DEF Results!Fresh, Results!Visible, Results!NoResults, New, Results!Kinds
<1>5. /\ z \in StateType
      /\ z.bridge = x.bridge /\ z.asked = x.asked /\ z.sent = x.sent /\ z.json = x.json
      /\ z.e.external = x.e.external /\ z.e.seen = x.e.seen /\ z.e.open = fd
      /\ ~fe => z.done = x.done
      /\ fe => /\ z.done[re.id] >= 1
               /\ x.done[re.id] = 0 => z.done[re.id] = 1
               /\ \A i \in Results!Ids : i # re.id => z.done[i] = x.done[i]
  <2> HIDE DEF y
  <2>1. CASE fe
    <3>1. re \in Results!Result /\ Results!Visible(y).result["EDITS"] = re
      BY <1>2, <1>3, <2>1 DEF Results!Visible
    <3>2. z = Results!ActedOn(Results!Typed(y, re.path), re)
      BY <1>2, <2>1, <3>1 DEF Results!ApplyEdits
    <3> DEFINE t == Results!Typed(y, re.path)
    <3>3. /\ t \in StateType
          /\ t.bridge = x.bridge /\ t.asked = x.asked /\ t.sent = x.sent /\ t.json = x.json /\ t.done = x.done
          /\ t.e.external = x.e.external /\ t.e.seen = x.e.seen /\ t.e.open = fd
      <4> DEFINE n == y.e.revs[re.path]
                 m == IF n < MaxRev THEN n + 1 ELSE n
      <4>1. y.e.revs \in [Files -> 0..MaxRev] /\ re.path \in Files
        BY <1>1, <3>1 DEF StateType, Results!Result
      <4>2. m \in 0..MaxRev
        BY <4>1, ResultsAssumption, SMTT(30)
      <4>3. t = [y EXCEPT !.e.revs[re.path] = m]
        BY DEF Results!Typed
      <4> HIDE DEF m, t
      <4>4. QED
        BY <1>1, <4>1, <4>2, <4>3 DEF StateType
    <3> HIDE DEF t
    <3>4. /\ z = [t EXCEPT !.done = z.done]
          /\ z.done \in [Results!Ids -> 0..2]
          /\ z.done[re.id] >= 1
          /\ t.done[re.id] = 0 => z.done[re.id] = 1
          /\ \A i \in Results!Ids : i # re.id => z.done[i] = t.done[i]
      <4> HIDE DEF z
      <4>1. z = Results!ActedOn(t, re)
        BY <3>2 DEF t
      <4>2. QED
        BY <3>1, <3>3, <4>1, ActedOnFields
    <3> HIDE DEF z
    <3>5. /\ z \in StateType
          /\ z.bridge = t.bridge /\ z.asked = t.asked /\ z.sent = t.sent /\ z.json = t.json /\ z.e = t.e
      BY <3>3, <3>4 DEF StateType
    <3>6. QED
      BY <2>1, <3>3, <3>4, <3>5
  <2>2. CASE ~fe
    BY <1>1, <1>2, <2>2 DEF Results!ApplyEdits
  <2>3. QED
    BY <2>1, <2>2
<1>6. /\ w \in StateType
      /\ w.bridge = x.bridge /\ w.asked = x.asked /\ w.sent = x.sent /\ w.json = x.json
      /\ w.e.external = x.e.external /\ w.e.open = fd /\ w.done = z.done
      /\ w.e.seen = Results!Visible(x).gen
  <2> HIDE DEF z
  <2>1. Results!Visible(z) = Results!Visible(x) /\ Results!Visible(x).gen \in [Results!Kinds -> Nat]
    BY <1>0, <1>5 DEF Results!Visible, Results!NoResults, StateType
  <2>2. QED
    BY <1>5, <2>1 DEF Results!Seen, StateType
<1>7. fd => rd # Results!Nothing /\ Results!Visible(w).result["DEFINITION"] = rd
  BY <1>4, <1>6, NothingIsNoResult DEF Results!Visible
<1>8. /\ v \in StateType
      /\ v.bridge = x.bridge /\ v.asked = x.asked /\ v.sent = x.sent /\ v.json = x.json
      /\ v.e.external = x.e.external /\ v.e.open = FALSE
      /\ v.e.seen = Results!Visible(x).gen
      /\ ~fd => v.done = z.done
      /\ fd => /\ v.done[rd.id] >= 1
               /\ z.done[rd.id] = 0 => v.done[rd.id] = 1
               /\ \A i \in Results!Ids : i # rd.id => v.done[i] = z.done[i]
  <2> HIDE DEF w
  <2> DEFINE s == [w EXCEPT !.e.open = FALSE]
  <2>1. /\ s \in StateType
        /\ s.bridge = x.bridge /\ s.asked = x.asked /\ s.sent = x.sent /\ s.json = x.json
        /\ s.e.external = x.e.external /\ s.e.open = FALSE /\ s.done = z.done
        /\ s.e.seen = Results!Visible(x).gen
    BY <1>6 DEF StateType
  <2>2. CASE fd
    <3> DEFINE t == [s EXCEPT !.e.file = rd.target, !.e.popup = "NONE"]
    <3>1. v = Results!ActedOn(t, rd)
      BY <1>6, <1>7, <2>2 DEF Results!OpenLocation
    <3>2. /\ t \in StateType
          /\ t.bridge = x.bridge /\ t.asked = x.asked /\ t.sent = x.sent /\ t.json = x.json
          /\ t.e.external = x.e.external /\ t.e.open = FALSE /\ t.done = z.done
          /\ t.e.seen = Results!Visible(x).gen
      <4> HIDE DEF s
      <4>1. rd.target \in Files
        BY <1>4, <2>2 DEF Results!Result
      <4>2. QED
        BY <2>1, <4>1 DEF StateType, Results!Popups
    <3> HIDE DEF t, s
    <3>3. rd \in Results!Result
      BY <1>4, <2>2
    <3>4. /\ v = [t EXCEPT !.done = v.done]
          /\ v.done \in [Results!Ids -> 0..2]
          /\ v.done[rd.id] >= 1
          /\ t.done[rd.id] = 0 => v.done[rd.id] = 1
          /\ \A i \in Results!Ids : i # rd.id => v.done[i] = t.done[i]
      BY <3>1, <3>2, <3>3, ActedOnFields
    <3> HIDE DEF v
    <3>5. /\ v \in StateType
          /\ v.bridge = t.bridge /\ v.asked = t.asked /\ v.sent = t.sent /\ v.json = t.json /\ v.e = t.e
      BY <3>2, <3>4 DEF StateType
    <3>6. QED
      BY <2>2, <3>2, <3>4, <3>5
  <2>3. CASE ~fd
    <3>1. v = s
      BY <1>6, <2>3 DEF Results!OpenLocation
    <3>2. QED
      BY <2>1, <2>3, <3>1
  <2>4. QED
    BY <2>2, <2>3
<1>9. v = Results!Draw(x)
  BY DEF Results!Draw
<1> HIDE DEF y, z, w, v
<1>10. fe /\ fd => rd.id # re.id
  BY <1>3, <1>4, NothingIsNoResult DEF Sound, IdsOnce, Acting
<1>11. \A i \in Results!Ids :
         \/ /\ (fe /\ i = re.id) \/ (fd /\ i = rd.id)
            /\ v.done[i] >= 1
            /\ x.done[i] = 0 => v.done[i] = 1
         \/ /\ ~(fe /\ i = re.id) /\ ~(fd /\ i = rd.id)
            /\ v.done[i] = x.done[i]
  <2> HIDE DEF fe, fd, re, rd
  <2>1. QED
    BY <1>3, <1>4, <1>5, <1>8, <1>10
<1>12. x.done \in [Results!Ids -> 0..2] /\ v.done \in [Results!Ids -> 0..2]
  BY <1>0, <1>8 DEF StateType
<1>13. \A i \in Results!Ids : x.done[i] >= 1 => v.done[i] >= 1
  BY <1>11, <1>12
<1>14. /\ fe <=> x.e.external /\ New(x, "EDITS") /\ re # Results!Nothing
       /\ fd <=> x.e.external /\ New(x, "DEFINITION") /\ rd # Results!Nothing
  BY DEF Results!Fresh, Results!Visible, Results!NoResults, New, Results!Kinds
<1>15. \A k \in Acting : x.bridge.result[k] # Results!Nothing => x.bridge.result[k] \in Results!Result
  BY <1>0 DEF StateType, Acting, Results!Kinds
<1>16. IdsOnce(v)
  <2>1. \A r \in x.asked : r.id \in Results!Ids
    BY <1>0 DEF StateType, Results!Request
  <2>2. \A r \in x.asked : v.done[r.id] = 0
    <3>1. \A r \in x.asked : ~(fe /\ r.id = re.id) /\ ~(fd /\ r.id = rd.id)
      BY <1>14 DEF Sound, IdsOnce, Acting
    <3>2. QED
      BY <1>11, <2>1, <3>1 DEF Sound, IdsOnce
  <2>3. \A i \in Results!Ids : v.done[i] > 0 => i <= x.sent
    <3>1. (fe => re.id <= x.sent) /\ (fd => rd.id <= x.sent)
      BY <1>14 DEF Sound, IdsOnce, Acting
    <3>2. QED
      BY <1>11, <3>1 DEF Sound, IdsOnce
  <2>4. QED
    BY <1>8, <2>2, <2>3 DEF Sound, IdsOnce
<1>17. x.e.external => v.e.seen = v.bridge.gen /\ \A k \in Results!Kinds : v.bridge.gen[k] \in Nat
  BY <1>0, <1>8 DEF Results!Visible, StateType
<1>18. \A k \in Acting : x.bridge.result[k] # Results!Nothing =>
         v.done[x.bridge.result[k].id] >= 1 \/ ~x.e.external
  <2> SUFFICES ASSUME NEW k \in Acting, x.bridge.result[k] # Results!Nothing, x.e.external
               PROVE v.done[x.bridge.result[k].id] >= 1
    OBVIOUS
  <2>1. x.bridge.result[k].id \in Results!Ids
    BY <1>15, NothingIsNoResult
  <2>2. CASE New(x, k)
    BY <1>11, <1>14, <2>1, <2>2 DEF Acting
  <2>3. CASE ~New(x, k)
    BY <1>13, <2>1, <2>3 DEF Sound
  <2>4. QED
    BY <2>2, <2>3
<1>19. ~x.json => \A i \in Results!Ids : v.done[i] <= 1
  <2> SUFFICES ASSUME ~x.json, NEW i \in Results!Ids PROVE v.done[i] <= 1
    OBVIOUS
  <2>1. x.done[i] <= 1
    BY DEF Sound
  <2>2. (fe /\ i = re.id) \/ (fd /\ i = rd.id) => x.done[i] = 0
    BY <1>14 DEF Sound, Acting
  <2>3. QED
    BY <1>11, <2>1, <2>2
<1>20. Sound(v)
  <2>1. x.json \/ x.e.external
    BY DEF Sound
  <2>2. \A k \in Results!Kinds : x.bridge.result[k] # Results!Nothing => x.bridge.gen[k] > 0
    BY DEF Sound
  <2>3. x.e.external => \A k \in Acting : ~New(v, k)
    BY <1>17 DEF New
  <2>4. QED
    BY <1>8, <1>16, <1>17, <1>18, <1>19, <2>1, <2>2, <2>3 DEF Sound
<1>21. Settled(v)
  <2>1. ~x.e.external => v.e.seen = Results!NoResults.gen
    BY <1>8 DEF Results!Visible
  <2>2. QED
    BY <1>8, <1>17, <2>1 DEF Settled, Results!NoResults
<1>22. QED
  BY <1>8, <1>9, <1>20, <1>21

\* What an input makes of the state of a frame.
LEMMA FrameSound ==
  ASSUME ResultsInv, NEW x, Sound(x), Facing(x), Results!Become(Results!Draw(Results!Update(x))), moves' \in 0..MaxMoves
  PROVE ResultsInv'
<1> DEFINE u == Results!Update(x)
           d == Results!Draw(u)
<1>1. Sound(u)
  BY UpdateSound
<1>2. Sound(d) /\ Settled(d)
  BY <1>1, DrawSound
<1>3. Results!State' = d
  <2> HIDE DEF d
  <2>1. d = [bridge |-> d.bridge, client |-> d.client, asked |-> d.asked, e |-> d.e,
             sent |-> d.sent, done |-> d.done, json |-> d.json]
    BY <1>2 DEF Sound, StateType
  <2>2. QED
    BY <2>1 DEF Results!Become, Results!State, d
<1>4. QED
  BY <1>2, <1>3 DEF ResultsInv

LEMMA StateSound == ResultsInv => Sound(Results!Update(Results!State)) /\ Facing(Results!Update(Results!State))
BY UpdateSound DEF ResultsInv

\* Of what an input changes of the editor, only the bridge in use is felt.
LEMMA InputSound ==
  ASSUME NEW x, Sound(x), Facing(x), NEW y \in StateType,
         y.bridge = x.bridge, y.asked = x.asked, y.sent = x.sent, y.done = x.done, y.json = x.json,
         y.e.file = x.e.file, y.e.external = x.e.external, y.e.seen = x.e.seen, y.e.open = x.e.open
  PROVE Sound(y) /\ Facing(y)
BY DEF Sound, Facing, IdsOnce, New

LEMMA TypedSound ==
  ASSUME NEW x, Sound(x), Facing(x), NEW p \in Files, NEW q \in Results!Popups
  PROVE LET y == Results!Typed([x EXCEPT !.e.popup = q], p) IN
        Sound(y) /\ Facing(y) /\ y.sent = x.sent
<1> DEFINE c == [x EXCEPT !.e.popup = q]
           y == Results!Typed(c, p)
           n == x.e.revs[p]
           m == IF n < MaxRev THEN n + 1 ELSE n
<1>1. x.e.revs \in [Files -> 0..MaxRev]
  BY DEF Sound, StateType
<1>2. m \in 0..MaxRev
  BY <1>1, ResultsAssumption
<1>3. c \in StateType /\ c.e.revs = x.e.revs
  BY DEF Sound, StateType
<1>4. y = [c EXCEPT !.e.revs[p] = m]
  BY <1>3 DEF Results!Typed
<1>5. /\ y \in StateType
      /\ y.bridge = x.bridge /\ y.asked = x.asked /\ y.sent = x.sent /\ y.done = x.done /\ y.json = x.json
      /\ y.e.file = x.e.file /\ y.e.external = x.e.external /\ y.e.seen = x.e.seen /\ y.e.open = x.e.open
  <2> HIDE DEF m, y, n
  <2>1. QED
    BY <1>1, <1>2, <1>3, <1>4 DEF Sound, StateType
<1>6. QED
  BY <1>5, InputSound

\* A request takes an id that no other had.
LEMMA SendSound ==
  ASSUME NEW x, Sound(x), Facing(x), NEW k \in Results!Kinds, x.sent < MaxRequests
  PROVE Sound(Results!Send(x, k)) /\ Facing(Results!Send(x, k))
<1>1. CASE x.e.file \in JsonPaths
  BY <1>1 DEF Results!Send
<1>2. CASE x.e.file \notin JsonPaths
  <2> DEFINE y == Results!Update(x)
             r == [id |-> y.sent + 1, kind |-> k, doc |-> Results!Focused(y)]
             z == [y EXCEPT !.asked = @ \cup {r}, !.sent = @ + 1]
  <2>1. Sound(y) /\ Facing(y)
    BY UpdateSound
  <2>2. y.sent = x.sent
    BY DEF Results!Update, Sound, StateType
  <2>3. Results!Send(x, k) = z
    BY <1>2 DEF Results!Send
  <2> HIDE DEF y
  <2>4. y.sent \in Nat /\ y.sent + 1 \in Results!Ids
    BY <2>1, <2>2, ResultsAssumption DEF Sound, StateType, Results!Ids
  <2>5. r \in Results!Request /\ r.id = y.sent + 1
    BY <2>1, <2>4 DEF Sound, StateType, Results!Request, Results!Focused, Results!Doc
  <2>6. y.done[y.sent + 1] = 0
    BY <2>1, <2>4 DEF Sound, StateType, IdsOnce
  <2> HIDE DEF r, z
  <2>7. /\ z \in StateType
        /\ z.bridge = y.bridge /\ z.asked = y.asked \cup {r} /\ z.sent = y.sent + 1
        /\ z.done = y.done /\ z.json = y.json /\ z.e = y.e
    <3>1. y \in StateType /\ y.asked \cup {r} \in SUBSET Results!Request /\ y.sent + 1 \in 0..MaxRequests
      BY <2>1, <2>2, <2>4, <2>5, ResultsAssumption DEF Sound, StateType
    <3>2. z = [y EXCEPT !.asked = y.asked \cup {r}, !.sent = y.sent + 1]
      BY DEF z
    <3>3. QED
      BY <3>1, <3>2 DEF StateType
  <2>8. IdsOnce(z)
    <3>1. \A q \in y.asked : q.id <= y.sent /\ q.id \in Results!Ids
      BY <2>1 DEF Sound, IdsOnce, StateType, Results!Request
    <3>2. \A l \in Acting : y.bridge.result[l] # Results!Nothing => y.bridge.result[l].id <= y.sent
      BY <2>1 DEF Sound, IdsOnce
    <3>3. \A l \in Acting : y.bridge.result[l] # Results!Nothing => y.bridge.result[l].id \in Results!Ids
      BY <2>1, NothingIsNoResult DEF Sound, StateType, Acting, Results!Kinds
    <3>4. \A q \in z.asked : q.id <= z.sent /\ z.done[q.id] = 0
      BY <2>1, <2>4, <2>5, <2>6, <2>7, <3>1 DEF Sound, IdsOnce, Results!Ids
    <3>5. \A q, s \in z.asked : q.id = s.id => q = s
      BY <2>1, <2>4, <2>5, <2>7, <3>1 DEF Sound, IdsOnce, Results!Ids
    <3>6. \A i \in Results!Ids : z.done[i] > 0 => i <= z.sent
      BY <2>1, <2>4, <2>7 DEF Sound, IdsOnce, Results!Ids
    <3>7. \A l \in Acting : z.bridge.result[l] # Results!Nothing =>
            /\ z.bridge.result[l].id <= z.sent
            /\ \A q \in z.asked : q.id # z.bridge.result[l].id
      BY <2>1, <2>4, <2>5, <2>7, <3>2, <3>3 DEF Sound, IdsOnce, Results!Ids
    <3>8. QED
      BY <2>1, <2>7, <3>4, <3>5, <3>6, <3>7 DEF Sound, IdsOnce
  <2>9. Sound(z) /\ Facing(z)
    BY <2>1, <2>7, <2>8 DEF Sound, Facing, New
  <2>10. QED
    BY <2>3, <2>9
<1>3. QED
  BY <1>1, <1>2

\* An answer is new to the editor, and of an id not acted on.
LEMMA AnswerSound == ASSUME ResultsInv, NEW r \in asked, Results!Answer(r) PROVE ResultsInv'
<1> DEFINE x == Results!State
           y == Results!State'
<1>1. /\ x \in StateType /\ Sound(x) /\ x.bridge = bridge /\ x.asked = asked /\ x.e = editor
      /\ x.sent = sent /\ x.done = done /\ x.json = json /\ x.client = client
  BY DEF ResultsInv, Sound, Results!State
<1>2. /\ y.bridge = bridge' /\ y.asked = asked \ {r} /\ y.e = editor
      /\ y.sent = sent /\ y.done = done /\ y.json = json /\ y.client = client
      /\ y = [bridge |-> bridge', client |-> client, asked |-> asked \ {r}, e |-> editor,
              sent |-> sent, done |-> done, json |-> json]
  BY DEF Results!Answer, Results!State
<1>3. r \in Results!Request /\ r.id \in Results!Ids /\ done[r.id] = 0 /\ r.id <= sent
  BY <1>1 DEF StateType, Results!Request, Sound, IdsOnce
<1>4. CASE UNCHANGED bridge
  <2>1. y \in StateType
    BY <1>1, <1>2, <1>4 DEF StateType
  <2>2. IdsOnce(y)
    BY <1>1, <1>2, <1>4 DEF Sound, IdsOnce
  <2>3. Sound(y) /\ Settled(y)
    BY <1>1, <1>2, <1>4, <2>1, <2>2 DEF ResultsInv, Sound, Settled, New
  <2>4. QED
    BY <2>3 DEF ResultsInv, Results!Answer
<1>5. ASSUME NEW res \in {Results!Nothing} \cup [id : {r.id}, path : {r.doc.path}, target : Files],
             bridge' = [bridge EXCEPT !.gen[r.kind] = @ + 1, !.result[r.kind] = res]
      PROVE ResultsInv'
  <2> DEFINE g == bridge.gen[r.kind] + 1
  <2>1. r.kind \in Results!Kinds /\ r.doc.path \in Files
    BY <1>3 DEF Results!Request, Results!Doc
  <2>2. res = Results!Nothing \/ (res \in Results!Result /\ res.id = r.id)
    BY <1>3, <1>5, <2>1 DEF Results!Result
  <2>3. /\ bridge.gen \in [Results!Kinds -> Nat] /\ g \in Nat /\ bridge.gen[r.kind] \in Nat
        /\ bridge.result \in [Results!Kinds -> Results!Result \cup {Results!Nothing}]
    BY <1>1, <2>1 DEF StateType
  <2>4. /\ bridge' \in [gen : [Results!Kinds -> Nat], result : [Results!Kinds -> Results!Result \cup {Results!Nothing}]]
        /\ bridge'.gen = [bridge.gen EXCEPT ![r.kind] = g]
        /\ bridge'.result = [bridge.result EXCEPT ![r.kind] = res]
    BY <1>1, <1>5, <2>1, <2>2, <2>3 DEF StateType
  <2>5. y \in StateType
    BY <1>1, <1>2, <2>4 DEF StateType
  <2>6. \A k \in Results!Kinds : \/ k = r.kind /\ y.bridge.gen[k] = g /\ y.bridge.result[k] = res
                         \/ /\ k # r.kind /\ y.bridge.gen[k] = bridge.gen[k]
                            /\ y.bridge.result[k] = bridge.result[k]
    BY <1>2, <2>1, <2>3, <2>4
  <2>7. Acting \subseteq Results!Kinds
    BY DEF Acting, Results!Kinds
  <2> HIDE DEF x, y, g
  <2>8. IdsOnce(y)
    <3>1. \A k \in Acting : y.bridge.result[k] # Results!Nothing =>
            /\ y.bridge.result[k].id <= sent
            /\ \A q \in asked \ {r} : q.id # y.bridge.result[k].id
      BY <1>1, <1>3, <2>2, <2>6, <2>7 DEF Sound, IdsOnce
    <3>2. \A k, l \in Acting : l # k /\ y.bridge.result[k] # Results!Nothing
             => y.bridge.result[l].id # y.bridge.result[k].id
      <4> SUFFICES ASSUME NEW k \in Acting, NEW l \in Acting, l # k, y.bridge.result[k] # Results!Nothing
                   PROVE y.bridge.result[l].id # y.bridge.result[k].id
        OBVIOUS
      <4>1. \A j \in Acting : bridge.result[j].id # r.id
        <5>1. Results!Nothing.id = 0
          BY DEF Results!Nothing
        <5>2. QED
          BY <1>1, <1>3, <5>1 DEF Sound, IdsOnce, Results!Ids
      <4>2. \A j \in Acting : bridge.result[j] # Results!Nothing => bridge.result[j].id \in Results!Ids
        BY <2>3, <2>7, NothingIsNoResult
      <4>3. CASE k = r.kind
        BY <2>2, <2>6, <2>7, <4>1, <4>3
      <4>4. CASE l = r.kind
        <5>1. bridge.result[k] # Results!Nothing
          BY <2>6, <2>7, <4>4
        <5>2. res.id = r.id \/ res.id = 0
          BY <2>2 DEF Results!Nothing
        <5>3. bridge.result[k].id # 0
          BY <4>2, <5>1 DEF Results!Ids
        <5>4. QED
          BY <2>6, <2>7, <4>1, <4>4, <5>2, <5>3
      <4>5. CASE k # r.kind /\ l # r.kind
        BY <1>1, <2>6, <2>7, <4>5 DEF Sound, IdsOnce
      <4>6. QED
        BY <4>3, <4>4, <4>5
    <3>3. QED
      BY <1>1, <1>2, <3>1, <3>2 DEF Sound, IdsOnce
  <2>9. /\ \A k \in Results!Kinds : IF editor.external THEN editor.seen[k] <= bridge.gen[k]
                               ELSE editor.seen[k] = 0
        /\ \A k \in Results!Kinds : editor.seen[k] \in Nat /\ bridge.gen[k] \in Nat
        /\ json \/ editor.external
    BY <1>1 DEF Sound, StateType, ResultsInv, Settled, x
  <2>10. editor.external => editor.seen[r.kind] < g /\ g > 0
    BY <2>1, <2>9 DEF g
  <2>11. \A k \in Results!Kinds : y.bridge.result[k] # Results!Nothing => y.bridge.gen[k] > 0
    BY <1>1, <2>3, <2>6 DEF Sound, g
  <2>12. \A k \in Acting : y.bridge.result[k] # Results!Nothing =>
            done[y.bridge.result[k].id] >= 1 \/ ~editor.external \/ New(y, k)
    BY <1>1, <1>2, <2>6, <2>7, <2>9, <2>10 DEF Sound, New
  <2>13. ~json => \A k \in Acting : y.bridge.result[k] # Results!Nothing /\ New(y, k) =>
                    done[y.bridge.result[k].id] = 0
    BY <1>1, <1>2, <1>3, <2>2, <2>6, <2>7 DEF Sound, New
  <2>14. Sound(y)
    BY <1>1, <1>2, <2>5, <2>8, <2>9, <2>11, <2>12, <2>13 DEF Sound
  <2>15. Settled(y)
    <3>1. \A k \in Results!Kinds : bridge.gen[k] <= y.bridge.gen[k] /\ y.bridge.gen[k] \in Nat
      BY <2>3, <2>6 DEF g
    <3>2. QED
      BY <1>2, <2>9, <3>1 DEF Settled
  <2>16. QED
    BY <2>14, <2>15 DEF ResultsInv, Results!Answer, y
<1>6. QED
  BY <1>4, <1>5 DEF Results!Answer

LEMMA ResultsInvInit == Results!Init => ResultsInv
<1> SUFFICES ASSUME Results!Init PROVE ResultsInv
  OBVIOUS
<1>1. /\ editor.file \in Files \ JsonPaths /\ editor.revs = [p \in Files |-> 0] /\ editor.external
      /\ editor.seen = [k \in Results!Kinds |-> 0] /\ editor.popup = "NONE" /\ ~editor.open
      /\ editor \in [file : Files, revs : [Files -> 0..MaxRev], external : BOOLEAN,
                     seen : [Results!Kinds -> Nat], popup : Results!Popups, open : BOOLEAN]
  <2>1. PICK f \in Files \ JsonPaths :
          editor = [file |-> f, revs |-> [p \in Files |-> 0], external |-> TRUE,
                    seen |-> [k \in Results!Kinds |-> 0], popup |-> "NONE", open |-> FALSE]
    BY DEF Results!Init
  <2>2. QED
    BY <2>1, ResultsAssumption DEF Results!Popups
<1>2. Results!State \in StateType
  <2>1. bridge \in [gen : [Results!Kinds -> Nat], result : [Results!Kinds -> Results!Result \cup {Results!Nothing}]]
    BY DEF Results!Init, Results!NoResults
  <2>2. client \in Results!Doc
    BY <1>1, ResultsAssumption DEF Results!Init, Results!Doc
  <2>3. QED
    <3>1. sent \in 0..MaxRequests /\ json \in BOOLEAN /\ asked \in SUBSET Results!Request
      <4>1. sent = 0 /\ json = FALSE /\ asked = {}
        BY DEF Results!Init
      <4>2. sent \in 0..MaxRequests
        BY <4>1, ResultsAssumption
      <4>3. json \in BOOLEAN
        BY <4>1
      <4>4. QED
        BY <4>1, <4>2, <4>3
    <3>2. done \in [Results!Ids -> 0..2]
      BY DEF Results!Init
    <3>3. editor \in [file : Files, revs : [Files -> 0..MaxRev], external : BOOLEAN,
                      seen : [Results!Kinds -> Nat], popup : Results!Popups, open : BOOLEAN]
      BY <1>1
    <3>4. QED
      BY <2>1, <2>2, <3>1, <3>2, <3>3 DEF Results!State, StateType
<1>3. \A k \in Results!Kinds : bridge.result[k] = Results!Nothing /\ bridge.gen[k] = 0
  BY DEF Results!Init, Results!NoResults
<1>4. IdsOnce(Results!State)
  BY <1>3 DEF IdsOnce, Results!State, Results!Init, Acting, Results!Kinds
<1>5. Sound(Results!State)
  BY <1>1, <1>2, <1>3, <1>4 DEF Sound, Results!State, Results!Init, Acting, Results!Kinds, New
<1>6. Settled(Results!State)
  <2>1. \A k \in Results!Kinds : editor.seen[k] = 0
    BY <1>1
  <2>2. QED
    BY <1>1, <1>3, <2>1 DEF Settled, Results!State
<1>7. moves \in 0..MaxMoves
  BY ResultsAssumption DEF Results!Init
<1>8. QED
  BY <1>5, <1>6, <1>7 DEF ResultsInv

LEMMA ResultsInvStep == ResultsInv /\ [Results!Next]_Results!vars => ResultsInv'
<1> SUFFICES ASSUME ResultsInv, [Results!Next]_Results!vars PROVE ResultsInv'
  OBVIOUS
<1> DEFINE u == Results!Update(Results!State)
<1>1. Sound(u) /\ Facing(u) /\ u \in StateType /\ u.e.file \in Files
  BY StateSound DEF Sound, StateType
<1>2. moves \in 0..MaxMoves
  BY DEF ResultsInv
<1> HIDE DEF u
<1>3. CASE UNCHANGED Results!vars
  BY <1>3 DEF Results!vars, ResultsInv, Results!State
<1>4. CASE Results!Idle
  <2>1. Results!Become(Results!Draw(Results!Update(u))) /\ UNCHANGED moves
    BY <1>4 DEF Results!Idle, Results!Frame, u
  <2>2. QED
    BY <1>1, <1>2, <2>1, FrameSound
<1>5. CASE Results!Type
  <2> DEFINE y == Results!Typed([u EXCEPT !.e.popup = "NONE"], u.e.file)
  <2>1. PICK x \in {y} \cup (IF y.sent < MaxRequests THEN {Results!Send(y, "COMPLETION")} ELSE {}) :
             Results!Become(Results!Draw(Results!Update(x))) /\ UNCHANGED moves
    BY <1>5 DEF Results!Type, Results!Frame, u
  <2>2. Sound(y) /\ Facing(y) /\ y.sent = u.sent
    BY <1>1, TypedSound DEF Results!Popups
  <2> HIDE DEF y
  <2>3. Sound(x) /\ Facing(x)
    BY <2>1, <2>2, SendSound DEF Results!Kinds
  <2>4. QED
    BY <1>2, <2>1, <2>3, FrameSound
<1>6. ASSUME NEW k \in Results!Kinds, Results!Ask(k) PROVE ResultsInv'
  <2>1. Results!Become(Results!Draw(Results!Update(Results!Send(u, k)))) /\ UNCHANGED moves /\ sent < MaxRequests
    BY <1>6 DEF Results!Ask, Results!Frame, u
  <2>2. u.sent = sent
    BY DEF u, Results!Update, Results!State, ResultsInv, Sound, StateType
  <2>3. Sound(Results!Send(u, k)) /\ Facing(Results!Send(u, k))
    BY <1>1, <2>1, <2>2, SendSound
  <2>4. QED
    BY <1>2, <2>1, <2>3, FrameSound
<1>7. CASE Results!Accept
  <2> DEFINE y == [u EXCEPT !.e.popup = "NONE"]
             t == Results!Typed(y, u.e.file)
  <2>1. PICK x \in {y, t} : Results!Become(Results!Draw(Results!Update(x))) /\ UNCHANGED moves
    BY <1>7 DEF Results!Accept, Results!Frame, u
  <2>2. Sound(y) /\ Facing(y)
    <3>1. /\ y \in StateType
          /\ y.bridge = u.bridge /\ y.asked = u.asked /\ y.sent = u.sent /\ y.done = u.done /\ y.json = u.json
          /\ y.e.file = u.e.file /\ y.e.external = u.e.external /\ y.e.seen = u.e.seen /\ y.e.open = u.e.open
      BY <1>1 DEF StateType, Results!Popups
    <3>2. QED
      BY <1>1, <3>1, InputSound
  <2>3. Sound(t) /\ Facing(t)
    BY <1>1, TypedSound DEF Results!Popups
  <2>4. QED
    BY <1>2, <2>1, <2>2, <2>3, FrameSound
<1>8. CASE Results!Dismiss
  <2> DEFINE y == [u EXCEPT !.e.popup = "NONE"]
  <2>1. Results!Become(Results!Draw(Results!Update(y))) /\ UNCHANGED moves
    BY <1>8 DEF Results!Dismiss, Results!Frame, u
  <2>2. /\ y \in StateType
        /\ y.bridge = u.bridge /\ y.asked = u.asked /\ y.sent = u.sent /\ y.done = u.done /\ y.json = u.json
        /\ y.e.file = u.e.file /\ y.e.external = u.e.external /\ y.e.seen = u.e.seen /\ y.e.open = u.e.open
    BY <1>1 DEF StateType, Results!Popups
  <2>3. Sound(y) /\ Facing(y)
    BY <1>1, <2>2, InputSound
  <2>4. QED
    BY <1>2, <2>1, <2>3, FrameSound
<1>9. CASE Results!Restart
  <2> DEFINE y == [u EXCEPT !.bridge = Results!NoResults, !.asked = {}]
  <2>1. Results!Become(Results!Draw(Results!Update(y))) /\ moves' \in 0..MaxMoves
    BY <1>2, <1>9, ResultsAssumption DEF Results!Restart, Results!Frame, u
  <2>2. y \in StateType
    BY <1>1 DEF StateType, Results!NoResults
  <2> HIDE DEF y
  <2>3. /\ y.bridge = Results!NoResults /\ y.asked = {} /\ y.sent = u.sent /\ y.done = u.done
        /\ y.json = u.json /\ y.e = u.e
    BY <1>1 DEF y, StateType
  <2>4. \A k \in Results!Kinds : y.bridge.result[k] = Results!Nothing
    BY <2>3 DEF Results!NoResults
  <2>5. IdsOnce(y)
    BY <1>1, <2>3, <2>4 DEF Sound, IdsOnce, Acting, Results!Kinds
  <2>6. Sound(y) /\ Facing(y)
    BY <1>1, <2>2, <2>3, <2>4, <2>5 DEF Sound, Facing, Acting, Results!Kinds
  <2>7. QED
    BY <2>1, <2>6, FrameSound
<1>10. CASE Results!Move
  <2> DEFINE x == Results!Draw(u)
  <2>1. PICK p \in Files, q \in {x.e.popup, "NONE"} : Results!Become([x EXCEPT !.e.file = p, !.e.popup = q])
    BY <1>10 DEF Results!Move, u
  <2> DEFINE y == [x EXCEPT !.e.file = p, !.e.popup = q]
  <2>2. Sound(x) /\ Settled(x) /\ x \in StateType
    BY <1>1, DrawSound DEF Sound
  <2> HIDE DEF x
  <2>3. /\ y \in StateType
        /\ y.bridge = x.bridge /\ y.asked = x.asked /\ y.sent = x.sent /\ y.done = x.done
        /\ y.json = x.json /\ y.e.external = x.e.external /\ y.e.seen = x.e.seen
        /\ y.e.open = x.e.open
    <3>1. q \in Results!Popups
      BY <2>1, <2>2 DEF StateType, Results!Popups
    <3>2. QED
      BY <2>2, <3>1 DEF StateType
  <2> HIDE DEF y
  <2>4. Sound(y) /\ Settled(y)
    BY <2>2, <2>3 DEF Sound, Settled, IdsOnce, New
  <2>5. Results!State' = y
    <3>1. y = [bridge |-> y.bridge, client |-> y.client, asked |-> y.asked, e |-> y.e,
               sent |-> y.sent, done |-> y.done, json |-> y.json]
      BY <2>3 DEF StateType
    <3>2. QED
      BY <2>1, <3>1 DEF Results!Become, Results!State, y
  <2>6. moves' \in 0..MaxMoves
    BY <1>2, <1>10, ResultsAssumption DEF Results!Move
  <2>7. QED
    BY <2>4, <2>5, <2>6 DEF ResultsInv
<1>11. ASSUME NEW r \in asked, Results!Answer(r) PROVE ResultsInv'
  BY <1>11, AnswerSound
<1>12. QED
  BY <1>3, <1>4, <1>5, <1>6, <1>7, <1>8, <1>9, <1>10, <1>11 DEF Results!Next

\* An answer with edits or a location is acted on, or is still new to the editor,
\* and none is acted on twice while no JSON file has been shown (lsp_client_win32.cpp's
\* generations against sync_lsp_result_popups and handle_lsp_pending_actions).
THEOREM ResultsActedOn == Results!Spec => []AnswersActedOn
<1>1. ResultsInv => AnswersActedOn
  BY DEF ResultsInv, Sound, Results!State, AnswersActedOn, Results!AnswersActedOn,
         Results!NoneOverlooked, Results!NoneRepeated, Results!Waiting, New, Acting
<1>2. QED
  BY <1>1, ResultsInvInit, ResultsInvStep, PTL DEF Results!Spec

-----------------------------------------------------------------------------
(* Both in one run *)

\* The run of MCDocuments is a run of either part: its other steps leave the
\* variables of the part alone, so the theorems above hold of it.
THEOREM EachOnItsOwn == DocumentsSpec => Spec /\ Results!Spec
<1>1. DocumentsInit => Init /\ Results!Init
  BY DEF DocumentsInit
<1>2. [DocumentsNext]_<<vars, results>> => [Next]_vars
  BY DEF DocumentsNext, Next, PanesRest
<1>3. [DocumentsNext]_<<vars, results>> => [Results!Next]_Results!vars
  BY DEF DocumentsNext, Results!Next, ResultsRest, results, Results!vars
<1>4. QED
  BY <1>1, <1>2, <1>3, PTL DEF DocumentsSpec, Spec, Results!Spec

=============================================================================
