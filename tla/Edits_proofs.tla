-------------------------- MODULE Edits_proofs --------------------------
(***************************************************************************)
(* Proofs about folded lines and about editing, for every text, number of   *)
(* folds and cursors, and order of keys.                                    *)
(*                                                                         *)
(* Folds.  The invariant is that the folds are scopes of the text and,      *)
(* where those are apart, come one behind the end of the other.  That       *)
(* folding keeps it rests on what sorting does (SortedIs) and on the header *)
(* of a line (HeaderOfStack).  That the walks agree rests on it alone: a    *)
(* walk has after n folds seen the visible lines before the end of the n-th *)
(* (BelowStep), since the lines between two folds are visible and those a   *)
(* fold hides are not.                                                      *)
(*                                                                         *)
(* Editing.  The invariant is Editable: the editor is typed with its first  *)
(* cursor on a line of the text, the stacks hold texts with cursors.  The   *)
(* other cursors need not be in the text, which is why each loop over them  *)
(* clamps.  A loop is a function of how many rounds it has made, which the  *)
(* ...Walk lemmas show to be defined; what a round keeps holds at the end.  *)
(* A key that saves before it edits is saved whatever the edit does; what   *)
(* is left are the moves, which keep the text (MovesAreSaved), and the keys *)
(* whose can_... is false, which must find nothing to erase (NoBackspace,   *)
(* NoDeleteChar, NoWord, NoDeleteLine).                                     *)
(***************************************************************************)
EXTENDS MCEdits, FiniteSetTheorems, TLAPS

-----------------------------------------------------------------------------
(* Numbers *)

\* A set of numbers that is not empty has a least one: of the intervals from 0 to one
\* of them, one is within no other.
LEMMA LeastNat ==
  ASSUME NEW S \in SUBSET Nat, S # {}
  PROVE  \E n \in S : \A m \in S : n <= m
<1>1. PICK top \in S : TRUE
  OBVIOUS
<1> DEFINE R == StrictSubsetOrdering(0 .. top)
           T == {0 .. m : m \in {n \in S : n <= top}}
<1>2. IsFiniteSet(0 .. top)
  BY FS_Interval
<1>3. IsWellFoundedOn(R, SUBSET (0 .. top))
  BY <1>2, FS_StrictSubsetOrderingWellFounded, FS_FiniteSubsetsOfFinite
<1>4. T \subseteq SUBSET (0 .. top) /\ T # {}
  OBVIOUS
<1>5. PICK x \in T : \A y \in T : ~(<<y, x>> \in R)
  <2> HIDE DEF R, T
  <2> QED BY <1>3, <1>4, WFMin
<1>6. PICK n \in S : n <= top /\ x = 0 .. n
  OBVIOUS
<1>7. ASSUME NEW m \in S, m < n PROVE FALSE
  <2>1. 0 .. m \in T /\ 0 .. m \subseteq x /\ 0 .. m # x
    BY <1>6, <1>7
  <2>2. <<0 .. m, x>> \in R
    BY <2>1, <1>4 DEF StrictSubsetOrdering
  <2> QED BY <1>5, <2>1, <2>2
<1> QED BY <1>6, <1>7

\* What holds of 0 and is handed on holds of every number up to N.
LEMMA UpTo ==
  ASSUME NEW N \in Nat, NEW T, 0 \in T, \A n \in 1 .. N : n - 1 \in T => n \in T
  PROVE  0 .. N \subseteq T
<1> SUFFICES ASSUME ~(0 .. N \subseteq T) PROVE FALSE
  OBVIOUS
<1>1. (0 .. N) \ T \in SUBSET Nat /\ (0 .. N) \ T # {}
  OBVIOUS
<1>2. PICK n \in (0 .. N) \ T : \A m \in (0 .. N) \ T : n <= m
  BY <1>1, LeastNat
<1>3. n \in 1 .. N /\ n - 1 \in 0 .. N /\ n - 1 < n
  BY <1>2
<1>4. n - 1 \in T
  BY <1>2, <1>3
<1> QED BY <1>2, <1>3, <1>4

\* A loop that goes from a value of S to the next, N times, has a course.
Loop(N, S) == [1 .. N -> [S -> S]]

IsCourse(N, a, G, f) == f[0] = a /\ \A n \in 1 .. N : f[n] = G[n][f[n - 1]]

LEMMA WalkExists ==
  ASSUME NEW N \in Nat, NEW S, NEW a \in S, NEW G \in Loop(N, S)
  PROVE  \E f \in [0 .. N -> S] : IsCourse(N, a, G, f)
<1> USE DEF Loop, IsCourse
<1> DEFINE Course(m, f) == f[0] = a /\ \A n \in 1 .. m : f[n] = G[n][f[n - 1]]
           T == {m \in 0 .. N : \E f \in [0 .. m -> S] : Course(m, f)}
<1>1. 0 \in T
  <2> DEFINE f == [n \in 0 .. 0 |-> a]
  <2>1. f \in [0 .. 0 -> S] /\ Course(0, f)
    OBVIOUS
  <2>2. 0 \in 0 .. N
    OBVIOUS
  <2> HIDE DEF f, Course
  <2> QED BY <2>1, <2>2
<1>2. ASSUME NEW n \in 1 .. N, n - 1 \in T PROVE n \in T
  <2>1. PICK f \in [0 .. n - 1 -> S] : Course(n - 1, f)
    BY <1>2
  <2> DEFINE g == [m \in 0 .. n |-> IF m = n THEN G[n][f[n - 1]] ELSE f[m]]
  <2>2. n - 1 \in 0 .. n - 1 /\ G[n][f[n - 1]] \in S
    BY <2>1
  <2>3. g \in [0 .. n -> S]
    BY <2>1, <2>2
  <2>4. g[0] = a
    BY <2>1
  <2>5. ASSUME NEW m \in 1 .. n PROVE g[m] = G[m][g[m - 1]]
    <3>1. g[m - 1] = f[m - 1]
      BY <2>5
    <3>2. CASE m = n
      BY <3>1, <3>2
    <3>3. CASE m # n
      BY <2>1, <3>1, <3>3
    <3> QED BY <3>2, <3>3
  <2> HIDE DEF g
  <2> QED BY <2>3, <2>4, <2>5
<1>3. 0 .. N \subseteq T
  <2> HIDE DEF T
  <2> QED BY <1>1, <1>2, UpTo
<1> QED BY <1>3

-----------------------------------------------------------------------------
(* Sorting *)

FoldRange == [start : Nat, end : Nat]

\* The ranges of a sequence stand in a strict order.
LEMMA PrecedesIsAnOrder ==
  ASSUME NEW rs \in Seq(FoldRange), NEW i \in DOMAIN rs, NEW j \in DOMAIN rs, NEW k \in DOMAIN rs
  PROVE  /\ ~Precedes(rs, i, i)
         /\ i = j \/ Precedes(rs, i, j) \/ Precedes(rs, j, i)
         /\ Precedes(rs, i, j) /\ Precedes(rs, j, k) => Precedes(rs, i, k)
<1>1. /\ i \in Nat /\ j \in Nat /\ k \in Nat
      /\ rs[i] \in FoldRange /\ rs[j] \in FoldRange /\ rs[k] \in FoldRange
  OBVIOUS
<1> QED BY <1>1 DEF Precedes, FoldRange

\* Sorted arranges the indices in S, each once, in this order.
LEMMA SortedIs ==
  ASSUME NEW rs \in Seq(FoldRange), NEW S \in SUBSET DOMAIN rs
  PROVE  /\ Cardinality(S) \in Nat
         /\ \E p \in [1 .. Cardinality(S) -> S] :
              /\ Sorted(rs, S) = [n \in 1 .. Cardinality(S) |-> rs[p[n]]]
              /\ \A m, n \in 1 .. Cardinality(S) : m < n => Precedes(rs, p[m], p[n])
<1> DEFINE Before(i) == {j \in S : Precedes(rs, j, i)}
           Rank(i) == Cardinality(Before(i))
           c == Cardinality(S)
           rank == [i \in S |-> Rank(i)]
           p == [n \in 1 .. c |-> CHOOSE i \in S : Rank(i) = n - 1]
<1>1. IsFiniteSet(S) /\ c \in Nat
  <2>1. DOMAIN rs = 1 .. Len(rs) /\ Len(rs) \in Nat
    OBVIOUS
  <2>2. IsFiniteSet(DOMAIN rs)
    BY <2>1, FS_Interval
  <2> QED BY <2>2, FS_Subset, FS_CardinalityType
<1>2. ASSUME NEW i \in S
      PROVE  IsFiniteSet(Before(i)) /\ Rank(i) \in 0 .. c - 1
  <2>1. Before(i) \in SUBSET S /\ Before(i) # S
    BY PrecedesIsAnOrder
  <2> HIDE DEF Before
  <2>2. IsFiniteSet(Before(i)) /\ Rank(i) <= c /\ (c = Rank(i) => S = Before(i))
    BY <1>1, <2>1, FS_Subset
  <2>3. Rank(i) \in Nat
    BY <2>2, FS_CardinalityType
  <2> QED BY <1>1, <2>1, <2>2, <2>3
<1>3. ASSUME NEW i \in S, NEW j \in S, Precedes(rs, i, j)
      PROVE  Rank(i) < Rank(j)
  <2>1. Before(i) \in SUBSET Before(j)
    BY <1>3, PrecedesIsAnOrder
  <2>2. i \in Before(j) /\ i \notin Before(i)
    BY <1>3, PrecedesIsAnOrder
  <2>3. Rank(i) \in 0 .. c - 1 /\ Rank(j) \in 0 .. c - 1 /\ IsFiniteSet(Before(j))
    BY <1>2
  <2> HIDE DEF Before, c
  <2>4. Rank(i) <= Rank(j) /\ (Rank(j) = Rank(i) => Before(j) = Before(i))
    BY <2>1, <2>3, FS_Subset
  <2> QED BY <1>1, <2>2, <2>3, <2>4
<1>4. \A i, j \in S : Rank(i) = Rank(j) => i = j
  <2> SUFFICES ASSUME NEW i \in S, NEW j \in S, Rank(i) = Rank(j), i # j PROVE FALSE
    OBVIOUS
  <2>1. Precedes(rs, i, j) \/ Precedes(rs, j, i)
    BY PrecedesIsAnOrder
  <2>2. Rank(i) \in 0 .. c - 1 /\ Rank(j) \in 0 .. c - 1
    BY <1>2
  <2> HIDE DEF Rank, c
  <2> QED BY <1>1, <1>3, <2>1, <2>2
<1>5. \A n \in 1 .. c : \E i \in S : Rank(i) = n - 1
  <2> HIDE DEF Rank, c
  <2>1. rank \in [S -> 0 .. c - 1]
    BY <1>2
  <2>2. rank \in Injection(S, 0 .. c - 1)
    BY <1>4, <2>1 DEF Injection, IsInjective
  <2>3. IsFiniteSet(0 .. c - 1) /\ Cardinality(0 .. c - 1) = c
    BY <1>1, FS_Interval
  <2>4. rank \in Surjection(S, 0 .. c - 1)
    <3>1. Cardinality(S) = c
      BY DEF c
    <3> HIDE DEF rank
    <3> QED BY <2>2, <2>3, <3>1, FS_Injection
  <2>5. ASSUME NEW n \in 1 .. c PROVE \E i \in S : Rank(i) = n - 1
    <3>1. n - 1 \in 0 .. c - 1
      BY <1>1
    <3>2. \E i \in S : rank[i] = n - 1
      BY <2>4, <3>1 DEF Surjection
    <3> QED BY <3>2
  <2> QED BY <2>5
<1>6. \A n \in 1 .. c : p[n] \in S /\ Rank(p[n]) = n - 1
  <2> HIDE DEF Rank
  <2> QED BY <1>5
<1>7. p \in [1 .. c -> S]
  <2> HIDE DEF Rank
  <2> QED BY <1>5
<1>8. ASSUME NEW m \in 1 .. c, NEW n \in 1 .. c, m < n
      PROVE  Precedes(rs, p[m], p[n])
  <2>1. p[m] \in S /\ p[n] \in S /\ Rank(p[m]) = m - 1 /\ Rank(p[n]) = n - 1
    BY <1>6
  <2> HIDE DEF p, Rank
  <2>2. ~Precedes(rs, p[n], p[m]) /\ p[m] # p[n]
    BY <1>1, <1>3, <1>8, <2>1
  <2> QED BY <2>1, <2>2, PrecedesIsAnOrder
<1>9. Sorted(rs, S) = [n \in 1 .. c |-> rs[p[n]]]
  BY DEF Sorted
<1> HIDE DEF p
<1> QED BY <1>1, <1>7, <1>8, <1>9

-----------------------------------------------------------------------------
(* Headers *)

Folding(fs) == fs \in Seq(FoldRange) /\ \A i \in DOMAIN fs : FoldRangeValid(fs[i])

\* Each fold begins behind the end of the one before.
Stacked(fs) == \A i, j \in DOMAIN fs : i < j => fs[i].end < fs[j].start

LEMMA LinesType ==
  ASSUME outline \in Outlines
  PROVE  Word \in Nat /\ lines \in 1 .. Word - 1 /\ lines \in Nat /\ 0 \in Lines
  BY OutlinesAssumption DEF lines, Lines

LEMMA FirstIs ==
  ASSUME NEW S \in SUBSET Nat, S # {}
  PROVE  FirstOf(S) \in S /\ \A y \in S : FirstOf(S) <= y
  BY LeastNat DEF FirstOf

LEMMA LastIs ==
  ASSUME NEW N \in Nat, NEW S \in SUBSET (1 .. N), S # {}
  PROVE  LastOf(S) \in S /\ \A y \in S : y <= LastOf(S)
<1> DEFINE T == {N - i : i \in S}
<1>1. T \in SUBSET Nat /\ T # {}
  <2>1. \A i \in S : i \in Nat /\ i <= N
    OBVIOUS
  <2>2. \A i \in S : N - i \in Nat
    BY <2>1
  <2> QED BY <2>2
<1>2. PICK n \in T : \A m \in T : n <= m
  BY <1>1, LeastNat
<1>3. PICK i \in S : n = N - i
  BY <1>2
<1>4. ASSUME NEW y \in S PROVE y <= i
  <2>1. N - y \in T
    OBVIOUS
  <2>2. N - i <= N - y
    BY <1>2, <1>3, <2>1
  <2>3. y \in Nat /\ i \in Nat
    OBVIOUS
  <2> QED BY <2>2, <2>3
<1> QED BY <1>4 DEF LastOf

\* The header of a line is a line, whichever folds there are.
LEMMA HeaderType ==
  ASSUME outline \in Outlines, NEW fs, Folding(fs), NEW l \in Lines
  PROVE  HeaderIn(fs, l) \in Lines
<1> DEFINE before == {i \in DOMAIN fs : fs[i].start < l}
           over == {i \in before : FoldRangeValid(fs[i]) /\ l <= fs[i].end}
<1>1. DOMAIN fs = 1 .. Len(fs) /\ Len(fs) \in Nat /\ over \in SUBSET (1 .. Len(fs))
  BY DEF Folding
<1>2. ASSUME over # {} PROVE fs[LastOf(over)].start \in Lines
  <2>1. LastOf(over) \in over
    BY <1>1, <1>2, LastIs
  <2>2. LastOf(over) \in DOMAIN fs
    BY <2>1
  <2> HIDE DEF over
  <2>3. fs[LastOf(over)] \in FoldRange /\ FoldRangeValid(fs[LastOf(over)])
    BY <2>2 DEF Folding
  <2> QED BY <2>3, LinesType DEF FoldRange, FoldRangeValid, Lines
<1>3. HeaderIn(fs, l) = l \/ (over # {} /\ HeaderIn(fs, l) = fs[LastOf(over)].start)
  BY DEF HeaderIn
<1> QED BY <1>2, <1>3

\* Of folds with no line in common, the one that hides a line has its header.
LEMMA HeaderOfStack ==
  ASSUME outline \in Outlines, NEW fs, Folding(fs), Stacked(fs), NEW l \in Lines
  PROVE  /\ \A i \in DOMAIN fs : Hides(fs[i], l) => HeaderIn(fs, l) = fs[i].start
         /\ (\A i \in DOMAIN fs : ~Hides(fs[i], l)) => HeaderIn(fs, l) = l
<1> DEFINE before == {i \in DOMAIN fs : fs[i].start < l}
           over == {i \in before : FoldRangeValid(fs[i]) /\ l <= fs[i].end}
           ended == {i \in before : fs[i].end < l}
<1>1. /\ DOMAIN fs = 1 .. Len(fs) /\ Len(fs) \in Nat /\ l \in Nat
      /\ \A i \in DOMAIN fs : fs[i] \in FoldRange
  BY LinesType DEF Folding, Lines
<1>2. ASSUME NEW i \in DOMAIN fs, Hides(fs[i], l)
      PROVE  over = {i} /\ ~\E j \in ended : j > i
  <2>1. fs[i].start < l /\ l <= fs[i].end /\ FoldRangeValid(fs[i])
    BY <1>2 DEF Hides, Folding
  <2>2. ASSUME NEW j \in DOMAIN fs, fs[j].start < l, l <= fs[j].end PROVE j = i
    BY <1>1, <2>1, <2>2 DEF Stacked, FoldRange
  <2>3. ASSUME NEW j \in DOMAIN fs, fs[j].start < l, j > i PROVE FALSE
    BY <1>1, <2>1, <2>3 DEF Stacked, FoldRange
  <2> QED BY <2>1, <2>2, <2>3
<1>3. ASSUME NEW i PROVE LastOf({i}) = i \/ i \notin Nat
  BY DEF LastOf
<1>4. ASSUME NEW i \in DOMAIN fs, Hides(fs[i], l) PROVE HeaderIn(fs, l) = fs[i].start
  <2>1. LastOf(over) = i /\ over # {} /\ ~\E j \in ended : j > LastOf(over)
    <3>1. LastOf({i}) = i
      BY <1>1, <1>3
    <3> QED BY <1>2, <1>4, <3>1
  <2>2. HeaderIn(fs, l) =
          IF over = {} \/ \E j \in ended : j > LastOf(over) THEN l ELSE fs[LastOf(over)].start
    BY DEF HeaderIn
  <2> HIDE DEF over, ended
  <2> QED BY <2>1, <2>2
<1>5. ASSUME \A i \in DOMAIN fs : ~Hides(fs[i], l) PROVE HeaderIn(fs, l) = l
  <2>1. over = {}
    BY <1>5 DEF Hides
  <2> QED BY <2>1 DEF HeaderIn
<1> QED BY <1>4, <1>5

-----------------------------------------------------------------------------
(* Visible lines *)

\* A text with folds that have no line in common.
Stack == outline \in Outlines /\ Folding(Folds) /\ Stacked(Folds)

\* The first line behind the n-th fold, and how many visible lines are before a line.
Behind(n) == IF n = 0 THEN 0 ELSE Folds[n].end + 1
Below(l) == Cardinality({v \in Visible : v < l})

LEMMA FoldIs ==
  ASSUME Stack, NEW i \in DOMAIN Folds
  PROVE  /\ Folds[i].start \in Nat /\ Folds[i].end \in Nat /\ lines \in Nat
         /\ Folds[i].start < Folds[i].end /\ Folds[i].end < lines
         /\ DOMAIN Folds = 1 .. Len(Folds) /\ Len(Folds) \in Nat /\ i \in Nat
<1>1. Folds[i] \in FoldRange /\ FoldRangeValid(Folds[i]) /\ i \in 1 .. Len(Folds)
  BY DEF Stack, Folding
<1> QED BY <1>1, LinesType DEF FoldRange, FoldRangeValid, Stack, Folding

LEMMA VisibleType ==
  ASSUME Stack
  PROVE  /\ IsFiniteSet(Visible) /\ Cardinality(Visible) \in Nat
         /\ \A v \in Visible : v \in Nat /\ v \in 0 .. lines - 1
<1>1. Visible \in SUBSET Lines /\ IsFiniteSet(Lines)
  BY LinesType, FS_Interval DEF Visible, Lines, Stack
<1>2. IsFiniteSet(Visible)
  BY <1>1, FS_Subset
<1>3. lines \in Nat
  BY LinesType DEF Stack
<1> QED BY <1>1, <1>2, <1>3, FS_CardinalityType DEF Lines

LEMMA BelowType ==
  ASSUME Stack, NEW l
  PROVE  IsFiniteSet({v \in Visible : v < l}) /\ Below(l) \in Nat
<1>1. IsFiniteSet(Visible) /\ {v \in Visible : v < l} \in SUBSET Visible
  BY VisibleType
<1>2. IsFiniteSet({v \in Visible : v < l})
  BY <1>1, FS_Subset
<1> QED BY <1>2, FS_CardinalityType DEF Below

\* Over lines that all are visible, or all hidden.
LEMMA BelowVisible ==
  ASSUME Stack, NEW a \in 0 .. lines, NEW b \in 0 .. lines, a <= b, a .. b - 1 \subseteq Visible
  PROVE  Below(b) = Below(a) + (b - a)
<1> DEFINE A == {v \in Visible : v < a}
<1>1. lines \in Nat /\ a \in Nat /\ b \in Nat /\ \A v \in Visible : v \in Nat
  BY LinesType, VisibleType DEF Stack
<1>2. {v \in Visible : v < b} = A \cup (a .. b - 1) /\ A \cap (a .. b - 1) = {}
  BY <1>1
<1>3. IsFiniteSet(A) /\ IsFiniteSet(a .. b - 1) /\ Cardinality(a .. b - 1) = b - a
  <2>1. /\ IsFiniteSet(a .. b - 1)
        /\ Cardinality(a .. b - 1) = IF a > b - 1 THEN 0 ELSE (b - 1) - a + 1
    BY <1>1, FS_Interval
  <2>2. IsFiniteSet(A)
    BY BelowType
  <2>3. Cardinality(a .. b - 1) = b - a
    BY <1>1, <2>1
  <2> QED BY <2>1, <2>2, <2>3
<1>4. Below(a) = Cardinality(A) /\ Cardinality(A) \in Nat
  BY BelowType DEF Below
<1>5. Cardinality(A \cup (a .. b - 1)) = Cardinality(A) + (b - a) - Cardinality({})
  <2> HIDE DEF A
  <2> QED BY <1>2, <1>3, FS_Union
<1>6. Below(b) = Cardinality(A \cup (a .. b - 1))
  BY <1>2 DEF Below
<1> HIDE DEF A
<1> QED BY <1>1, <1>4, <1>5, <1>6, FS_EmptySet

LEMMA BelowHidden ==
  ASSUME Stack, NEW a \in 0 .. lines, NEW b \in 0 .. lines, a <= b,
         (a .. b - 1) \cap Visible = {}
  PROVE  Below(b) = Below(a)
<1>1. lines \in Nat /\ a \in Nat /\ b \in Nat /\ \A v \in Visible : v \in Nat
  BY LinesType, VisibleType DEF Stack
<1>2. {v \in Visible : v < b} = {v \in Visible : v < a}
  BY <1>1
<1> QED BY <1>2 DEF Below

\* The lines up to the header of a fold are visible, the others of the fold are not.
LEMMA Segments ==
  ASSUME Stack, NEW n \in DOMAIN Folds
  PROVE  /\ n - 1 \in 0 .. Len(Folds) /\ Behind(n - 1) \in 0 .. Folds[n].start
         /\ Behind(n) = Folds[n].end + 1 /\ Behind(n) \in 0 .. lines
         /\ Behind(n - 1) .. Folds[n].start \subseteq Visible
         /\ (Folds[n].start + 1 .. Folds[n].end) \cap Visible = {}
<1>1. /\ DOMAIN Folds = 1 .. Len(Folds) /\ Len(Folds) \in Nat /\ n \in Nat /\ lines \in Nat
      /\ Folds[n].start \in Nat /\ Folds[n].end \in Nat
      /\ Folds[n].start < Folds[n].end /\ Folds[n].end < lines
  BY FoldIs
<1>2. Behind(n - 1) \in 0 .. Folds[n].start
  <2>1. CASE n = 1
    BY <1>1, <2>1 DEF Behind
  <2>2. CASE n # 1
    <3>1. n - 1 \in DOMAIN Folds /\ n - 1 < n
      BY <1>1, <2>2
    <3>2. Folds[n - 1].end \in Nat /\ Folds[n - 1].end < Folds[n].start
      BY <3>1, FoldIs DEF Stack, Stacked
    <3> QED BY <1>1, <3>2, <2>2 DEF Behind
  <2> QED BY <2>1, <2>2
<1>3. ASSUME NEW v \in Behind(n - 1) .. Folds[n].start, NEW i \in DOMAIN Folds, Hides(Folds[i], v)
      PROVE  FALSE
  <2>1. /\ Folds[i].start \in Nat /\ Folds[i].end \in Nat /\ v \in Nat /\ i \in Nat
        /\ Folds[i].start < Folds[i].end
    BY <1>1, <1>2, FoldIs
  <2>2. Folds[i].start < v /\ v <= Folds[i].end
    BY <1>3 DEF Hides
  <2>3. CASE i >= n
    <3>1. Folds[n].start <= Folds[i].start
      <4>1. CASE i = n
        BY <4>1, <2>1
      <4>2. CASE n < i
        BY <4>2, <1>1, <2>1 DEF Stack, Stacked
      <4> QED BY <2>1, <1>1, <2>3, <4>1, <4>2
    <3> QED BY <1>1, <2>1, <2>2, <3>1
  <2>4. CASE i < n
    <3>1. n # 1 /\ n - 1 \in DOMAIN Folds
      BY <1>1, <2>1, <2>4
    <3>2. /\ Folds[n - 1].start < Folds[n - 1].end
          /\ Folds[n - 1].end \in Nat /\ Folds[n - 1].start \in Nat
      BY <3>1, FoldIs
    <3>3. Folds[i].end <= Folds[n - 1].end
      <4>1. CASE i = n - 1
        BY <4>1, <2>1
      <4>2. CASE i < n - 1
        BY <4>2, <3>1, <3>2, <2>1 DEF Stack, Stacked
      <4> QED BY <2>1, <1>1, <2>4, <4>1, <4>2
    <3>4. Behind(n - 1) = Folds[n - 1].end + 1
      BY <1>1, <3>1 DEF Behind
    <3> QED BY <1>1, <1>2, <2>1, <2>2, <3>2, <3>3, <3>4
  <2> QED BY <1>1, <2>1, <2>3, <2>4
<1>4. Behind(n - 1) .. Folds[n].start \subseteq Visible
  <2>1. ASSUME NEW v \in Behind(n - 1) .. Folds[n].start PROVE v \in Lines
    BY <1>1, <1>2 DEF Lines
  <2> QED BY <1>3, <2>1 DEF Visible
<1>5. (Folds[n].start + 1 .. Folds[n].end) \cap Visible = {}
  BY <1>1 DEF Visible, Hides
<1> QED BY <1>1, <1>2, <1>4, <1>5 DEF Behind

LEMMA LastLines ==
  ASSUME Stack
  PROVE  /\ Behind(Len(Folds)) \in 0 .. lines /\ Len(Folds) \in Nat
         /\ Behind(Len(Folds)) .. lines - 1 \subseteq Visible
<1> DEFINE N == Len(Folds)
<1>1. lines \in Nat /\ N \in Nat /\ DOMAIN Folds = 1 .. N
  BY LinesType DEF Stack, Folding
<1>2. CASE N = 0
  <2>1. Behind(N) = 0 /\ DOMAIN Folds = {}
    BY <1>1, <1>2 DEF Behind
  <2>2. Lines \subseteq Visible
    BY <2>1 DEF Visible
  <2> QED BY <1>1, <2>1, <2>2 DEF Lines
<1>3. CASE N # 0
  <2>1. N \in DOMAIN Folds
    BY <1>1, <1>3
  <2>2. Behind(N) = Folds[N].end + 1 /\ Behind(N) \in 0 .. lines
    BY <2>1, Segments
  <2>3. ASSUME NEW v \in Behind(N) .. lines - 1, NEW i \in DOMAIN Folds, Hides(Folds[i], v)
        PROVE  FALSE
    <3>1. /\ Folds[i].end \in Nat /\ Folds[N].start \in Nat /\ Folds[N].end \in Nat
          /\ Folds[N].start < Folds[N].end /\ i \in 1 .. N
      BY <1>1, <2>1, FoldIs
    <3>2. Folds[i].end <= Folds[N].end
      <4>1. CASE i = N
        BY <3>1, <4>1
      <4>2. CASE i < N
        BY <2>1, <3>1, <4>2 DEF Stack, Stacked
      <4> QED BY <1>1, <3>1, <4>1, <4>2
    <3> QED BY <1>1, <2>2, <2>3, <3>1, <3>2 DEF Hides
  <2>4. ASSUME NEW v \in Behind(N) .. lines - 1 PROVE v \in Visible
    <3>1. v \in Lines
      BY <1>1, <2>2 DEF Lines
    <3> QED BY <2>3, <3>1 DEF Visible
  <2> QED BY <1>1, <2>2, <2>4
<1> QED BY <1>2, <1>3

\* From the end of a fold to the end of the next.
LEMMA BelowStep ==
  ASSUME Stack, NEW n \in DOMAIN Folds
  PROVE  Below(Behind(n)) = Below(Behind(n - 1)) + (Folds[n].start - Behind(n - 1)) + 1
<1>1. /\ Folds[n].start \in Nat /\ Folds[n].end \in Nat /\ lines \in Nat
      /\ Folds[n].start < Folds[n].end /\ Folds[n].end < lines
  BY FoldIs
<1>2. /\ Behind(n - 1) \in 0 .. Folds[n].start /\ Behind(n) = Folds[n].end + 1
      /\ Behind(n - 1) .. Folds[n].start \subseteq Visible
      /\ (Folds[n].start + 1 .. Folds[n].end) \cap Visible = {}
  BY Segments
<1> DEFINE a == Behind(n - 1)
           b == Folds[n].start + 1
           c == Folds[n].end + 1
<1>3. a \in 0 .. lines /\ b \in 0 .. lines /\ c \in 0 .. lines /\ a <= b /\ b <= c
  BY <1>1, <1>2
<1>4. a .. b - 1 \subseteq Visible /\ (b .. c - 1) \cap Visible = {}
  BY <1>1, <1>2
<1>5. Below(a) \in Nat
  BY BelowType
<1> HIDE DEF a, b, c
<1>6. Below(b) = Below(a) + (b - a) /\ Below(c) = Below(b)
  BY <1>3, <1>4, BelowVisible, BelowHidden
<1> QED BY <1>1, <1>2, <1>5, <1>6 DEF a, b, c

LEMMA BelowEnds ==
  ASSUME Stack
  PROVE  Below(0) = 0 /\ Below(lines) = Cardinality(Visible) /\ Cardinality(Visible) >= 1
<1>1. lines \in Nat \ {0} /\ \A v \in Visible : v \in 0 .. lines - 1
  BY LinesType, VisibleType DEF Stack
<1>2. {v \in Visible : v < 0} = {} /\ {v \in Visible : v < lines} = Visible
  BY <1>1
<1>3. 0 \in Visible
  <2>1. \A i \in DOMAIN Folds : ~Hides(Folds[i], 0)
    BY FoldIs DEF Hides
  <2> QED BY <1>1, <2>1 DEF Visible, Lines
<1>4. Cardinality(Visible) \in Nat /\ Cardinality(Visible) # 0
  BY <1>3, VisibleType, FS_EmptySet
<1> QED BY <1>2, <1>4, FS_EmptySet DEF Below

\* More visible lines are before a visible line than before any line above it.
LEMMA BelowRises ==
  ASSUME Stack, NEW u \in Visible, NEW v \in 0 .. lines, u < v
  PROVE  Below(u) + 1 <= Below(v) /\ Below(u + 1) = Below(u) + 1
<1>1. lines \in Nat /\ u \in 0 .. lines - 1 /\ u + 1 \in 0 .. lines
  BY LinesType, VisibleType DEF Stack
<1>2. Below(u + 1) = Below(u) + 1
  <2>1. u .. (u + 1) - 1 \subseteq Visible /\ u \in 0 .. lines /\ u <= u + 1
    BY <1>1
  <2>2. Below(u + 1) = Below(u) + ((u + 1) - u)
    BY <1>1, <2>1, BelowVisible
  <2> QED BY <1>1, <2>2
<1>3. {w \in Visible : w < u + 1} \in SUBSET {w \in Visible : w < v}
  <2>1. ASSUME NEW w \in Visible, w < u + 1 PROVE w < v
    <3>1. w \in Nat /\ u \in Nat /\ v \in Nat
      BY <1>1, VisibleType
    <3> QED BY <2>1, <3>1
  <2> QED BY <2>1
<1>4. Below(u + 1) <= Below(v)
  BY <1>3, BelowType, FS_Subset DEF Below
<1>5. Below(v) \in Nat /\ Below(u) \in Nat
  BY BelowType
<1> QED BY <1>2, <1>4, <1>5

\* The header of a line is the last visible line that is not after it.
LEMMA HeaderIs ==
  ASSUME Stack, NEW l \in Lines
  PROVE  /\ Header(l) \in Visible /\ Header(l) \in 0 .. l
         /\ (Header(l) + 1 .. l) \cap Visible = {}
<1>1. lines \in Nat /\ l \in Nat
  BY LinesType DEF Stack, Lines
<1>2. CASE \E i \in DOMAIN Folds : Hides(Folds[i], l)
  <2>1. PICK i \in DOMAIN Folds : Hides(Folds[i], l)
    BY <1>2
  <2>2. Header(l) = Folds[i].start
    BY <2>1, HeaderOfStack DEF Header, Stack
  <2>3. Folds[i].start \in Nat /\ Folds[i].end \in Nat
    BY FoldIs
  <2>4. /\ Behind(i - 1) \in 0 .. Folds[i].start
        /\ Behind(i - 1) .. Folds[i].start \subseteq Visible
        /\ (Folds[i].start + 1 .. Folds[i].end) \cap Visible = {}
    BY Segments
  <2>5. Folds[i].start < l /\ l <= Folds[i].end
    BY <2>1 DEF Hides
  <2>6. Folds[i].start \in Visible
    BY <2>3, <2>4
  <2>7. Folds[i].start + 1 .. l \subseteq Folds[i].start + 1 .. Folds[i].end
    BY <1>1, <2>3, <2>5
  <2> QED BY <1>1, <2>2, <2>3, <2>4, <2>5, <2>6, <2>7
<1>3. CASE \A i \in DOMAIN Folds : ~Hides(Folds[i], l)
  <2>1. Header(l) = l
    BY <1>3, HeaderOfStack DEF Header, Stack
  <2>2. l \in Visible
    BY <1>3 DEF Visible
  <2> QED BY <1>1, <2>1, <2>2
<1> QED BY <1>2, <1>3

\* So many visible lines are there up to a line.
LEMMA UpToIs ==
  ASSUME Stack, NEW l \in Lines
  PROVE  Cardinality({v \in Visible : v <= l}) = Below(Header(l)) + 1
<1> DEFINE h == Header(l)
<1>1. lines \in Nat /\ l \in 0 .. lines - 1
  BY LinesType DEF Stack, Lines
<1>2. h \in Visible /\ h \in 0 .. l /\ (h + 1 .. l) \cap Visible = {}
  BY HeaderIs
<1>3. {v \in Visible : v <= l} = {v \in Visible : v < l + 1}
  BY <1>1, VisibleType
<1> HIDE DEF h
<1>4. h + 1 \in 0 .. lines /\ l + 1 \in 0 .. lines /\ h + 1 <= l + 1
  BY <1>1, <1>2
<1>5. (h + 1 .. (l + 1) - 1) \cap Visible = {}
  BY <1>1, <1>2
<1>6. Below(l + 1) = Below(h + 1)
  BY <1>4, <1>5, BelowHidden
<1>7. Below(h + 1) = Below(h) + 1
  <2>1. h < h + 1
    BY <1>1, <1>2
  <2> QED BY <1>2, <1>4, <2>1, BelowRises
<1>8. Below(l + 1) = Cardinality({v \in Visible : v <= l})
  BY <1>3 DEF Below
<1> QED BY <1>6, <1>7, <1>8 DEF h

-----------------------------------------------------------------------------
(* The walks *)

Counts == [count : Nat, line : Nat]

\* The walk of editor_visible_line_count.
LEMMA CountWalk ==
  ASSUME outline \in Outlines, Folding(Folds)
  PROVE  \E w \in [0 .. Len(Folds) -> Counts] :
           /\ w[0] = [count |-> 0, line |-> 0]
           /\ \A n \in 1 .. Len(Folds) : w[n] = Counted(w[n - 1], Folds[n])
           /\ VisibleLineCount =
                LET s == w[Len(Folds)]
                    count == s.count + (IF s.line < lines THEN lines - s.line ELSE 0)
                IN  IF count = 0 THEN 1 ELSE count
<1> DEFINE N == Len(Folds)
           a == [count |-> 0, line |-> 0]
           Course(g) == [n \in 0 .. N |-> IF n = 0 THEN a ELSE Counted(g[n - 1], Folds[n])]
           w == CHOOSE g : g = Course(g)
           G == [n \in 1 .. N |-> [s \in Counts |-> Counted(s, Folds[n])]]
<1>1. N \in Nat /\ a \in Counts
  BY DEF Folding, Counts
<1>2. ASSUME NEW n \in 1 .. N, NEW s \in Counts PROVE Counted(s, Folds[n]) \in Counts
  <2>1. Folds[n] \in FoldRange
    BY DEF Folding
  <2> QED BY <2>1 DEF Counted, Counts, FoldRange
<1>3. G \in Loop(N, Counts)
  BY <1>2 DEF Loop
<1>4. \E f : f = Course(f)
  <2>1. PICK f \in [0 .. N -> Counts] : f[0] = a /\ \A n \in 1 .. N : f[n] = G[n][f[n - 1]]
    <3> HIDE DEF G, N, a
    <3>1. \E f \in [0 .. N -> Counts] : IsCourse(N, a, G, f)
      BY <1>1, <1>3, WalkExists
    <3> QED BY <3>1 DEF IsCourse
  <2>2. ASSUME NEW n \in 0 .. N PROVE f[n] = IF n = 0 THEN a ELSE Counted(f[n - 1], Folds[n])
    <3>1. CASE n = 0
      BY <2>1, <3>1
    <3>2. CASE n # 0
      <4>1. n \in 1 .. N /\ n - 1 \in 0 .. N /\ f[n - 1] \in Counts
        BY <1>1, <2>1, <3>2
      <4> QED BY <2>1, <3>2, <4>1
    <3> QED BY <3>1, <3>2
  <2>3. f = Course(f)
    BY <2>1, <2>2
  <2> QED BY <2>3
<1>5. w = Course(w)
  <2> HIDE DEF Course
  <2> QED BY <1>4
<1>6. w[0] = a /\ \A n \in 1 .. N : w[n] = Counted(w[n - 1], Folds[n])
  <2>1. \A n \in 0 .. N : Course(w)[n] = IF n = 0 THEN a ELSE Counted(w[n - 1], Folds[n])
    OBVIOUS
  <2> HIDE DEF w, Course
  <2>2. \A n \in 0 .. N : w[n] = IF n = 0 THEN a ELSE Counted(w[n - 1], Folds[n])
    BY <1>5, <2>1
  <2>3. 0 \in 0 .. N /\ \A n \in 1 .. N : n \in 0 .. N /\ n # 0
    BY <1>1
  <2> QED BY <2>2, <2>3
<1>7. w \in [0 .. N -> Counts]
  <2> DEFINE T == {n \in 0 .. N : w[n] \in Counts}
  <2>1. 0 \in T
    BY <1>1, <1>6
  <2>2. ASSUME NEW n \in 1 .. N, n - 1 \in T PROVE n \in T
    BY <1>2, <1>6, <2>2
  <2>3. 0 .. N \subseteq T
    <3> HIDE DEF T, N
    <3> QED BY <1>1, <2>1, <2>2, UpTo
  <2>4. w = [n \in 0 .. N |-> w[n]]
    <3> HIDE DEF w
    <3> QED BY <1>5
  <2> HIDE DEF w
  <2> QED BY <2>3, <2>4
<1>8. VisibleLineCount =
        LET s == w[N]
            count == s.count + (IF s.line < lines THEN lines - s.line ELSE 0)
        IN  IF count = 0 THEN 1 ELSE count
  BY DEF VisibleLineCount
<1> HIDE DEF w
<1> QED BY <1>6, <1>7, <1>8

Finds == [found : BOOLEAN, visible : Int, line : Int]

Span(s, r) == IF r.start > s.line THEN r.start - s.line ELSE 0

PassedTo(index, s, r) ==
  IF s.found \/ ~FoldRangeValid(r) \/ r.end < s.line THEN s
  ELSE IF index < s.visible + Span(s, r)
  THEN [s EXCEPT !.found = TRUE, !.line = s.line + index - s.visible]
  ELSE IF index = s.visible + Span(s, r)
  THEN [s EXCEPT !.found = TRUE, !.line = r.start]
  ELSE [s EXCEPT !.visible = s.visible + Span(s, r) + 1, !.line = r.end + 1]

\* One fold of the walk of editor_visible_line_at.
LEMMA PassedIs ==
  ASSUME NEW index \in Nat, NEW s \in Finds, NEW r \in FoldRange
  PROVE  Passed(index, s, r) = PassedTo(index, s, r)
<1> USE DEF PassedTo, Span
<1> DEFINE span == IF r.start > s.line THEN r.start - s.line ELSE 0
<1>1. /\ r.start \in Int /\ r.end \in Int /\ s.line \in Int /\ s.visible \in Int
      /\ span \in Int /\ s.found \in BOOLEAN
  BY DEF Finds, FoldRange
<1>2. CASE s.found \/ ~FoldRangeValid(r) \/ r.end < s.line
  BY <1>1, <1>2 DEF Passed
<1>3. CASE ~(s.found \/ ~FoldRangeValid(r) \/ r.end < s.line)
  <2>1. ~s.found /\ FoldRangeValid(r) /\ r.end >= s.line
    BY <1>1, <1>3
  <2>2. Passed(index, s, r) =
          CASE index < s.visible + span
                 -> [s EXCEPT !.found = TRUE, !.line = s.line + index - s.visible]
            [] index = s.visible + span -> [s EXCEPT !.found = TRUE, !.line = r.start]
            [] index > s.visible + span -> [s EXCEPT !.visible = @ + span + 1, !.line = r.end + 1]
    BY <1>1, <1>3, <2>1 DEF Passed
  <2>3. s.visible + span \in Int /\ [s EXCEPT !.visible = @ + span + 1, !.line = r.end + 1] =
          [s EXCEPT !.visible = s.visible + span + 1, !.line = r.end + 1]
    BY <1>1 DEF Finds
  <2> HIDE DEF span
  <2> QED BY <1>3, <2>2, <2>3 DEF span
<1> QED BY <1>2, <1>3

\* The walk of editor_visible_line_at.
LEMMA AtWalk ==
  ASSUME outline \in Outlines, Folding(Folds), NEW index \in Nat
  PROVE  \E w \in [0 .. Len(Folds) -> Finds] :
           /\ w[0] = [found |-> FALSE, visible |-> 0, line |-> 0]
           /\ \A n \in 1 .. Len(Folds) : w[n] = Passed(index, w[n - 1], Folds[n])
           /\ VisibleLineAt(index) =
                LET s == w[Len(Folds)]
                IN  IF s.found THEN s.line ELSE Lesser(s.line + index - s.visible, lines - 1)
<1> DEFINE N == Len(Folds)
           a == [found |-> FALSE, visible |-> 0, line |-> 0]
           Course(g) == [n \in 0 .. N |-> IF n = 0 THEN a ELSE Passed(index, g[n - 1], Folds[n])]
           w == CHOOSE g : g = Course(g)
           G == [n \in 1 .. N |-> [s \in Finds |-> Passed(index, s, Folds[n])]]
<1>1. N \in Nat /\ a \in Finds
  BY DEF Folding, Finds
<1>2. ASSUME NEW n \in 1 .. N, NEW s \in Finds PROVE Passed(index, s, Folds[n]) \in Finds
  <2> DEFINE r == Folds[n]
             span == Span(s, r)
  <2>1. r.start \in Int /\ r.end \in Int /\ s.line \in Int /\ s.visible \in Int /\ span \in Int
    <3>1. r \in FoldRange
      BY DEF Folding
    <3> QED BY <3>1 DEF Finds, FoldRange, Span
  <2> HIDE DEF r, span
  <2>2. \A x \in Int : [s EXCEPT !.found = TRUE, !.line = x] \in Finds
    BY DEF Finds
  <2>3. \A x, y \in Int : [s EXCEPT !.visible = x, !.line = y] \in Finds
    BY DEF Finds
  <2>4. /\ s.line + index - s.visible \in Int /\ r.end + 1 \in Int
        /\ s.visible + span + 1 \in Int
    BY <2>1
  <2>5. /\ [s EXCEPT !.visible = s.visible + span + 1, !.line = r.end + 1] \in Finds
        /\ [s EXCEPT !.found = TRUE, !.line = s.line + index - s.visible] \in Finds
        /\ [s EXCEPT !.found = TRUE, !.line = r.start] \in Finds
    BY <2>1, <2>2, <2>3, <2>4
  <2>6. Passed(index, s, r) \in
          {s, [s EXCEPT !.visible = s.visible + span + 1, !.line = r.end + 1],
           [s EXCEPT !.found = TRUE, !.line = s.line + index - s.visible],
           [s EXCEPT !.found = TRUE, !.line = r.start]}
    <3>1. r \in FoldRange
      BY DEF r, Folding
    <3>2. Passed(index, s, r) = PassedTo(index, s, r)
      BY <3>1, PassedIs
    <3> QED BY ONLY <3>2 DEF PassedTo, span
  <2> QED BY <2>5, <2>6 DEF r
<1>3. G \in Loop(N, Finds)
  BY <1>2 DEF Loop
<1>4. \E f : f = Course(f)
  <2>1. PICK f \in [0 .. N -> Finds] : f[0] = a /\ \A n \in 1 .. N : f[n] = G[n][f[n - 1]]
    <3> HIDE DEF G, N, a
    <3>1. \E f \in [0 .. N -> Finds] : IsCourse(N, a, G, f)
      BY <1>1, <1>3, WalkExists
    <3> QED BY <3>1 DEF IsCourse
  <2>2. ASSUME NEW n \in 0 .. N PROVE f[n] = IF n = 0 THEN a ELSE Passed(index, f[n - 1], Folds[n])
    <3>1. CASE n = 0
      BY <2>1, <3>1
    <3>2. CASE n # 0
      <4>1. n \in 1 .. N /\ n - 1 \in 0 .. N /\ f[n - 1] \in Finds
        BY <1>1, <2>1, <3>2
      <4>2. G[n][f[n - 1]] = Passed(index, f[n - 1], Folds[n])
        BY <4>1
      <4> QED BY <2>1, <3>2, <4>1, <4>2
    <3> QED BY <3>1, <3>2
  <2>3. f = Course(f)
    BY <2>1, <2>2
  <2> QED BY <2>3
<1>5. w = Course(w)
  <2> HIDE DEF Course
  <2> QED BY <1>4
<1>6. w[0] = a /\ \A n \in 1 .. N : w[n] = Passed(index, w[n - 1], Folds[n])
  <2>1. \A n \in 0 .. N : Course(w)[n] = IF n = 0 THEN a ELSE Passed(index, w[n - 1], Folds[n])
    OBVIOUS
  <2> HIDE DEF w, Course
  <2>2. \A n \in 0 .. N : w[n] = IF n = 0 THEN a ELSE Passed(index, w[n - 1], Folds[n])
    BY <1>5, <2>1
  <2>3. 0 \in 0 .. N /\ \A n \in 1 .. N : n \in 0 .. N /\ n # 0
    BY <1>1
  <2> QED BY <2>2, <2>3
<1>7. w \in [0 .. N -> Finds]
  <2> DEFINE T == {n \in 0 .. N : w[n] \in Finds}
  <2>1. 0 \in T
    BY <1>1, <1>6
  <2>2. ASSUME NEW n \in 1 .. N, n - 1 \in T PROVE n \in T
    <3>1. w[n - 1] \in Finds /\ w[n] = Passed(index, w[n - 1], Folds[n])
      BY <1>6, <2>2
    <3> HIDE DEF w
    <3> QED BY <1>1, <1>2, <3>1
  <2>3. 0 .. N \subseteq T
    <3> HIDE DEF T, N
    <3> QED BY <1>1, <2>1, <2>2, UpTo
  <2>4. w = [n \in 0 .. N |-> w[n]]
    <3> HIDE DEF w
    <3> QED BY <1>5
  <2> HIDE DEF w
  <2> QED BY <2>3, <2>4
<1>8. VisibleLineAt(index) =
        LET s == w[N]
        IN  IF s.found THEN s.line ELSE Lesser(s.line + index - s.visible, lines - 1)
  BY DEF VisibleLineAt
<1> HIDE DEF w
<1> QED BY <1>6, <1>7, <1>8

\* What editor_visible_line_index subtracts for a fold.
Reduced(header, left, r) ==
  IF FoldRangeValid(r) /\ r.start < header THEN (left - (r.end - r.start)) % Word ELSE left

\* The walk of editor_visible_line_index.
LEMMA IndexWalk ==
  ASSUME outline \in Outlines, Folding(Folds), NEW l \in Lines
  PROVE  \E w \in [0 .. Len(Folds) -> Int] :
           /\ w[0] = Header(l)
           /\ \A n \in 1 .. Len(Folds) : w[n] = Reduced(Header(l), w[n - 1], Folds[n])
           /\ VisibleLineIndex(l) = w[Len(Folds)]
<1> DEFINE h == Header(Lesser(l, lines - 1))
           N == Len(Folds)
           a == h
           Course(g) == [n \in 0 .. N |-> IF n = 0 THEN a ELSE Reduced(h, g[n - 1], Folds[n])]
           w == CHOOSE g : g = Course(g)
           G == [n \in 1 .. N |-> [s \in Int |-> Reduced(h, s, Folds[n])]]
<1>0. h = Header(l) /\ h \in Int
  <2>1. Lesser(l, lines - 1) = l
    BY LinesType DEF Lesser, Lines
  <2>2. Header(l) \in Lines
    BY HeaderType DEF Header
  <2> QED BY <2>1, <2>2, LinesType DEF Lines
<1>1. N \in Nat /\ a \in Int
  BY <1>0 DEF Folding
<1>2. ASSUME NEW n \in 1 .. N, NEW s \in Int PROVE Reduced(h, s, Folds[n]) \in Int
  <2>1. Folds[n] \in FoldRange /\ Word \in Nat \ {0} /\ h \in Int
    BY <1>0, LinesType DEF Folding
  <2> HIDE DEF h
  <2> QED BY <2>1 DEF Reduced, FoldRange
<1>3. G \in Loop(N, Int)
  BY <1>2 DEF Loop
<1>4. \E f : f = Course(f)
  <2>1. PICK f \in [0 .. N -> Int] : f[0] = a /\ \A n \in 1 .. N : f[n] = G[n][f[n - 1]]
    <3> HIDE DEF G, N, a
    <3>1. \E f \in [0 .. N -> Int] : IsCourse(N, a, G, f)
      BY <1>1, <1>3, WalkExists
    <3> QED BY <3>1 DEF IsCourse
  <2>2. ASSUME NEW n \in 0 .. N PROVE f[n] = IF n = 0 THEN a ELSE Reduced(h, f[n - 1], Folds[n])
    <3>1. CASE n = 0
      BY <2>1, <3>1
    <3>2. CASE n # 0
      <4>1. n \in 1 .. N /\ n - 1 \in 0 .. N /\ f[n - 1] \in Int
        BY <1>1, <2>1, <3>2
      <4>2. G[n][f[n - 1]] = Reduced(h, f[n - 1], Folds[n])
        BY <4>1
      <4> QED BY <2>1, <3>2, <4>1, <4>2
    <3> QED BY <3>1, <3>2
  <2>3. f = Course(f)
    BY <2>1, <2>2
  <2> QED BY <2>3
<1>5. w = Course(w)
  <2> HIDE DEF Course
  <2> QED BY <1>4
<1>6. w[0] = a /\ \A n \in 1 .. N : w[n] = Reduced(h, w[n - 1], Folds[n])
  <2>1. \A n \in 0 .. N : Course(w)[n] = IF n = 0 THEN a ELSE Reduced(h, w[n - 1], Folds[n])
    OBVIOUS
  <2> HIDE DEF w, Course
  <2>2. \A n \in 0 .. N : w[n] = IF n = 0 THEN a ELSE Reduced(h, w[n - 1], Folds[n])
    BY <1>5, <2>1
  <2>3. 0 \in 0 .. N /\ \A n \in 1 .. N : n \in 0 .. N /\ n # 0
    BY <1>1
  <2> QED BY <2>2, <2>3
<1>7. w \in [0 .. N -> Int]
  <2> DEFINE T == {n \in 0 .. N : w[n] \in Int}
  <2>1. 0 \in T
    BY <1>1, <1>6
  <2>2. ASSUME NEW n \in 1 .. N, n - 1 \in T PROVE n \in T
    <3>1. w[n - 1] \in Int /\ w[n] = Reduced(h, w[n - 1], Folds[n])
      BY <1>6, <2>2
    <3> HIDE DEF w, h
    <3>2. Reduced(h, w[n - 1], Folds[n]) \in Int
      BY <1>2, <3>1
    <3> QED BY <1>1, <3>1, <3>2
  <2>3. 0 .. N \subseteq T
    <3> HIDE DEF T, N
    <3> QED BY <1>1, <2>1, <2>2, UpTo
  <2>4. w = [n \in 0 .. N |-> w[n]]
    <3> HIDE DEF w
    <3> QED BY <1>5
  <2> HIDE DEF w
  <2> QED BY <2>3, <2>4
<1>8. VisibleLineIndex(l) = w[N]
  BY DEF VisibleLineIndex, Reduced, h
<1> HIDE DEF w, h
<1> QED BY <1>0, <1>6, <1>7, <1>8

\* The first walk counts the visible lines.
LEMMA CountIs ==
  ASSUME Stack
  PROVE  VisibleLineCount = Cardinality(Visible)
<1> DEFINE N == Len(Folds)
           At(n) == [count |-> Below(Behind(n)), line |-> Behind(n)]
<1>1. PICK w \in [0 .. N -> Counts] :
        /\ w[0] = [count |-> 0, line |-> 0]
        /\ \A n \in 1 .. N : w[n] = Counted(w[n - 1], Folds[n])
        /\ VisibleLineCount =
             LET s == w[N]
                 count == s.count + (IF s.line < lines THEN lines - s.line ELSE 0)
             IN  IF count = 0 THEN 1 ELSE count
  BY CountWalk DEF Stack
<1> DEFINE T == {n \in 0 .. N : w[n] = At(n)}
<1>2. N \in Nat /\ DOMAIN Folds = 1 .. N /\ lines \in Nat
  BY LinesType DEF Stack, Folding
<1>3. 0 \in T
  BY <1>1, <1>2, BelowEnds DEF Behind
<1>4. ASSUME NEW n \in 1 .. N, n - 1 \in T PROVE n \in T
  <2> DEFINE r == Folds[n]
             b == Behind(n - 1)
  <2>1. /\ r.start \in Nat /\ r.end \in Nat /\ r.start < r.end /\ FoldRangeValid(r)
        /\ b \in 0 .. r.start /\ Below(b) \in Nat
    BY <1>2, FoldIs, Segments, BelowType DEF FoldRangeValid
  <2>2. w[n] = Counted(At(n - 1), r)
    BY <1>1, <1>4
  <2>3. Below(Behind(n)) = Below(b) + (r.start - b) + 1 /\ Behind(n) = r.end + 1
    BY <1>2, BelowStep, Segments
  <2> HIDE DEF r, b
  <2>4. Counted([count |-> Below(b), line |-> b], r) =
          [count |-> Below(b) + (r.start - b + 1), line |-> r.end + 1]
    BY <2>1 DEF Counted
  <2>5. w[n] = [count |-> Below(b) + (r.start - b + 1), line |-> r.end + 1]
    BY <2>2, <2>4 DEF b
  <2> QED BY <1>2, <2>1, <2>3, <2>5
<1>5. N \in T
  <2> HIDE DEF T, N
  <2> QED BY <1>2, <1>3, <1>4, UpTo
<1> DEFINE b == Behind(N)
<1>6. b \in 0 .. lines /\ b .. lines - 1 \subseteq Visible
  BY LastLines
<1>7. Below(lines) = Below(b) + (lines - b) /\ Below(b) \in Nat
  <2> HIDE DEF b
  <2>1. b <= lines /\ lines \in 0 .. lines
    BY <1>2, <1>6
  <2>2. Below(lines) = Below(b) + (lines - b)
    BY <1>6, <2>1, BelowVisible
  <2> QED BY <2>2, BelowType
<1>8. w[N].count = Below(b) /\ w[N].line = b
  BY <1>5
<1> HIDE DEF b
<1>9. w[N].count + (IF w[N].line < lines THEN lines - w[N].line ELSE 0) = Cardinality(Visible)
  BY <1>2, <1>6, <1>7, <1>8, BelowEnds
<1> QED BY <1>1, <1>9, BelowEnds, VisibleType

\* The second finds a visible line by its index.
LEMMA AtIs ==
  ASSUME Stack, NEW v \in Visible
  PROVE  VisibleLineAt(Below(v)) = v
<1> DEFINE N == Len(Folds)
           index == Below(v)
           Before(n) == [found |-> FALSE, visible |-> Below(Behind(n)), line |-> Behind(n)]
<1>1. index \in Nat
  BY BelowType
<1>2. PICK w \in [0 .. N -> Finds] :
        /\ w[0] = [found |-> FALSE, visible |-> 0, line |-> 0]
        /\ \A n \in 1 .. N : w[n] = Passed(index, w[n - 1], Folds[n])
        /\ VisibleLineAt(index) =
             LET s == w[N]
             IN  IF s.found THEN s.line ELSE Lesser(s.line + index - s.visible, lines - 1)
  <2> HIDE DEF index
  <2> QED BY <1>1, AtWalk DEF Stack
<1> DEFINE P(n) == IF v < Behind(n) THEN w[n].found /\ w[n].line = v ELSE w[n] = Before(n)
           T == {n \in 0 .. N : P(n)}
<1>3. N \in Nat /\ DOMAIN Folds = 1 .. N /\ lines \in Nat /\ v \in Nat /\ v \in 0 .. lines - 1
  BY LinesType, VisibleType DEF Stack, Folding
<1>4. 0 \in T
  <2>1. Behind(0) = 0 /\ Below(0) = 0 /\ 0 \in 0 .. N /\ ~(v < 0)
    BY <1>3, BelowEnds DEF Behind
  <2> QED BY <1>2, <2>1
<1>5. ASSUME NEW n \in 1 .. N, n - 1 \in T PROVE n \in T
  <2> DEFINE r == Folds[n]
             b == Behind(n - 1)
  <2>1. /\ r.start \in Nat /\ r.end \in Nat /\ r.start < r.end /\ FoldRangeValid(r)
        /\ r \in FoldRange /\ r.end < lines
    BY <1>3, FoldIs DEF FoldRangeValid, Stack, Folding
  <2>2. /\ b \in 0 .. r.start /\ Below(b) \in Nat /\ Behind(n) = r.end + 1
        /\ b .. r.start \subseteq Visible /\ (r.start + 1 .. r.end) \cap Visible = {}
    BY <1>3, Segments, BelowType
  <2>3. w[n] = PassedTo(index, w[n - 1], r) /\ w[n - 1] \in Finds
    <3>1. n - 1 \in 0 .. N /\ w[n - 1] \in Finds /\ w[n] = Passed(index, w[n - 1], r)
      BY <1>2, <1>5
    <3> HIDE DEF index
    <3> QED BY <1>1, <2>1, <3>1, PassedIs
  <2>4. P(n - 1)
    BY <1>5
  <2>5. Below(Behind(n)) = Below(b) + (r.start - b) + 1
    BY <1>3, BelowStep
  <2>6. b \in 0 .. lines /\ r.start \in 0 .. lines /\ r.start \in Visible
    BY <2>1, <2>2, <1>3
  <2>7. Below(r.start) = Below(b) + (r.start - b)
    <3>1. b <= r.start /\ b .. r.start - 1 \subseteq Visible
      BY <2>1, <2>2
    <3> HIDE DEF b, r
    <3> QED BY <2>6, <3>1, BelowVisible
  <2>8. CASE v < b
    <3>1. w[n] = w[n - 1]
      BY <2>3, <2>4, <2>8 DEF PassedTo
    <3>2. v < Behind(n)
      BY <1>3, <2>1, <2>2, <2>8
    <3> QED BY <2>4, <2>8, <3>1, <3>2
  <2>9. CASE ~(v < b)
    <3>1. w[n - 1] = Before(n - 1)
      BY <2>4, <2>9
    <3>2. Span(w[n - 1], r) = r.start - b
      BY <2>1, <2>2, <3>1 DEF Span
    <3>3. /\ w[n - 1].found = FALSE /\ w[n - 1].visible = Below(b) /\ w[n - 1].line = b
          /\ ~(r.end < b)
      BY <2>1, <2>2, <3>1
    <3> HIDE DEF r, b, index
    <3>4. CASE v < r.start
      <4>1. index = Below(b) + (v - b)
        <5>1. b <= v /\ b .. v - 1 \subseteq Visible /\ v \in 0 .. lines
          BY <1>3, <2>1, <2>2, <2>9, <3>4
        <5> QED BY <2>6, <5>1, BelowVisible DEF index
      <4>2. w[n] = [w[n - 1] EXCEPT !.found = TRUE, !.line = b + index - Below(b)]
        <5>1. ~(w[n - 1].found \/ ~FoldRangeValid(r) \/ r.end < w[n - 1].line)
          BY <2>1, <3>3
        <5>2. index < w[n - 1].visible + Span(w[n - 1], r)
          BY <1>3, <2>1, <2>2, <3>2, <3>3, <3>4, <4>1
        <5> QED BY <2>3, <3>3, <5>1, <5>2 DEF PassedTo
      <4>3. w[n].found /\ w[n].line = v
        <5>1. w[n].found = TRUE /\ w[n].line = b + index - Below(b)
          BY <2>3, <4>2 DEF Finds
        <5> QED BY <1>3, <2>2, <4>1, <5>1
      <4>4. v < Behind(n)
        BY <1>3, <2>1, <2>2, <3>4
      <4> QED BY <4>3, <4>4
    <3>5. CASE v = r.start
      <4>1. index = Below(b) + (r.start - b)
        BY <2>7, <3>5 DEF index
      <4>2. w[n] = [w[n - 1] EXCEPT !.found = TRUE, !.line = r.start]
        BY <2>1, <2>2, <2>3, <3>2, <3>3, <4>1 DEF PassedTo
      <4>3. w[n].found /\ w[n].line = v
        BY <2>3, <4>2, <3>5 DEF Finds
      <4>4. v < Behind(n)
        BY <2>1, <2>2, <3>5
      <4> QED BY <4>3, <4>4
    <3>6. CASE v > r.start
      <4>1. Below(r.start) + 1 <= index /\ index \in Nat
        <5>1. v \in 0 .. lines
          BY <1>3
        <5> QED BY <1>1, <2>6, <3>6, <5>1, BelowRises DEF index
      <4>2. w[n] = [w[n - 1] EXCEPT !.visible = Below(b) + (r.start - b) + 1, !.line = r.end + 1]
        BY <2>1, <2>2, <2>3, <2>7, <3>2, <3>3, <4>1 DEF PassedTo
      <4>3. w[n] = Before(n)
        <5>1. w[n - 1] = [found |-> FALSE, visible |-> Below(b), line |-> b]
          BY <3>1 DEF b
        <5>2. w[n] = [found |-> FALSE, visible |-> Below(b) + (r.start - b) + 1, line |-> r.end + 1]
          <6>1. /\ w[n].found = FALSE /\ w[n].visible = Below(b) + (r.start - b) + 1
                /\ w[n].line = r.end + 1
            BY <2>3, <3>3, <4>2 DEF Finds
          <6>2. w[n] = [found |-> w[n].found, visible |-> w[n].visible, line |-> w[n].line]
            BY <1>2, <1>3 DEF Finds
          <6> QED BY <6>1, <6>2
        <5>3. Behind(n) = r.end + 1 /\ Below(Behind(n)) = Below(b) + (r.start - b) + 1
          BY <2>2, <2>5 DEF b, r
        <5> QED BY <5>2, <5>3
      <4>4. ~(v < Behind(n))
        BY <1>3, <2>1, <2>2, <3>6
      <4> QED BY <4>3, <4>4
    <3> QED BY <1>3, <2>1, <3>4, <3>5, <3>6
  <2> QED BY <2>8, <2>9
<1>6. P(N)
  <2>1. N \in T
    <3>1. 0 .. N \subseteq T
      <4> HIDE DEF T, N
      <4> QED BY <1>3, <1>4, <1>5, UpTo
    <3> QED BY <1>3, <3>1
  <2> QED BY <2>1
<1> DEFINE b == Behind(N)
<1>7. b \in 0 .. lines /\ b .. lines - 1 \subseteq Visible /\ Below(b) \in Nat
  BY LastLines, BelowType
<1>8. CASE v < b
  BY <1>2, <1>6, <1>8
<1>9. CASE ~(v < b)
  <2>1. w[N].found = FALSE /\ w[N].visible = Below(b) /\ w[N].line = b
    BY <1>6, <1>9
  <2> HIDE DEF b
  <2>2. index = Below(b) + (v - b)
    <3>1. b <= v /\ b .. v - 1 \subseteq Visible /\ v \in 0 .. lines
      BY <1>3, <1>7, <1>9
    <3> QED BY <1>7, <3>1, BelowVisible
  <2>3. Lesser(b + index - Below(b), lines - 1) = v
    <3> HIDE DEF index
    <3> QED BY <1>3, <1>7, <2>2 DEF Lesser
  <2> QED BY <1>2, <2>1, <2>3
<1> QED BY <1>8, <1>9

\* The third counts the visible lines before the header of a line; no number it comes by
\* is below zero.
LEMMA IndexIs ==
  ASSUME Stack, NEW l \in Lines
  PROVE  VisibleLineIndex(l) = Below(Header(l))
<1> DEFINE N == Len(Folds)
           h == Header(l)
           Left(n) == IF Behind(n) <= h THEN h - Behind(n) + Below(Behind(n)) ELSE Below(h)
<1>1. PICK w \in [0 .. N -> Int] :
        /\ w[0] = h
        /\ \A n \in 1 .. N : w[n] = Reduced(h, w[n - 1], Folds[n])
        /\ VisibleLineIndex(l) = w[N]
  BY IndexWalk DEF Stack
<1> DEFINE T == {n \in 0 .. N : w[n] = Left(n) /\ w[n] \in 0 .. h}
<1>2. /\ N \in Nat /\ DOMAIN Folds = 1 .. N /\ lines \in Nat /\ Word \in Nat /\ lines < Word
      /\ h \in Nat /\ h < lines /\ h \in Visible /\ h \in 0 .. lines
  BY LinesType, HeaderIs, VisibleType DEF Stack, Folding
<1> HIDE DEF h
<1>3. 0 \in T
  BY <1>1, <1>2, BelowEnds DEF Behind
<1>4. ASSUME NEW n \in 1 .. N, n - 1 \in T PROVE n \in T
  <2> DEFINE r == Folds[n]
             b == Behind(n - 1)
  <2>1. /\ r.start \in Nat /\ r.end \in Nat /\ r.start < r.end /\ FoldRangeValid(r)
        /\ r.end < lines
    BY <1>2, FoldIs DEF FoldRangeValid
  <2>2. /\ b \in 0 .. r.start /\ Below(b) \in Nat /\ Behind(n) = r.end + 1
        /\ b .. r.start \subseteq Visible /\ (r.start + 1 .. r.end) \cap Visible = {}
    BY <1>2, Segments, BelowType
  <2>3. Below(Behind(n)) = Below(b) + (r.start - b) + 1
    BY <1>2, BelowStep
  <2>4. /\ w[n] = Reduced(h, w[n - 1], r) /\ w[n - 1] \in 0 .. h
        /\ w[n - 1] = IF b <= h THEN h - b + Below(b) ELSE Below(h)
    BY <1>1, <1>4
  <2> HIDE DEF r, b
  <2>5. CASE r.start < h
    <3>1. r.end < h
      BY <1>2, <2>1, <2>2, <2>5
    <3>2. w[n] = (w[n - 1] - (r.end - r.start)) % Word
      BY <2>1, <2>4, <2>5 DEF Reduced
    <3>3. w[n - 1] = h - b + Below(b)
      BY <1>2, <2>1, <2>2, <2>4, <2>5
    <3>4. w[n - 1] - (r.end - r.start) \in 0 .. h
      <4> DEFINE shown == Below(b)
      <4>1. h \in Nat /\ b \in Nat /\ b <= r.start /\ shown \in Nat
        BY <1>2, <2>1, <2>2
      <4>2. w[n - 1] = h - b + shown /\ w[n - 1] <= h
        BY <1>2, <2>4, <3>3
      <4> HIDE DEF shown
      <4> QED BY <2>1, <3>1, <4>1, <4>2
    <3>5. w[n] = w[n - 1] - (r.end - r.start)
      <4> DEFINE x == w[n - 1] - (r.end - r.start)
      <4>1. x \in Nat /\ x < Word
        BY <1>2, <3>4
      <4> HIDE DEF x
      <4>2. x % Word = x
        BY <1>2, <4>1
      <4> QED BY <3>2, <4>2 DEF x
    <3>6. Behind(n) <= h
      BY <1>2, <2>1, <2>2, <3>1
    <3>7. w[n] = h - Behind(n) + Below(Behind(n))
      <4>1. w[n] = h - b + Below(b) - (r.end - r.start)
        BY <3>3, <3>5
      <4>2. h - Behind(n) + Below(Behind(n)) = h - (r.end + 1) + (Below(b) + (r.start - b) + 1)
        BY <2>2, <2>3 DEF b, r
      <4> QED BY <1>2, <2>1, <2>2, <4>1, <4>2
    <3> QED BY <3>4, <3>5, <3>6, <3>7
  <2>6. CASE ~(r.start < h)
    <3>1. w[n] = w[n - 1]
      BY <2>4, <2>6 DEF Reduced
    <3>2. ~(Behind(n) <= h)
      BY <1>2, <2>1, <2>2, <2>6
    <3>3. w[n] = Below(h)
      <4>1. CASE b <= h
        <5>1. b .. h - 1 \subseteq b .. r.start /\ b \in 0 .. lines
          BY <1>2, <2>1, <2>2, <2>6
        <5>2. Below(h) = Below(b) + (h - b)
          BY <1>2, <2>2, <4>1, <5>1, BelowVisible
        <5> QED BY <1>2, <2>2, <2>4, <3>1, <4>1, <5>2
      <4>2. CASE ~(b <= h)
        BY <2>4, <3>1, <4>2
      <4> QED BY <4>1, <4>2
    <3> QED BY <2>4, <3>1, <3>2, <3>3
  <2> QED BY <2>5, <2>6
<1>5. w[N] = Left(N)
  <2>1. 0 .. N \subseteq T
    <3> HIDE DEF T, N
    <3> QED BY <1>2, <1>3, <1>4, UpTo
  <2> QED BY <1>2, <2>1
<1> DEFINE b == Behind(N)
<1>6. b \in 0 .. lines /\ b .. lines - 1 \subseteq Visible /\ Below(b) \in Nat
  BY LastLines, BelowType
<1>7. w[N] = IF b <= h THEN h - b + Below(b) ELSE Below(h)
  BY <1>5
<1> HIDE DEF b
<1>8. ASSUME b <= h PROVE Below(h) = Below(b) + (h - b)
  <2>1. b .. h - 1 \subseteq Visible
    BY <1>2, <1>6
  <2> QED BY <1>2, <1>6, <1>8, <2>1, BelowVisible
<1>9. w[N] = Below(h)
  BY <1>2, <1>6, <1>7, <1>8
<1> QED BY <1>1, <1>9 DEF h

\* No line is visible between a visible line and the next.
LEMMA NextIs ==
  ASSUME Stack, NEW l \in Visible
  PROVE  /\ NextVisibleLine(l) \in Visible \cup {lines}
         /\ \A v \in Visible : v <= l \/ NextVisibleLine(l) <= v
<1>1. l \in Nat /\ l \in Lines /\ lines \in Nat /\ l < lines
  BY LinesType, VisibleType DEF Stack, Lines
<1>2. CASE LineFolded(l)
  <2> DEFINE S == StartingAt(Folds, l)
             i == FirstOf(S)
  <2>1. S # {} /\ S \in SUBSET Nat
    BY <1>2 DEF LineFolded, StartingAt, Stack, Folding
  <2>2. i \in S
    <3> HIDE DEF S
    <3> QED BY <2>1, FirstIs
  <2>3. i \in DOMAIN Folds /\ Folds[i].start = l
    BY <2>2 DEF StartingAt
  <2> DEFINE r == Folds[i]
  <2>4. NextVisibleLine(l) = r.end + 1
    BY <1>2 DEF NextVisibleLine
  <2> HIDE DEF i
  <2>5. r.start \in Nat /\ r.end \in Nat /\ r.start < r.end /\ r.end < lines /\ i \in Nat
    BY <2>3, FoldIs
  <2>6. (r.start + 1 .. r.end) \cap Visible = {} /\ Behind(i) = r.end + 1
    BY <2>3, Segments
  <2>7. \A v \in Visible : v \in Nat
    BY VisibleType
  <2>8. \A v \in Visible : v <= l \/ r.end + 1 <= v
    BY <2>3, <2>5, <2>6, <2>7
  <2>9. ASSUME r.end + 1 # lines PROVE r.end + 1 \in Visible
    <3>1. r.end + 1 \in Lines
      BY <2>5, <2>9, <1>1 DEF Lines
    <3>2. CASE i = Len(Folds)
      <4>1. Behind(i) .. lines - 1 \subseteq Visible
        BY <3>2, LastLines
      <4> QED BY <1>1, <2>5, <2>6, <2>9, <4>1
    <3>3. CASE i # Len(Folds)
      <4>1. i + 1 \in DOMAIN Folds /\ (i + 1) - 1 = i
        BY <2>3, <2>5, <3>3, FoldIs
      <4>2. /\ Behind(i) \in 0 .. Folds[i + 1].start
            /\ Behind(i) .. Folds[i + 1].start \subseteq Visible
        BY <4>1, Segments
      <4>3. Folds[i + 1].start \in Nat
        BY <4>1, FoldIs
      <4> QED BY <2>5, <2>6, <4>2, <4>3
    <3> QED BY <3>2, <3>3
  <2> QED BY <2>4, <2>8, <2>9
<1>3. CASE ~LineFolded(l)
  <2>1. NextVisibleLine(l) = l + 1
    BY <1>3 DEF NextVisibleLine
  <2>2. ASSUME NEW j \in DOMAIN Folds, Hides(Folds[j], l + 1) PROVE FALSE
    <3>1. Folds[j].start \in Nat /\ Folds[j].end \in Nat /\ FoldRangeValid(Folds[j])
      BY FoldIs DEF FoldRangeValid
    <3>2. Folds[j].start # l
      BY <1>3, <3>1 DEF LineFolded, StartingAt
    <3>3. Folds[j].start < l /\ l <= Folds[j].end
      BY <1>1, <2>2, <3>1, <3>2 DEF Hides
    <3> QED BY <3>3 DEF Visible, Hides
  <2>3. ASSUME l + 1 # lines PROVE l + 1 \in Visible
    BY <1>1, <2>2, <2>3 DEF Visible, Lines
  <2>4. \A v \in Visible : v <= l \/ l + 1 <= v
    BY <1>1, VisibleType
  <2> QED BY <2>1, <2>3, <2>4
<1> QED BY <1>2, <1>3

\* Where the folds have no line in common, the walks agree with the hidden lines.
LEMMA StackAgrees ==
  ASSUME Stack
  PROVE  FoldsAgree
<1>1. ASSUME NEW l \in Lines
      PROVE  LET upTo == {v \in Visible : v <= l}
                 next == NextVisibleLine(l)
             IN  /\ Header(l) \in upTo /\ \A v \in upTo : v <= Header(l)
                 /\ VisibleLineIndex(l) = Cardinality(upTo) - 1
                 /\ VisibleLineAt(Cardinality(upTo) - 1) = Header(l)
                 /\ l \in Visible => /\ next \in Visible \cup {lines}
                                     /\ \A v \in Visible : v <= l \/ next <= v
  <2> DEFINE upTo == {v \in Visible : v <= l}
             h == Header(l)
  <2>1. h \in Visible /\ h \in 0 .. l /\ (h + 1 .. l) \cap Visible = {} /\ l \in Nat
    BY HeaderIs, LinesType DEF Stack, Lines
  <2>2. h \in upTo /\ \A v \in upTo : v <= h
    <3>1. \A v \in Visible : v \in Nat
      BY VisibleType
    <3> HIDE DEF h
    <3> QED BY <2>1, <3>1
  <2>3. Cardinality(upTo) = Below(h) + 1 /\ Below(h) \in Nat
    BY UpToIs, BelowType
  <2>4. Cardinality(upTo) - 1 = Below(h)
    BY <2>3
  <2>5. VisibleLineIndex(l) = Below(h)
    BY IndexIs
  <2>6. VisibleLineAt(Below(h)) = h
    BY <2>1, AtIs
  <2> HIDE DEF upTo, h
  <2>7. VisibleLineAt(Cardinality(upTo) - 1) = h
    BY <2>4, <2>6
  <2> QED BY <2>2, <2>4, <2>5, <2>7, NextIs DEF upTo, h
<1> QED BY <1>1, CountIs DEF FoldsAgree

-----------------------------------------------------------------------------
(* The folds are scopes of the text *)

Scopes == {Clamped[i] : i \in {i \in DOMAIN Clamped : FoldRangeValid(Clamped[i])}}

\* Each fold is a scope of the text, and where the scopes are apart so are the folds:
\* those within a fold go when it is added, and one that it hides is refused.
Good(fs) ==
  /\ Folding(fs)
  /\ \A i \in DOMAIN fs : fs[i] \in Scopes
  /\ ScopesApart => Stacked(fs)

LEMMA ClampedIs ==
  ASSUME outline \in Outlines
  PROVE  /\ Clamped \in Seq(FoldRange) /\ DOMAIN Clamped = 1 .. Len(outline.ranges)
         /\ Len(outline.ranges) \in Nat
<1>1. /\ outline.ranges \in Seq(FoldRange) /\ lines - 1 \in Nat
      /\ Len(outline.ranges) \in Nat /\ DOMAIN outline.ranges = 1 .. Len(outline.ranges)
  <2>1. outline.ranges \in Seq(FoldRange)
    BY OutlinesAssumption DEF FoldRange
  <2> QED BY <2>1, LinesType
<1> DEFINE c(i) == [start |-> Lesser(outline.ranges[i].start, lines - 1),
                    end   |-> Lesser(outline.ranges[i].end, lines - 1)]
<1>2. \A i \in 1 .. Len(outline.ranges) : c(i) \in FoldRange
  <2>1. ASSUME NEW i \in 1 .. Len(outline.ranges) PROVE c(i) \in FoldRange
    <3>1. outline.ranges[i].start \in Nat /\ outline.ranges[i].end \in Nat
      <4>1. outline.ranges[i] \in FoldRange
        BY <1>1
      <4> QED BY <4>1 DEF FoldRange
    <3> QED BY <1>1, <3>1 DEF FoldRange, Lesser
  <2> QED BY <2>1
<1>3. Clamped = [i \in 1 .. Len(outline.ranges) |-> c(i)]
  BY <1>1 DEF Clamped
<1> HIDE DEF c
<1> QED BY <1>1, <1>2, <1>3

LEMMA ScopeIs ==
  ASSUME outline \in Outlines, NEW r \in Scopes
  PROVE  r \in FoldRange /\ FoldRangeValid(r)
  BY ClampedIs DEF Scopes

\* Two scopes of a text whose scopes are apart.
LEMMA ScopePair ==
  ASSUME outline \in Outlines, ScopesApart, NEW r \in Scopes, NEW s \in Scopes
  PROVE  r = s \/ Apart(r, s) \/ Within(r, s) \/ Within(s, r)
<1>1. PICK i \in DOMAIN Clamped : FoldRangeValid(Clamped[i]) /\ r = Clamped[i]
  BY DEF Scopes
<1>2. PICK j \in DOMAIN Clamped : FoldRangeValid(Clamped[j]) /\ s = Clamped[j]
  BY DEF Scopes
<1> QED BY <1>1, <1>2 DEF ScopesApart

\* The known ranges are scopes, each once, in the order of their first lines.
LEMMA KnownIs ==
  ASSUME outline \in Outlines
  PROVE  /\ KnownRanges \in Seq(FoldRange)
         /\ \A i \in DOMAIN KnownRanges : KnownRanges[i] \in Scopes
         /\ \A i, j \in DOMAIN KnownRanges :
              i < j => /\ KnownRanges[i].start <= KnownRanges[j].start
                       /\ ScopesApart => KnownRanges[i] # KnownRanges[j]
<1> DEFINE S == {i \in DOMAIN Clamped : FoldRangeValid(Clamped[i])}
           K == Sorted(Clamped, S)
<1>1. CASE ~known
  <2>1. KnownRanges = <<>>
    BY <1>1 DEF KnownRanges
  <2> QED BY <2>1
<1>2. CASE known
  <2>1. KnownRanges = K
    BY <1>2 DEF KnownRanges
  <2>2. Clamped \in Seq(FoldRange) /\ S \in SUBSET DOMAIN Clamped
    BY ClampedIs
  <2> HIDE DEF S
  <2>3. Cardinality(S) \in Nat
    BY <2>2, SortedIs
  <2>4. PICK p \in [1 .. Cardinality(S) -> S] :
          /\ K = [n \in 1 .. Cardinality(S) |-> Clamped[p[n]]]
          /\ \A m, n \in 1 .. Cardinality(S) : m < n => Precedes(Clamped, p[m], p[n])
    BY <2>2, SortedIs
  <2> HIDE DEF K
  <2>5. \A n \in 1 .. Cardinality(S) :
          /\ p[n] \in DOMAIN Clamped /\ FoldRangeValid(Clamped[p[n]])
          /\ Clamped[p[n]] \in FoldRange /\ Clamped[p[n]] \in Scopes
    BY <2>2, <2>4 DEF S, Scopes
  <2>6. K \in Seq(FoldRange) /\ DOMAIN K = 1 .. Cardinality(S)
    BY <2>3, <2>4, <2>5
  <2>7. ASSUME NEW i \in DOMAIN K, NEW j \in DOMAIN K, i < j
        PROVE  K[i].start <= K[j].start /\ (ScopesApart => K[i] # K[j])
    <3>1. K[i] = Clamped[p[i]] /\ K[j] = Clamped[p[j]] /\ Precedes(Clamped, p[i], p[j])
      BY <2>4, <2>6, <2>7
    <3>2. /\ Clamped[p[i]] \in FoldRange /\ Clamped[p[j]] \in FoldRange
          /\ p[i] \in DOMAIN Clamped /\ p[j] \in DOMAIN Clamped
          /\ FoldRangeValid(Clamped[p[i]]) /\ FoldRangeValid(Clamped[p[j]])
      BY <2>5, <2>6
    <3>3. Clamped[p[i]].start <= Clamped[p[j]].start
      BY <3>1, <3>2 DEF Precedes, FoldRange
    <3>4. p[i] # p[j]
      BY <2>2, <3>1, <3>2, PrecedesIsAnOrder
    <3>5. ASSUME ScopesApart, Clamped[p[i]] = Clamped[p[j]] PROVE FALSE
      <4> DEFINE r == Clamped[p[i]]
      <4>1. Apart(r, r) \/ Within(r, r)
        BY <3>2, <3>4, <3>5 DEF ScopesApart
      <4>2. r.start \in Nat /\ r.end \in Nat /\ r.start < r.end
        BY <3>2 DEF FoldRange, FoldRangeValid
      <4> HIDE DEF r
      <4> QED BY <4>1, <4>2 DEF Apart, Within
    <3> QED BY <3>1, <3>3, <3>5
  <2> QED BY <2>1, <2>4, <2>5, <2>6, <2>7
<1> QED BY <1>1, <1>2

-----------------------------------------------------------------------------
(* Folding and unfolding *)

\* One more fold: it does not start where another one starts or hides the line.
LEMMA GoodAdd ==
  ASSUME outline \in Outlines, NEW fs, Good(fs), NEW r \in Scopes,
         HeaderIn(fs, r.start) = r.start, \A i \in DOMAIN fs : fs[i].start # r.start
  PROVE  LET with == Append(fs, r)
             inside == {i \in DOMAIN fs : fs[i].start > r.start /\ fs[i].end <= r.end}
         IN  Good(Sorted(with, DOMAIN with \ inside))
<1> DEFINE with == Append(fs, r)
           inside == {i \in DOMAIN fs : fs[i].start > r.start /\ fs[i].end <= r.end}
           S == DOMAIN with \ inside
           out == Sorted(with, S)
<1>1. /\ fs \in Seq(FoldRange) /\ r \in FoldRange /\ FoldRangeValid(r)
      /\ DOMAIN fs = 1 .. Len(fs) /\ Len(fs) \in Nat
  BY ScopeIs DEF Good, Folding
<1>2. /\ with \in Seq(FoldRange) /\ DOMAIN with = 1 .. Len(fs) + 1
      /\ \A i \in DOMAIN fs : with[i] = fs[i]
      /\ with[Len(fs) + 1] = r
  BY <1>1
<1>3. \A i \in DOMAIN with : with[i] \in Scopes /\ with[i] \in FoldRange /\ FoldRangeValid(with[i])
  <2>1. \A i \in DOMAIN with : with[i] \in Scopes
    BY <1>1, <1>2 DEF Good
  <2> QED BY <2>1, ScopeIs
<1>4. S \in SUBSET DOMAIN with
  OBVIOUS
<1> HIDE DEF with
<1>5. Cardinality(S) \in Nat
  <2> HIDE DEF S
  <2> QED BY <1>2, <1>4, SortedIs
<1>6. PICK p \in [1 .. Cardinality(S) -> S] :
        /\ out = [n \in 1 .. Cardinality(S) |-> with[p[n]]]
        /\ \A m, n \in 1 .. Cardinality(S) : m < n => Precedes(with, p[m], p[n])
  <2> HIDE DEF S
  <2> QED BY <1>2, <1>4, SortedIs
<1>7. \A n \in 1 .. Cardinality(S) :
        p[n] \in S /\ p[n] \in DOMAIN with /\ with[p[n]] \in FoldRange
  BY <1>3, <1>4, <1>6
<1> HIDE DEF out
<1>8. /\ out \in Seq(FoldRange) /\ DOMAIN out = 1 .. Cardinality(S)
      /\ \A n \in DOMAIN out : out[n] = with[p[n]] /\ out[n] \in Scopes
  <2> HIDE DEF S
  <2> QED BY <1>3, <1>5, <1>6, <1>7
<1>9. Folding(out)
  BY <1>8, ScopeIs DEF Folding
\* Two ranges that are left are apart.
<1>10. ASSUME ScopesApart, NEW i \in S, NEW j \in S, i # j PROVE Apart(with[i], with[j])
  <2>1. ASSUME NEW k \in DOMAIN fs, k \notin inside PROVE Apart(fs[k], r)
    <3>1. /\ fs[k] \in Scopes /\ fs[k].start # r.start /\ fs[k] \in FoldRange
          /\ FoldRangeValid(fs[k])
      BY ScopeIs DEF Good
    <3>2. Apart(fs[k], r) \/ Within(fs[k], r) \/ Within(r, fs[k])
      BY <1>10, <3>1, ScopePair
    <3>3. ~Within(r, fs[k])
      BY <1>1, <2>1, <3>1 DEF Within, FoldRange
    <3>4. ASSUME Within(fs[k], r) PROVE FALSE
      <4>1. Hides(fs[k], r.start)
        BY <1>1, <3>1, <3>4 DEF Within, Hides, FoldRange, FoldRangeValid
      <4>2. r.start \in Lines
        BY <1>1, LinesType DEF FoldRange, FoldRangeValid, Lines
      <4>3. HeaderIn(fs, r.start) = fs[k].start
        BY <1>10, <4>1, <4>2, HeaderOfStack DEF Good
      <4> QED BY <3>1, <4>3
    <3> QED BY <3>2, <3>3, <3>4
  <2>2. CASE i \in DOMAIN fs /\ j \in DOMAIN fs
    <3>1. i < j \/ j < i
      BY <1>1, <1>10, <2>2
    <3> QED BY <1>2, <1>10, <2>2, <3>1 DEF Good, Stacked, Apart
  <2>3. CASE i \notin DOMAIN fs
    <3>1. i = Len(fs) + 1 /\ j \in DOMAIN fs /\ j \notin inside
      BY <1>1, <1>2, <1>10, <2>3
    <3> QED BY <1>2, <2>1, <3>1 DEF Apart
  <2>4. CASE j \notin DOMAIN fs
    <3>1. j = Len(fs) + 1 /\ i \in DOMAIN fs /\ i \notin inside
      BY <1>1, <1>2, <1>10, <2>4
    <3> QED BY <1>2, <2>1, <3>1 DEF Apart
  <2> QED BY <2>2, <2>3, <2>4
<1>11. ASSUME ScopesApart PROVE Stacked(out)
  <2> SUFFICES ASSUME NEW m \in DOMAIN out, NEW n \in DOMAIN out, m < n
               PROVE  out[m].end < out[n].start
    BY DEF Stacked
  <2> DEFINE a == p[m]
             b == p[n]
  <2>1. /\ a \in S /\ b \in S /\ a \in DOMAIN with /\ b \in DOMAIN with
        /\ Precedes(with, a, b) /\ out[m] = with[a] /\ out[n] = with[b]
    BY <1>6, <1>7, <1>8
  <2> HIDE DEF a, b, S
  <2>2. a # b
    BY <1>2, <2>1, PrecedesIsAnOrder
  <2>3. Apart(with[a], with[b])
    BY <1>10, <1>11, <2>1, <2>2
  <2>4. /\ with[a] \in FoldRange /\ with[b] \in FoldRange
        /\ FoldRangeValid(with[a]) /\ FoldRangeValid(with[b])
    BY <1>3, <2>1
  <2> QED BY <2>1, <2>3, <2>4 DEF Apart, Precedes, FoldRange, FoldRangeValid
<1> QED BY <1>8, <1>9, <1>11 DEF Good, out, S, with, inside

LEMMA Joined ==
  ASSUME NEW S, NEW s \in Seq(S), NEW t \in Seq(S)
  PROVE  s \o t \in Seq(S) /\ Len(s \o t) = Len(s) + Len(t)
  OBVIOUS

\* A fold less.
LEMMA GoodRemove ==
  ASSUME outline \in Outlines, NEW fs, Good(fs), NEW i \in DOMAIN fs
  PROVE  Good(RemoveAt(fs, i))
<1> DEFINE out == RemoveAt(fs, i)
           at(n) == IF n < i THEN n ELSE n + 1
<1>1. fs \in Seq(FoldRange) /\ DOMAIN fs = 1 .. Len(fs) /\ Len(fs) \in Nat /\ i \in 1 .. Len(fs)
  BY DEF Good, Folding
<1>2. /\ out \in Seq(FoldRange) /\ Len(out) = Len(fs) - 1
      /\ \A n \in 1 .. Len(fs) - 1 : out[n] = fs[at(n)]
  <2> DEFINE a == SubSeq(fs, 1, i - 1)
             b == SubSeq(fs, i + 1, Len(fs))
  <2>1. /\ a \in Seq(FoldRange) /\ Len(a) = i - 1
        /\ \A n \in 1 .. i - 1 : a[n] = fs[n]
    BY <1>1
  <2>2. /\ b \in Seq(FoldRange) /\ Len(b) = Len(fs) - i
        /\ \A n \in 1 .. Len(fs) - i : b[n] = fs[n + i]
    BY <1>1
  <2>3. out = a \o b
    BY DEF RemoveAt
  <2> HIDE DEF a, b, out
  <2>4. out \in Seq(FoldRange) /\ Len(out) = Len(fs) - 1
    <3>1. a \o b \in Seq(FoldRange) /\ Len(a \o b) = Len(a) + Len(b)
      BY <2>1, <2>2, Joined
    <3>2. i - 1 + (Len(fs) - i) = Len(fs) - 1
      BY <1>1
    <3> QED BY <2>1, <2>2, <2>3, <3>1, <3>2
  <2>5. ASSUME NEW n \in 1 .. Len(fs) - 1 PROVE out[n] = fs[at(n)]
    <3>1. CASE n < i
      <4>1. n \in 1 .. Len(a) /\ n \in 1 .. i - 1
        BY <1>1, <2>1, <3>1
      <4>2. out[n] = a[n]
        BY <2>1, <2>2, <2>3, <4>1
      <4> QED BY <2>1, <3>1, <4>1, <4>2
    <3>2. CASE n >= i
      <4>1. out[n] = b[n - (i - 1)] /\ n - (i - 1) \in 1 .. Len(fs) - i
        BY <1>1, <2>1, <2>2, <2>3, <3>2
      <4>2. b[n - (i - 1)] = fs[n - (i - 1) + i] /\ n - (i - 1) + i = n + 1
        BY <1>1, <2>2, <4>1
      <4> QED BY <1>1, <3>2, <4>1, <4>2
    <3> QED BY <1>1, <3>1, <3>2
  <2> QED BY <2>4, <2>5
<1>3. /\ DOMAIN out = 1 .. Len(fs) - 1
      /\ \A n \in 1 .. Len(fs) - 1 : at(n) \in DOMAIN fs
      /\ \A m, n \in 1 .. Len(fs) - 1 : m < n => at(m) < at(n)
  BY <1>1, <1>2
<1> HIDE DEF out, at
<1>4. Folding(out)
  BY <1>2, <1>3 DEF Good, Folding
<1>5. \A n \in DOMAIN out : out[n] \in Scopes
  BY <1>2, <1>3 DEF Good
<1>6. ASSUME ScopesApart PROVE Stacked(out)
  BY <1>2, <1>3, <1>6 DEF Good, Stacked
<1> QED BY <1>4, <1>5, <1>6 DEF Good, out

\* What z M closes after one more range.
Closing(s, r) == IF HeaderIn(s, r.start) = r.start THEN Append(s, r) ELSE s

\* The loop of z M over the known ranges.
LEMMA ClosedWalk ==
  ASSUME outline \in Outlines
  PROVE  \E w \in [0 .. Len(KnownRanges) -> Seq(FoldRange)] :
           /\ w[0] = <<>>
           /\ \A n \in 1 .. Len(KnownRanges) : w[n] = Closing(w[n - 1], KnownRanges[n])
           /\ AllClosed = w[Len(KnownRanges)]
<1> DEFINE N == Len(KnownRanges)
           a == <<>>
           Course(g) == [n \in 0 .. N |-> IF n = 0 THEN a ELSE Closing(g[n - 1], KnownRanges[n])]
           w == CHOOSE g : g = Course(g)
           G == [n \in 1 .. N |-> [s \in Seq(FoldRange) |-> Closing(s, KnownRanges[n])]]
<1>1. N \in Nat /\ a \in Seq(FoldRange)
  BY KnownIs
<1>2. ASSUME NEW n \in 1 .. N, NEW s \in Seq(FoldRange)
      PROVE  Closing(s, KnownRanges[n]) \in Seq(FoldRange)
  <2>1. KnownRanges[n] \in FoldRange
    BY KnownIs
  <2> QED BY <2>1 DEF Closing
<1>3. G \in Loop(N, Seq(FoldRange))
  BY <1>2 DEF Loop
<1>4. \E f : f = Course(f)
  <2>1. PICK f \in [0 .. N -> Seq(FoldRange)] :
          f[0] = a /\ \A n \in 1 .. N : f[n] = G[n][f[n - 1]]
    <3> HIDE DEF G, N, a
    <3>1. \E f \in [0 .. N -> Seq(FoldRange)] : IsCourse(N, a, G, f)
      BY <1>1, <1>3, WalkExists
    <3> QED BY <3>1 DEF IsCourse
  <2>2. ASSUME NEW n \in 0 .. N PROVE f[n] = IF n = 0 THEN a ELSE Closing(f[n - 1], KnownRanges[n])
    <3>1. CASE n = 0
      BY <2>1, <3>1
    <3>2. CASE n # 0
      <4>1. n \in 1 .. N /\ n - 1 \in 0 .. N /\ f[n - 1] \in Seq(FoldRange)
        <5> HIDE DEF G, N, a
        <5> QED BY <1>1, <2>1, <3>2
      <4>2. G[n][f[n - 1]] = Closing(f[n - 1], KnownRanges[n])
        BY <4>1
      <4> QED BY <2>1, <3>2, <4>1, <4>2
    <3> QED BY <3>1, <3>2
  <2>3. f = Course(f)
    BY <2>1, <2>2
  <2> QED BY <2>3
<1>5. w = Course(w)
  <2> HIDE DEF Course
  <2> QED BY <1>4
<1>6. w[0] = a /\ \A n \in 1 .. N : w[n] = Closing(w[n - 1], KnownRanges[n])
  <2>1. \A n \in 0 .. N : Course(w)[n] = IF n = 0 THEN a ELSE Closing(w[n - 1], KnownRanges[n])
    OBVIOUS
  <2> HIDE DEF w, Course
  <2>2. \A n \in 0 .. N : w[n] = IF n = 0 THEN a ELSE Closing(w[n - 1], KnownRanges[n])
    BY <1>5, <2>1
  <2>3. 0 \in 0 .. N /\ \A n \in 1 .. N : n \in 0 .. N /\ n # 0
    BY <1>1
  <2> QED BY <2>2, <2>3
<1>7. w \in [0 .. N -> Seq(FoldRange)]
  <2> DEFINE T == {n \in 0 .. N : w[n] \in Seq(FoldRange)}
  <2>1. 0 \in T
    <3> HIDE DEF N, a, w
    <3> QED BY <1>1, <1>6
  <2>2. ASSUME NEW n \in 1 .. N, n - 1 \in T PROVE n \in T
    <3>1. w[n - 1] \in Seq(FoldRange) /\ w[n] = Closing(w[n - 1], KnownRanges[n])
      BY <1>6, <2>2
    <3> HIDE DEF w
    <3> QED BY <1>1, <1>2, <3>1
  <2>3. 0 .. N \subseteq T
    <3> HIDE DEF T, N
    <3> QED BY <1>1, <2>1, <2>2, UpTo
  <2>4. w = [n \in 0 .. N |-> w[n]]
    <3> HIDE DEF w
    <3> QED BY <1>5
  <2> HIDE DEF w
  <2> QED BY <2>3, <2>4
<1>8. AllClosed = w[N]
  BY DEF AllClosed, Closing
<1> HIDE DEF w
<1> QED BY <1>6, <1>7, <1>8

\* The folds of z M are scopes of the text, apart where the scopes are: of the ranges of
\* the text, in order, each is closed unless one before it hides its line.
LEMMA GoodAllClosed ==
  ASSUME outline \in Outlines
  PROVE  Good(AllClosed)
<1> DEFINE N == Len(KnownRanges)
           K == KnownRanges
<1>1. /\ K \in Seq(FoldRange) /\ N \in Nat /\ DOMAIN K = 1 .. N
      /\ \A n \in 1 .. N : K[n] \in Scopes
      /\ \A m, n \in 1 .. N : m < n => /\ K[m].start <= K[n].start
                                       /\ ScopesApart => K[m] # K[n]
  BY KnownIs
<1>2. PICK w \in [0 .. N -> Seq(FoldRange)] :
        /\ w[0] = <<>>
        /\ \A n \in 1 .. N : w[n] = Closing(w[n - 1], K[n])
        /\ AllClosed = w[N]
  BY ClosedWalk
<1> DEFINE From(n) == \A i \in DOMAIN w[n] : \E m \in 1 .. n : w[n][i] = K[m]
           T == {n \in 0 .. N : From(n) /\ Good(w[n])}
<1> HIDE DEF K, N
<1>3. 0 \in T
  <2>1. Good(<<>>)
    BY DEF Good, Folding, Stacked
  <2> QED BY <1>1, <1>2, <2>1
<1>4. ASSUME NEW n \in 1 .. N, n - 1 \in T PROVE n \in T
  <2> DEFINE fs == w[n - 1]
             r == K[n]
  <2>1. /\ From(n - 1) /\ Good(fs) /\ n - 1 \in 0 .. N /\ n \in Nat /\ n \in 0 .. N
        /\ fs \in Seq(FoldRange) /\ DOMAIN fs = 1 .. Len(fs) /\ Len(fs) \in Nat
        /\ r \in Scopes /\ r \in FoldRange /\ FoldRangeValid(r)
        /\ w[n] = IF HeaderIn(fs, r.start) = r.start THEN Append(fs, r) ELSE fs
    <3>1. /\ From(n - 1) /\ Good(fs)
          /\ n - 1 \in 0 .. N /\ n \in Nat /\ n \in 0 .. N
      BY <1>1, <1>4
    <3> HIDE DEF From
    <3>2. fs \in Seq(FoldRange) /\ DOMAIN fs = 1 .. Len(fs) /\ Len(fs) \in Nat
      BY <3>1 DEF Good, Folding
    <3>3. r \in Scopes /\ r \in FoldRange /\ FoldRangeValid(r)
      BY <1>1, ScopeIs
    <3> QED BY <1>2, <3>1, <3>2, <3>3 DEF Closing
  <2>2. \A i \in DOMAIN fs : \E m \in 1 .. n : m < n /\ fs[i] = K[m]
    <3>1. \A m \in 1 .. n - 1 : m \in 1 .. n /\ m < n
      BY <2>1
    <3> QED BY <2>1, <3>1
  <2>3. CASE HeaderIn(fs, r.start) # r.start
    BY <2>1, <2>2, <2>3
  <2>4. CASE HeaderIn(fs, r.start) = r.start
    <3> DEFINE out == Append(fs, r)
    <3>1. /\ w[n] = out /\ out \in Seq(FoldRange) /\ DOMAIN out = 1 .. Len(fs) + 1
          /\ \A i \in DOMAIN fs : out[i] = fs[i]
          /\ out[Len(fs) + 1] = r
          /\ \A i \in DOMAIN out : i \in DOMAIN fs \/ i = Len(fs) + 1
      BY <2>1, <2>4
    <3> HIDE DEF fs, out
    <3>2. ASSUME NEW i \in DOMAIN out PROVE \E m \in 1 .. n : out[i] = K[m]
      <4>1. n \in 1 .. n
        BY <2>1
      <4> QED BY <2>2, <3>1, <4>1
    <3>3. \A i \in DOMAIN out : out[i] \in Scopes
      BY <2>1, <3>1 DEF Good
    <3>4. Folding(out)
      BY <3>1, <3>3, ScopeIs DEF Folding
    <3>5. ASSUME ScopesApart, NEW i \in DOMAIN fs PROVE fs[i].end < r.start
      <4>1. PICK m \in 1 .. n : m < n /\ fs[i] = K[m]
        BY <2>2, <3>5
      <4>2. fs[i].start <= r.start /\ fs[i] # r
        <5>1. m \in 1 .. N
          BY <1>1, <4>1
        <5> QED BY <1>1, <3>5, <4>1, <5>1
      <4>3. fs[i] \in Scopes /\ fs[i] \in FoldRange /\ FoldRangeValid(fs[i])
        BY <2>1, <3>5, ScopeIs DEF Good
      <4>4. Apart(fs[i], r) \/ Within(fs[i], r) \/ Within(r, fs[i])
        BY <2>1, <3>5, <4>2, <4>3, ScopePair
      <4>5. ASSUME Within(fs[i], r) PROVE FALSE
        <5>1. Hides(fs[i], r.start) /\ r.start \in Lines
          <6>1. /\ r.start \in Nat /\ r.end \in Nat /\ r.start < r.end /\ r.end < lines
                /\ fs[i].start \in Nat /\ fs[i].end \in Nat /\ lines \in Nat
            BY <2>1, <4>3, LinesType DEF FoldRange, FoldRangeValid
          <6>2. fs[i].start < r.start /\ r.end <= fs[i].end
            BY <4>5 DEF Within
          <6> HIDE DEF r
          <6> QED BY <6>1, <6>2 DEF Hides, Lines
        <5>2. HeaderIn(fs, r.start) = fs[i].start
          BY <2>1, <3>5, <5>1, HeaderOfStack DEF Good
        <5>3. fs[i].start # r.start
          BY <2>1, <4>3, <5>1 DEF Hides, FoldRange
        <5> QED BY <2>4, <5>2, <5>3 DEF fs
      <4> HIDE DEF r
      <4> QED BY <2>1, <4>2, <4>3, <4>4, <4>5 DEF Apart, Within, FoldRange, FoldRangeValid
    <3>6. ASSUME ScopesApart PROVE Stacked(out)
      <4>1. \A i, j \in DOMAIN fs : i < j => fs[i].end < fs[j].start
        BY <2>1, <3>6 DEF Good, Stacked
      <4>2. ASSUME NEW i \in DOMAIN out, NEW j \in DOMAIN out, i < j
            PROVE  out[i].end < out[j].start
        <5>1. i \in DOMAIN fs
          BY <2>1, <3>1, <4>2
        <5> HIDE DEF r
        <5> QED BY <3>1, <3>5, <3>6, <4>1, <4>2, <5>1
      <4> QED BY <4>2 DEF Stacked
    <3>7. Good(out)
      BY <3>3, <3>4, <3>6 DEF Good
    <3> QED BY <2>1, <3>1, <3>2, <3>7
  <2> QED BY <2>3, <2>4
<1>5. 0 .. N \subseteq T
  <2> HIDE DEF T
  <2> QED BY <1>1, <1>3, <1>4, UpTo
<1> QED BY <1>1, <1>2, <1>5

-----------------------------------------------------------------------------
(* What the walks return, whichever folds there are *)

LEMMA CountType ==
  ASSUME outline \in Outlines, Folding(Folds)
  PROVE  VisibleLineCount \in Nat \ {0}
<1>1. PICK w \in [0 .. Len(Folds) -> Counts] :
        VisibleLineCount =
          LET s == w[Len(Folds)]
              count == s.count + (IF s.line < lines THEN lines - s.line ELSE 0)
          IN  IF count = 0 THEN 1 ELSE count
  BY CountWalk
<1>2. w[Len(Folds)] \in Counts
  <2>1. Len(Folds) \in Nat
    BY DEF Folding
  <2> QED BY <1>1, <2>1
<1> QED BY <1>1, <1>2, LinesType DEF Counts

LEMMA IndexType ==
  ASSUME outline \in Outlines, Folding(Folds), NEW l \in Lines
  PROVE  VisibleLineIndex(l) \in Int
<1>1. PICK w \in [0 .. Len(Folds) -> Int] : VisibleLineIndex(l) = w[Len(Folds)]
  BY IndexWalk
<1> QED BY <1>1 DEF Folding

\* The line of an index is one of the text.
LEMMA AtType ==
  ASSUME outline \in Outlines, Folding(Folds), NEW index \in Nat
  PROVE  VisibleLineAt(index) \in Lines
<1> DEFINE N == Len(Folds)
<1>1. PICK w \in [0 .. N -> Finds] :
        /\ w[0] = [found |-> FALSE, visible |-> 0, line |-> 0]
        /\ \A n \in 1 .. N : w[n] = Passed(index, w[n - 1], Folds[n])
        /\ VisibleLineAt(index) =
             LET s == w[N]
             IN  IF s.found THEN s.line ELSE Lesser(s.line + index - s.visible, lines - 1)
  BY AtWalk
<1> DEFINE Inside(s) == IF s.found THEN s.line \in Lines
                        ELSE s.visible \in 0 .. index /\ s.line \in 0 .. lines
           T == {n \in 0 .. N : Inside(w[n])}
<1>2. N \in Nat /\ lines \in Nat /\ lines > 0
  BY LinesType DEF Folding
<1>3. 0 \in T
  BY <1>1, <1>2
<1>4. ASSUME NEW n \in 1 .. N, n - 1 \in T PROVE n \in T
  <2> DEFINE s == w[n - 1]
             r == Folds[n]
  <2>1. /\ s \in Finds /\ r \in FoldRange /\ FoldRangeValid(r) /\ Inside(s)
        /\ n \in 0 .. N /\ w[n] = PassedTo(index, s, r)
    <3>1. n - 1 \in 0 .. N /\ n \in 0 .. N /\ Inside(s)
      BY <1>2, <1>4
    <3>2. r \in FoldRange /\ FoldRangeValid(r)
      BY <1>2 DEF Folding
    <3>3. s \in Finds
      BY <1>1, <3>1
    <3> QED BY <1>1, <3>1, <3>2, <3>3, PassedIs
  <2> HIDE DEF s, r
  <2>2. /\ s.found \in BOOLEAN /\ s.visible \in Int /\ s.line \in Int
        /\ r.start \in Nat /\ r.end \in Nat /\ r.start < r.end /\ r.end < lines
        /\ Span(s, r) \in Nat
    BY <2>1 DEF Finds, FoldRange, FoldRangeValid, Span
  <2>3. CASE s.found \/ r.end < s.line
    BY <2>1, <2>3 DEF PassedTo
  <2>4. CASE ~s.found /\ ~(r.end < s.line)
    <3>1. s.visible \in 0 .. index /\ s.line \in 0 .. lines
      BY <2>1, <2>4
    <3>2. CASE index < s.visible + Span(s, r)
      <4>1. w[n] = [s EXCEPT !.found = TRUE, !.line = s.line + index - s.visible]
        BY <2>1, <2>4, <3>2 DEF PassedTo
      <4>2. w[n].found /\ w[n].line = s.line + index - s.visible
        BY <2>1, <4>1 DEF Finds
      <4>3. s.line + index - s.visible \in Lines
        <5>1. r.start > s.line /\ Span(s, r) = r.start - s.line
          BY <2>2, <3>1, <3>2 DEF Span
        <5>2. /\ s.line + index - s.visible \in Int
              /\ 0 <= s.line + index - s.visible
              /\ s.line + index - s.visible < r.start
          BY <2>2, <3>1, <3>2, <5>1
        <5> QED BY <1>2, <2>2, <5>2 DEF Lines
      <4> QED BY <2>1, <4>2, <4>3
    <3>3. CASE index = s.visible + Span(s, r)
      <4>1. w[n] = [s EXCEPT !.found = TRUE, !.line = r.start]
        BY <2>1, <2>2, <2>4, <3>3 DEF PassedTo
      <4>2. w[n].found /\ w[n].line = r.start
        BY <2>1, <4>1 DEF Finds
      <4>3. r.start \in Lines
        BY <1>2, <2>2 DEF Lines
      <4> QED BY <2>1, <4>2, <4>3
    <3>4. CASE index > s.visible + Span(s, r)
      <4>1. w[n] = [s EXCEPT !.visible = s.visible + Span(s, r) + 1, !.line = r.end + 1]
        BY <2>1, <2>2, <2>4, <3>4 DEF PassedTo
      <4>2. /\ w[n].found = s.found /\ w[n].visible = s.visible + Span(s, r) + 1
            /\ w[n].line = r.end + 1
        BY <2>1, <4>1 DEF Finds
      <4>3. s.visible + Span(s, r) + 1 \in 0 .. index /\ r.end + 1 \in 0 .. lines
        BY <1>2, <2>2, <3>1, <3>4
      <4> QED BY <2>1, <2>4, <4>2, <4>3
    <3> QED BY <2>2, <3>1, <3>2, <3>3, <3>4
  <2> QED BY <2>2, <2>3, <2>4
<1>5. 0 .. N \subseteq T
  <2> HIDE DEF T, N
  <2> QED BY <1>2, <1>3, <1>4, UpTo
<1>6. Inside(w[N]) /\ w[N] \in Finds
  BY <1>1, <1>2, <1>5
<1> HIDE DEF N
<1> QED BY <1>1, <1>2, <1>6 DEF Lesser, Lines, Finds

-----------------------------------------------------------------------------
(* The inductive invariant *)

\* What is folded of the text is good.  TypeOK alone is not inductive, nor is FoldsAgree:
\* the line that a walk returns is one of the text only if every fold is.
FoldsInv == TypeOK /\ Good(Folds)

LEMMA GoodNothing ==
  Good(<<>>)
  BY DEF Good, Folding, Stacked

LEMMA FoldsType ==
  ASSUME FoldsInv
  PROVE  /\ outline \in Outlines /\ Folding(Folds) /\ Folds \in Seq(FoldRange)
         /\ DOMAIN Folds \in SUBSET Nat /\ cursor \in Lines
<1>1. Folding(Folds)
  BY DEF FoldsInv, Good
<1>2. Folds \in Seq(FoldRange)
  BY <1>1 DEF Folding
<1> QED BY <1>1, <1>2 DEF FoldsInv, TypeOK

\* A step that folds and unfolds ranges of the text it has.
LEMMA Keep ==
  ASSUME FoldsInv, outline' = outline, current' = TRUE, Good(folded'),
         known' \in BOOLEAN, cursor' \in Lines
  PROVE  FoldsInv'
<1>1. lines' = lines /\ Lines' = Lines /\ Clamped' = Clamped
  BY DEF lines, Lines, Clamped
<1>2. Scopes' = Scopes /\ (ScopesApart' <=> ScopesApart)
  BY <1>1 DEF Scopes, ScopesApart, FoldRangeValid
<1>3. Folds' = folded'
  BY DEF Folds
<1>4. /\ folded' \in Seq(FoldRange)
      /\ \A i \in DOMAIN folded' : FoldRangeValid(folded'[i]) /\ folded'[i] \in Scopes
      /\ ScopesApart =>
           \A i, j \in DOMAIN folded' : i < j => folded'[i].end < folded'[j].start
  BY DEF Good, Folding, Stacked
<1>5. Folding(Folds)'
  BY <1>1, <1>3, <1>4 DEF Folding, FoldRangeValid
<1>6. Stacked(Folds)' \/ ~ScopesApart
  BY <1>3, <1>4 DEF Stacked
<1>7. Good(Folds)'
  BY <1>2, <1>3, <1>4, <1>5, <1>6 DEF Good
<1>8. TypeOK'
  BY <1>1, <1>4 DEF FoldsInv, TypeOK, FoldRange
<1> QED BY <1>7, <1>8 DEF FoldsInv

\* A step that leaves the folds alone.
LEMMA Leave ==
  ASSUME FoldsInv, UNCHANGED <<outline, folded, current>>,
         known' \in BOOLEAN, cursor' \in Lines
  PROVE  FoldsInv'
<1>1. lines' = lines /\ Lines' = Lines /\ Clamped' = Clamped /\ Folds' = Folds
  BY DEF lines, Lines, Clamped, Folds
<1>2. Scopes' = Scopes /\ (ScopesApart' <=> ScopesApart)
  BY <1>1 DEF Scopes, ScopesApart, FoldRangeValid
<1>3. Folding(Folds)' /\ (Stacked(Folds)' \/ ~ScopesApart)
  BY <1>1 DEF FoldsInv, Good, Folding, FoldRangeValid, Stacked
<1>4. Good(Folds)'
  BY <1>1, <1>2, <1>3 DEF FoldsInv, Good
<1> QED BY <1>1, <1>4 DEF FoldsInv, TypeOK

LEMMA AddStep ==
  ASSUME FoldsInv, NEW r \in Scopes, AddFoldRange(r), Stays
  PROVE  FoldsInv'
<1>1. current' = TRUE /\ outline' = outline /\ known' \in BOOLEAN /\ cursor' \in Lines
  BY DEF AddFoldRange, Stays, FoldsInv, TypeOK
<1>2. CASE Refused(r)
  <2>1. Good(folded')
    BY <1>2 DEF AddFoldRange, FoldsInv
  <2> QED BY <1>1, <2>1, Keep
<1>3. CASE ~Refused(r)
  <2>1. Good(folded')
    BY <1>3, FoldsType, GoodAdd DEF AddFoldRange, Refused, FoldsInv
  <2> QED BY <1>1, <2>1, Keep
<1> QED BY <1>2, <1>3

LEMMA CloseStep ==
  ASSUME FoldsInv, NEW ranges \in Seq(Scopes), NEW S \in SUBSET DOMAIN ranges,
         CloseFirstOf(ranges, S), Stays
  PROVE  FoldsInv'
<1>1. CASE S # {}
  <2>1. FirstOf(S) \in DOMAIN ranges
    BY <1>1, FirstIs
  <2>2. ranges[FirstOf(S)] \in Scopes
    BY <2>1
  <2> QED BY <1>1, <2>2, AddStep DEF CloseFirstOf
<1>2. CASE S = {}
  BY <1>2, Leave DEF CloseFirstOf, Stays, FoldsInv, TypeOK
<1> QED BY <1>1, <1>2

LEMMA RemoveStep ==
  ASSUME FoldsInv, NEW l, RemoveFoldAtLine(l), Stays
  PROVE  FoldsInv'
<1> DEFINE at == {i \in DOMAIN Folds : Folds[i].start = Header(l)}
<1>1. current' = TRUE /\ outline' = outline /\ known' \in BOOLEAN /\ cursor' \in Lines
  BY DEF RemoveFoldAtLine, Stays, FoldsInv, TypeOK
<1>2. Good(folded')
  <2>1. CASE at = {}
    BY <2>1 DEF RemoveFoldAtLine, FoldsInv
  <2>2. CASE at # {}
    <3>1. FirstOf(at) \in at
      BY <2>2, FoldsType, FirstIs
    <3> QED BY <2>2, <3>1, FoldsType, GoodRemove DEF RemoveFoldAtLine, FoldsInv
  <2> QED BY <2>1, <2>2
<1> QED BY <1>1, <1>2, Keep

\* The folds and the known ranges are sequences of scopes.
LEMMA RangesOfScopes ==
  ASSUME FoldsInv
  PROVE  Folds \in Seq(Scopes) /\ KnownRanges \in Seq(Scopes)
<1>1. ASSUME NEW s \in Seq(FoldRange), \A i \in DOMAIN s : s[i] \in Scopes
      PROVE  s \in Seq(Scopes)
  BY <1>1
<1>2. /\ Folds \in Seq(FoldRange) /\ \A i \in DOMAIN Folds : Folds[i] \in Scopes
      /\ KnownRanges \in Seq(FoldRange)
      /\ \A i \in DOMAIN KnownRanges : KnownRanges[i] \in Scopes
  BY FoldsType, KnownIs DEF FoldsInv, Good
<1> QED BY <1>1, <1>2

LEMMA CloseCurrentStep ==
  ASSUME FoldsInv, CloseCurrentFold, Stays
  PROVE  FoldsInv'
<1>1. CASE LineFolded(cursor)
  <2>1. CloseFirstOf(Folds, StartingAt(Folds, cursor))
    BY <1>1 DEF CloseCurrentFold
  <2>2. StartingAt(Folds, cursor) \in SUBSET DOMAIN Folds
    BY DEF StartingAt
  <2> QED BY <2>1, <2>2, RangesOfScopes, CloseStep
<1>2. CASE ~LineFolded(cursor)
  <2>1. CloseFirstOf(KnownRanges, SmallestAtCursor)
    BY <1>2 DEF CloseCurrentFold
  <2>2. SmallestAtCursor \in SUBSET DOMAIN KnownRanges
    BY DEF SmallestAtCursor
  <2> QED BY <2>1, <2>2, RangesOfScopes, CloseStep
<1> QED BY <1>1, <1>2

LEMMA CloseAllStep ==
  ASSUME FoldsInv, CloseAllKey
  PROVE  FoldsInv'
<1>1. outline' = outline /\ known' \in BOOLEAN /\ cursor' \in Lines
  BY DEF CloseAllKey, Stays, FoldsInv, TypeOK
<1>2. CASE known /\ outline.ranges # <<>>
  <2>1. current' = TRUE /\ Good(folded')
    BY <1>2, FoldsType, GoodAllClosed DEF CloseAllKey
  <2> QED BY <1>1, <2>1, Keep
<1>3. CASE ~(known /\ outline.ranges # <<>>)
  BY <1>1, <1>3, Leave DEF CloseAllKey
<1> QED BY <1>2, <1>3

LEMMA ClickStep ==
  ASSUME FoldsInv, NEW i \in Lines, ClickMarker(i)
  PROVE  FoldsInv'
<1> DEFINE l == VisibleLineAt(i)
<1>1. CASE LineFolded(l)
  BY <1>1, RemoveStep DEF ClickMarker
<1>2. CASE ~LineFolded(l)
  <2>1. CloseFirstOf(KnownRanges, StartingAt(KnownRanges, l)) /\ Stays
    BY <1>2 DEF ClickMarker
  <2>2. StartingAt(KnownRanges, l) \in SUBSET DOMAIN KnownRanges
    BY DEF StartingAt
  <2> HIDE DEF l
  <2> QED BY <2>1, <2>2, RangesOfScopes, CloseStep
<1> QED BY <1>1, <1>2

\* The cursor is on a line of the text after a vertical move: also where the folds are of
\* scopes that are not apart, and the index of its line is of no visible line.
LEMMA MoveStep ==
  ASSUME FoldsInv, NEW delta \in {-2, -1, 1, 2}, MoveVertical(delta)
  PROVE  FoldsInv'
<1> DEFINE visible == VisibleLineIndex(cursor)
           to == IF delta < 0 THEN IF -delta < visible THEN visible + delta ELSE 0
                 ELSE Lesser((visible + delta) % Word, VisibleLineCount - 1)
<1>1. /\ cursor' = VisibleLineAt(to)
      /\ UNCHANGED <<outline, known, folded, current>>
  BY DEF MoveVertical
<1>2. /\ visible \in Int /\ delta \in Int /\ Word \in Nat \ {0}
      /\ VisibleLineCount - 1 \in Nat
  BY FoldsType, IndexType, CountType, LinesType
<1> HIDE DEF visible
<1>3. to \in Nat
  BY <1>2 DEF Lesser
<1> HIDE DEF to
<1>4. cursor' \in Lines
  BY <1>1, <1>3, FoldsType, AtType
<1> QED BY <1>1, <1>4, Leave DEF FoldsInv, TypeOK

\* Another text: nothing of it is folded.
LEMMA EditStep ==
  ASSUME FoldsInv, NEW o \in Outlines, Edit(o)
  PROVE  FoldsInv'
<1>1. outline' = o /\ known' = FALSE /\ current' = FALSE /\ folded' = folded
  BY DEF Edit
<1>2. Folds' = <<>>
  BY <1>1 DEF Folds
<1>3. Good(Folds)'
  BY <1>2 DEF Good, Folding, Stacked
<1>4. cursor' \in Lines'
  <2>1. cursor \in Nat /\ o.lines \in Nat \ {0}
    BY LinesType, OutlinesAssumption DEF FoldsInv, TypeOK, Lines
  <2>2. cursor' = Lesser(cursor, o.lines - 1) /\ Lines' = 0 .. o.lines - 1
    BY <1>1 DEF Edit, Lines, lines
  <2> QED BY <2>1, <2>2 DEF Lesser
<1> QED BY <1>1, <1>3, <1>4 DEF FoldsInv, TypeOK

LEMMA FoldsInit ==
  Init => FoldsInv
<1> SUFFICES ASSUME Init PROVE FoldsInv
  OBVIOUS
<1>1. Folds = <<>> /\ outline \in Outlines
  BY DEF Init, Folds
<1>2. cursor \in Lines
  BY <1>1, LinesType DEF Init
<1>3. <<>> \in Seq([start : Nat, end : Nat])
  OBVIOUS
<1>4. TypeOK
  BY <1>1, <1>2, <1>3 DEF Init, TypeOK
<1> QED BY <1>1, <1>4, GoodNothing DEF FoldsInv

LEMMA FoldsStep ==
  ASSUME FoldsInv, [Next]_vars
  PROVE  FoldsInv'
<1> USE DEF Stays
<1>1. known \in BOOLEAN /\ cursor \in Lines
  BY DEF FoldsInv, TypeOK
<1>2. CASE CloseKey
  BY <1>2, CloseCurrentStep DEF CloseKey
<1>3. CASE OpenKey
  BY <1>3, RemoveStep DEF OpenKey, OpenCurrentFold
<1>4. CASE ToggleKey
  BY <1>4, CloseCurrentStep, RemoveStep DEF ToggleKey, OpenCurrentFold
<1>5. CASE CloseAllKey
  BY <1>5, CloseAllStep
<1>6. CASE OpenAllKey
  BY <1>1, <1>6, GoodNothing, Keep DEF OpenAllKey
<1>7. ASSUME NEW i \in Lines, ClickMarker(i) PROVE FoldsInv'
  BY <1>7, ClickStep
<1>8. ASSUME NEW delta \in {-2, -1, 1, 2}, MoveVertical(delta) PROVE FoldsInv'
  BY <1>8, MoveStep
<1>9. ASSUME NEW l \in Lines, MoveTo(l) PROVE FoldsInv'
  BY <1>1, <1>9, Leave DEF MoveTo
<1>10. ASSUME NEW o \in Outlines, Edit(o) PROVE FoldsInv'
  BY <1>10, EditStep
<1>11. CASE RangesArrive
  BY <1>1, <1>11, Leave DEF RangesArrive
<1>12. CASE UNCHANGED vars
  BY <1>1, <1>12, Leave DEF vars
<1> QED BY <1>2, <1>3, <1>4, <1>5, <1>6, <1>7, <1>8, <1>9, <1>10, <1>11, <1>12 DEF Next

THEOREM FoldsInvariance ==
  Spec => []FoldsInv
<1>1. FoldsInv /\ [Next]_vars => FoldsInv'
  BY FoldsStep
<1> QED BY FoldsInit, <1>1, PTL DEF Spec

-----------------------------------------------------------------------------
(* Theorems *)

\* The cursor is on a line of the text after any move over any folds (move_vertical,
\* move_half_page), the folds are ranges of lines.
THEOREM FoldsTyped ==
  Spec => []TypeOK
<1>1. FoldsInv => TypeOK
  BY DEF FoldsInv
<1> QED BY FoldsInvariance, <1>1, PTL

\* Where the scopes of the text are apart, so are the folds, in their order and in any
\* order of folding: one that is added takes those within it away (add_fold_range), one
\* that another hides is refused, and z M leaves out those that one before them hides.
THEOREM FoldsStayApart ==
  Spec => [](ScopesApart => Stacked(Folds))
<1>1. FoldsInv => (ScopesApart => Stacked(Folds))
  BY DEF FoldsInv, Good
<1> QED BY FoldsInvariance, <1>1, PTL

\* The three walks over the folds and the header of a line agree with the set of hidden
\* lines, for every text with scopes that are apart and however it has been folded
\* (editor_visible_line_count, editor_visible_line_at, editor_visible_line_index,
\* editor_next_visible_line, folded_header_for_line).
THEOREM FoldsAlwaysAgree ==
  Spec => []FoldsAgree
<1>1. FoldsInv => FoldsAgree
  <2> SUFFICES ASSUME FoldsInv PROVE FoldsAgree
    OBVIOUS
  <2>1. CASE ScopesApart
    <3>1. Stack
      BY <2>1, FoldsType DEF FoldsInv, Good, Stack
    <3> QED BY <3>1, StackAgrees
  <2>2. CASE ~ScopesApart
    BY <2>2 DEF FoldsAgree
  <2> QED BY <2>1, <2>2
<1> QED BY FoldsInvariance, <1>1, PTL

-----------------------------------------------------------------------------
(* Texts and their lines *)

\* A sequence, of whatever.
IsText(t) == Len(t) \in Nat /\ t = [i \in 1 .. Len(t) |-> t[i]]

LEMMA SequenceIsText ==
  ASSUME NEW S, NEW s \in Seq(S)
  PROVE  IsText(s)
  BY DEF IsText

LEMMA LengthIs ==
  ASSUME NEW t, IsText(t)
  PROVE  Len(t) \in Nat /\ DOMAIN t = 1 .. Len(t)
  BY DEF IsText

LEMMA TextsJoin ==
  ASSUME NEW s, NEW t, IsText(s), IsText(t)
  PROVE  IsText(s \o t) /\ Len(s \o t) = Len(s) + Len(t)
<1> DEFINE A == {s[i] : i \in 1 .. Len(s)} \cup {t[i] : i \in 1 .. Len(t)}
<1>1. s \in Seq(A) /\ t \in Seq(A)
  <2>1. /\ Len(s) \in Nat /\ s = [i \in 1 .. Len(s) |-> s[i]]
        /\ Len(t) \in Nat /\ t = [i \in 1 .. Len(t) |-> t[i]]
    BY DEF IsText
  <2>2. s \in [1 .. Len(s) -> A] /\ t \in [1 .. Len(t) -> A]
    BY <2>1
  <2> HIDE DEF A
  <2> QED BY <2>1, <2>2
<1> HIDE DEF A
<1>2. s \o t \in Seq(A)
  BY <1>1
<1>3. Len(s \o t) = Len(s) + Len(t)
  BY <1>1
<1> QED BY <1>2, <1>3, SequenceIsText

LEMMA PartIsText ==
  ASSUME NEW t, NEW m \in Int, NEW n \in Int
  PROVE  IsText(SubSeq(t, m, n))
  BY DEF IsText

LEMMA InsertIsText ==
  ASSUME NEW t, IsText(t), NEW v, IsText(v), NEW o \in Int
  PROVE  IsText(Editing!Insert(t, o, v))
<1>1. IsText(SubSeq(t, 1, o)) /\ IsText(SubSeq(t, o + 1, Len(t)))
  BY PartIsText, LengthIs
<1> QED BY <1>1, TextsJoin DEF Editing!Insert

LEMMA EraseIsText ==
  ASSUME NEW t, IsText(t), NEW from \in Int, NEW to \in Int
  PROVE  IsText(Editing!Erase(t, from, to))
<1>1. IsText(SubSeq(t, 1, from)) /\ IsText(SubSeq(t, to + 1, Len(t)))
  BY PartIsText, LengthIs
<1> QED BY <1>1, TextsJoin DEF Editing!Erase

\* The cardinality that Editing counts with.
LEMMA SameCardinality ==
  ASSUME NEW S
  PROVE  Editing!Cardinality(S) = Cardinality(S)
BY DEF Editing!Cardinality, Cardinality

LEMMA NewlinesType ==
  ASSUME NEW t, NEW n \in Int
  PROVE  /\ IsFiniteSet({i \in 1 .. n : t[i] = Editing!NL})
         /\ Editing!NewlinesIn(t, n) \in Nat
<1>1. IsFiniteSet(1 .. n)
  BY FS_Interval
<1>2. IsFiniteSet({i \in 1 .. n : t[i] = Editing!NL})
  BY <1>1, FS_Subset
<1> QED BY <1>2, FS_CardinalityType, SameCardinality DEF Editing!NewlinesIn

LEMMA NewlinesGrow ==
  ASSUME NEW t, NEW n \in Int, NEW m \in Int, m <= n
  PROVE  Editing!NewlinesIn(t, m) <= Editing!NewlinesIn(t, n)
<1> DEFINE S(k) == {i \in 1 .. k : t[i] = Editing!NL}
<1>1. S(m) \subseteq S(n)
  OBVIOUS
<1>0. IsFiniteSet(S(n))
  BY NewlinesType
<1> HIDE DEF S
<1>2. Cardinality(S(m)) <= Cardinality(S(n))
  BY <1>0, <1>1, FS_Subset
<1> QED BY <1>2, SameCardinality DEF S, Editing!NewlinesIn

LEMMA NoNewlines ==
  ASSUME NEW t, NEW n \in Int, n <= 0
  PROVE  Editing!NewlinesIn(t, n) = 0
<1>1. {i \in 1 .. n : t[i] = Editing!NL} = {}
  OBVIOUS
<1> QED BY <1>1, FS_EmptySet, SameCardinality DEF Editing!NewlinesIn

LEMMA NextNewline ==
  ASSUME NEW t, NEW n \in Nat \ {0}
  PROVE  Editing!NewlinesIn(t, n) =
             Editing!NewlinesIn(t, n - 1) + (IF t[n] = Editing!NL THEN 1 ELSE 0)
<1> DEFINE S(k) == {i \in 1 .. k : t[i] = Editing!NL}
<1>1. IsFiniteSet(S(n - 1)) /\ n \notin S(n - 1)
  <2>1. n - 1 \in Int /\ n \notin S(n - 1)
    OBVIOUS
  <2>2. ASSUME NEW k \in Int PROVE IsFiniteSet(S(k))
    BY NewlinesType
  <2> HIDE DEF S
  <2> QED BY <2>1, <2>2
<1>2. S(n) = IF t[n] = Editing!NL THEN S(n - 1) \cup {n} ELSE S(n - 1)
  OBVIOUS
<1>3. Cardinality(S(n - 1)) \in Nat
  BY <1>1, FS_CardinalityType
<1> HIDE DEF S
<1>4. Cardinality(S(n - 1) \cup {n}) = Cardinality(S(n - 1)) + 1
  BY <1>1, FS_AddElement
<1>5. Editing!NewlinesIn(t, n) = Cardinality(S(n))
      /\ Editing!NewlinesIn(t, n - 1) = Cardinality(S(n - 1))
  BY SameCardinality DEF S, Editing!NewlinesIn
<1> QED BY <1>2, <1>3, <1>4, <1>5

LEMMA LinesAreCounted ==
  ASSUME NEW t, IsText(t)
  PROVE  Len(t) \in Nat /\ Editing!LineCount(t) \in Nat /\ Editing!LineCount(t) >= 1
<1>1. Len(t) \in Nat /\ Len(t) \in Int
  BY LengthIs
<1>2. Editing!NewlinesIn(t, Len(t)) \in Nat
  BY <1>1, NewlinesType
<1> QED BY <1>1, <1>2 DEF Editing!LineCount

\* Every line but the first begins behind a newline.
LEMMA LineStartIs ==
  ASSUME NEW t, IsText(t), NEW l \in 0 .. Editing!LineCount(t) - 1
  PROVE  /\ Editing!LineStart(t, l) \in 0 .. Len(t)
         /\ l = 0 => Editing!LineStart(t, l) = 0
         /\ l # 0 => /\ Editing!LineStart(t, l) # 0
                     /\ Editing!NewlinesIn(t, Editing!LineStart(t, l)) = l
                     /\ t[Editing!LineStart(t, l)] = Editing!NL
<1>1. Len(t) \in Nat /\ DOMAIN t = 1 .. Len(t)
  BY DEF IsText
<1>2. ASSUME l # 0 PROVE \E i \in DOMAIN t : t[i] = Editing!NL /\ Editing!NewlinesIn(t, i) = l
  <2> DEFINE S == {i \in 0 .. Len(t) : Editing!NewlinesIn(t, i) >= l}
  <2>1. S \in SUBSET Nat /\ S # {}
    <3>1. Len(t) \in S
      <4>1. Editing!LineCount(t) = Editing!NewlinesIn(t, Len(t)) + 1 /\ Editing!LineCount(t) \in Nat
        BY LinesAreCounted DEF Editing!LineCount
      <4>2. Len(t) \in Int
        BY <1>1
      <4>3. Editing!NewlinesIn(t, Len(t)) \in Nat
        BY <4>2, NewlinesType
      <4> QED BY <1>1, <4>1, <4>3
    <3> QED BY <1>1, <3>1
  <2>2. PICK i \in S : \A j \in S : i <= j
    <3> HIDE DEF S
    <3> QED BY <2>1, LeastNat
  <2>3. i # 0
    BY <1>2, <2>2, NoNewlines
  <2>4. i - 1 \in 0 .. Len(t) /\ i \in 1 .. Len(t) /\ i - 1 < i
    BY <1>1, <2>3
  <2>5. Editing!NewlinesIn(t, i - 1) < l /\ Editing!NewlinesIn(t, i - 1) \in Nat
    <3>1. i - 1 \notin S
      BY <2>2, <2>4
    <3>2. Editing!NewlinesIn(t, i - 1) \in Nat
      <4>1. i - 1 \in Int
        BY <2>4
      <4> QED BY <4>1, NewlinesType
    <3> QED BY <2>4, <3>1, <3>2
  <2>6. Editing!NewlinesIn(t, i) =
            Editing!NewlinesIn(t, i - 1) + (IF t[i] = Editing!NL THEN 1 ELSE 0)
    BY <2>4, NextNewline
  <2> QED BY <1>1, <2>2, <2>4, <2>5, <2>6
<1>3. CASE l = 0
  BY <1>1, <1>3 DEF Editing!LineStart
<1>4. CASE l # 0
  <2>1. Editing!LineStart(t, l) \in DOMAIN t /\ t[Editing!LineStart(t, l)] = Editing!NL
        /\ Editing!NewlinesIn(t, Editing!LineStart(t, l)) = l
    BY <1>2, <1>4 DEF Editing!LineStart
  <2> QED BY <1>1, <1>4, <2>1
<1> QED BY <1>3, <1>4

LEMMA LineSizeIs ==
  ASSUME NEW t, IsText(t), NEW l \in 0 .. Editing!LineCount(t) - 1
  PROVE  /\ Editing!LineSize(t, l) \in Int
         /\ l = Editing!LineCount(t) - 1 => Editing!LineSize(t, l) =
                Len(t) - Editing!LineStart(t, l)
         /\ l = 0 => Editing!LineSize(t, l) >= 0
<1>1. Editing!LineStart(t, l) \in Int /\ Len(t) \in Int /\ (l = 0 => Editing!LineStart(t, l) = 0)
      /\ Len(t) >= 0
  BY LineStartIs, LinesAreCounted
<1>2. ASSUME l + 1 < Editing!LineCount(t)
      PROVE Editing!LineStart(t, l + 1) \in Int /\ Editing!LineStart(t, l + 1) >= 1
  <2>1. l + 1 \in 0 .. Editing!LineCount(t) - 1 /\ l + 1 # 0
    BY <1>2, LinesAreCounted
  <2> QED BY <2>1, LineStartIs
<1>3. Editing!LineCount(t) \in Nat
  BY LinesAreCounted
<1> QED BY <1>1, <1>2, <1>3 DEF Editing!LineSize

-----------------------------------------------------------------------------
(* Positions *)

\* The places on the lines of a text.
PlacesOf(t) == {p \in Editing!Places : p.line \in 0 .. Editing!LineCount(t) - 1}

LEMMA AtIsPlace ==
  ASSUME NEW l \in Nat, NEW c \in Int
  PROVE  Editing!At(l, c) \in Editing!Places /\ Editing!At(l, c).line = l
         /\ Editing!At(l, c).column = c
  BY DEF Editing!At, Editing!Places

LEMMA PlaceIsPlace ==
  ASSUME NEW p \in Editing!Places
  PROVE  p.line \in Nat /\ p.column \in Int /\ p = Editing!At(p.line, p.column)
  BY DEF Editing!At, Editing!Places

LEMMA AtIsOnLine ==
  ASSUME NEW t, NEW l \in 0 .. Editing!LineCount(t) - 1, NEW c \in Int
  PROVE  Editing!At(l, c) \in PlacesOf(t)
<1>1. l \in Nat
  OBVIOUS
<1> QED BY <1>1, AtIsPlace DEF PlacesOf

LEMMA OnLine ==
  ASSUME NEW t, NEW p \in PlacesOf(t)
  PROVE  /\ p \in Editing!Places /\ p.line \in 0 .. Editing!LineCount(t) - 1
         /\ p.line \in Nat /\ p.column \in Int
  BY PlaceIsPlace DEF PlacesOf

LEMMA OriginIsOnLine ==
  ASSUME NEW t, IsText(t)
  PROVE  Editing!Origin \in PlacesOf(t)
<1>1. 0 \in 0 .. Editing!LineCount(t) - 1
  BY LinesAreCounted
<1> QED BY <1>1, AtIsOnLine DEF Editing!Origin

LEMMA LeastIs ==
  ASSUME NEW m \in Int, NEW n \in Int
  PROVE  /\ Editing!Least(m, n) \in Int /\ Editing!Least(m, n) \in {m, n}
         /\ Editing!Least(m, n) <= m /\ Editing!Least(m, n) <= n
         /\ Editing!Most(m, n) \in Int /\ Editing!Most(m, n) \in {m, n} /\ Editing!Most(m, n) >= m
         /\ Editing!Most(m, n) >= n
  BY DEF Editing!Least, Editing!Most

LEMMA InLineIs ==
  ASSUME NEW t, IsText(t), NEW l \in 0 .. Editing!LineCount(t) - 1, NEW c \in Int
  PROVE  /\ Editing!InLine(t, l, c) \in PlacesOf(t)
         /\ Editing!OffsetInLine(t, l, c) \in Int
<1>1. Editing!LineSize(t, l) \in Int /\ Editing!LineStart(t, l) \in Int
  BY LineSizeIs, LineStartIs
<1>2. Editing!Least(c, Editing!LineSize(t, l)) \in Int
  BY <1>1, LeastIs
<1>3. Editing!InLine(t, l, c) \in PlacesOf(t)
  BY <1>2, AtIsOnLine DEF Editing!InLine
<1>4. Editing!OffsetInLine(t, l, c) \in Int
  BY <1>1, <1>2 DEF Editing!OffsetInLine
<1> QED BY <1>3, <1>4

\* A line past the last one means the last.
LEMMA LeastLine ==
  ASSUME NEW t, IsText(t), NEW l \in Nat
  PROVE  Editing!Least(l, Editing!LineCount(t) - 1) \in 0 .. Editing!LineCount(t) - 1
  BY LinesAreCounted DEF Editing!Least

LEMMA ClampType ==
  ASSUME NEW t, IsText(t), NEW p \in Editing!Places
  PROVE  Editing!Clamp(t, p) \in PlacesOf(t) /\ Editing!Offset(t, p) \in Int
<1>1. p.line \in Nat /\ p.column \in Int
  BY PlaceIsPlace
<1>2. Editing!Least(p.line, Editing!LineCount(t) - 1) \in 0 .. Editing!LineCount(t) - 1
  BY <1>1, LeastLine
<1> QED BY <1>1, <1>2, InLineIs DEF Editing!Clamp, Editing!Offset

LEMMA PositionType ==
  ASSUME NEW t, IsText(t), NEW o \in Int
  PROVE  Editing!Position(t, o) \in PlacesOf(t)
<1> DEFINE n == Editing!Least(o, Len(t))
           l == Editing!NewlinesIn(t, n)
<1>1. Len(t) \in Int
  BY LengthIs
<1>2. n \in Int /\ n <= Len(t)
  BY <1>1, LeastIs
<1> HIDE DEF n
<1>3. l \in Nat /\ Editing!NewlinesIn(t, Len(t)) \in Nat /\ l <= Editing!NewlinesIn(t, Len(t))
  BY <1>1, <1>2, NewlinesType, NewlinesGrow
<1>4. l \in 0 .. Editing!LineCount(t) - 1
  BY <1>3 DEF Editing!LineCount
<1> HIDE DEF l
<1>5. Editing!LineStart(t, l) \in Int
  BY <1>4, LineStartIs
<1>6. n - Editing!LineStart(t, l) \in Int
  BY <1>2, <1>5
<1>7. Editing!At(l, n - Editing!LineStart(t, l)) \in PlacesOf(t)
  BY <1>4, <1>6, AtIsOnLine
<1> QED BY <1>7 DEF Editing!Position, n, l

LEMMA PreviousType ==
  ASSUME NEW t, IsText(t), NEW p \in Editing!Places
  PROVE  Editing!PreviousPosition(t, p) \in PlacesOf(t)
<1> DEFINE q == Editing!Clamp(t, p)
<1>1. q \in PlacesOf(t)
  BY ClampType
<1> HIDE DEF q
<1>2. q.line \in 0 .. Editing!LineCount(t) - 1 /\ q.column \in Int /\ Editing!LineCount(t) \in Nat
  BY <1>1, OnLine, LinesAreCounted
<1>3. Editing!At(q.line, q.column - 1) \in PlacesOf(t)
  BY <1>2, AtIsOnLine
<1>4. ASSUME q.line # 0
      PROVE Editing!At(q.line - 1, Editing!LineSize(t, q.line - 1)) \in PlacesOf(t)
  <2>1. q.line - 1 \in 0 .. Editing!LineCount(t) - 1
    BY <1>2, <1>4
  <2> QED BY <2>1, AtIsOnLine, LineSizeIs
<1>5. Editing!PreviousFrom(t, q) \in PlacesOf(t)
  BY <1>1, <1>3, <1>4 DEF Editing!PreviousFrom
<1> QED BY <1>5 DEF Editing!PreviousPosition, q

LEMMA NextType ==
  ASSUME NEW t, IsText(t), NEW p \in Editing!Places
  PROVE  Editing!NextPosition(t, p) \in PlacesOf(t)
         /\ Editing!CharacterPosition(t, p) \in PlacesOf(t)
<1> DEFINE q == Editing!Clamp(t, p)
           size == Editing!LineSize(t, q.line)
<1>1. q \in PlacesOf(t)
  BY ClampType
<1> HIDE DEF q
<1>2. q.line \in 0 .. Editing!LineCount(t) - 1 /\ q.column \in Int /\ Editing!LineCount(t) \in Nat
  BY <1>1, OnLine, LinesAreCounted
<1>3. Editing!At(q.line, q.column - 1) \in PlacesOf(t)
      /\ Editing!At(q.line, q.column + 1) \in PlacesOf(t)
  <2>1. q.column - 1 \in Int /\ q.column + 1 \in Int
    BY <1>2
  <2> QED BY <1>2, <2>1, AtIsOnLine
<1>4. ASSUME q.line + 1 < Editing!LineCount(t) PROVE Editing!At(q.line + 1, 0) \in PlacesOf(t)
  <2>1. q.line + 1 \in 0 .. Editing!LineCount(t) - 1
    BY <1>2, <1>4
  <2> QED BY <2>1, AtIsOnLine
<1> HIDE DEF size
<1>5. Editing!NextFrom(t, q, size) \in PlacesOf(t)
  BY <1>1, <1>3, <1>4 DEF Editing!NextFrom
<1>6. Editing!CharacterFrom(t, q, size) \in PlacesOf(t)
  BY <1>1, <1>3 DEF Editing!CharacterFrom
<1> QED BY <1>5, <1>6 DEF Editing!NextPosition, Editing!CharacterPosition, q, size

LEMMA WordType ==
  ASSUME NEW t, IsText(t), NEW p \in Editing!Places
  PROVE  Editing!PreviousWord(t, p) \in PlacesOf(t) /\ Editing!NextWord(t, p) \in PlacesOf(t)
<1> DEFINE o == Editing!Offset(t, p)
           before ==
               {i \in 0 .. o - 1 : Editing!WordAt(t, i) /\ (i = 0 \/ ~Editing!WordAt(t, i - 1))}
           behind == {i \in o + 1 .. Len(t) - 1 : Editing!WordAt(t, i) /\ ~Editing!WordAt(t, i - 1)}
           last == CHOOSE i \in before : \A j \in before : j <= i
           first == CHOOSE i \in behind : \A j \in behind : i <= j
<1>1. o \in Int /\ Len(t) \in Nat
  BY ClampType, LengthIs
<1> HIDE DEF o
<1>2. before \subseteq 0 .. o - 1 /\ behind \subseteq o + 1 .. Len(t) - 1
  OBVIOUS
<1>3. ASSUME before # {} PROVE last \in Int
  <2>1. before \in SUBSET (0 .. o - 1)
    OBVIOUS
  <2> HIDE DEF before
  <2>2. {o - 1 - i : i \in before} \in SUBSET Nat /\ {o - 1 - i : i \in before} # {}
    <3>1. \A i \in before : o - 1 - i \in Nat
      BY <1>1, <2>1
    <3> QED BY <1>3, <3>1
  <2>3. PICK n \in {o - 1 - i : i \in before} : \A m \in {o - 1 - i : i \in before} : n <= m
    BY <2>2, LeastNat
  <2>4. PICK i \in before : n = o - 1 - i
    BY <2>3
  <2>5. \A j \in before : o - 1 - i <= o - 1 - j
    BY <2>3, <2>4
  <2>6. \A j \in before : j \in Int
    BY <1>1, <2>1
  <2>7. \A j \in before : j <= i
    BY <1>1, <2>4, <2>5, <2>6
  <2>8. last \in before
    BY <2>7
  <2> QED BY <2>6, <2>8
<1>4. ASSUME behind # {} PROVE first \in Int
  <2>1. behind \in SUBSET (o + 1 .. Len(t) - 1)
    OBVIOUS
  <2> HIDE DEF behind
  <2>2. {i - o : i \in behind} \in SUBSET Nat /\ {i - o : i \in behind} # {}
    <3>1. \A i \in behind : i - o \in Nat
      BY <1>1, <2>1
    <3> QED BY <1>4, <3>1
  <2>3. PICK n \in {i - o : i \in behind} : \A m \in {i - o : i \in behind} : n <= m
    BY <2>2, LeastNat
  <2>4. PICK i \in behind : n = i - o
    BY <2>3
  <2>5. \A j \in behind : i - o <= j - o
    BY <2>3, <2>4
  <2>6. \A j \in behind : j \in Int
    BY <1>1, <2>1
  <2>7. \A j \in behind : i <= j
    BY <1>1, <2>4, <2>5, <2>6
  <2>8. first \in behind
    BY <2>7
  <2> QED BY <2>6, <2>8
<1>5. /\ Editing!PreviousWord(t, p) = Editing!Position(t, IF before = {} THEN 0 ELSE last)
      /\ Editing!NextWord(t, p) = Editing!Position(t, IF behind = {} THEN Len(t) ELSE first)
  BY DEF Editing!PreviousWord, Editing!NextWord, o
<1> HIDE DEF before, behind, last, first
<1> QED BY <1>1, <1>3, <1>4, <1>5, PositionType

-----------------------------------------------------------------------------
(* Sequences in order *)

\* InOrder arranges the elements at the indices in S, each once.
LEMMA InOrderType ==
  ASSUME NEW X, NEW s, NEW N \in Nat, NEW S \in SUBSET (1 .. N), NEW ranks,
         \A i \in S : s[i] \in X, \A i \in S : ranks[i] \in Int
  PROVE  /\ IsFiniteSet(S) /\ Cardinality(S) \in Nat
         /\ Editing!InOrder(s, S, ranks) \in {q \in Seq(X) : Len(q) = Cardinality(S)}
<1> DEFINE Ahead(i) == {j \in S : ranks[j] < ranks[i] \/ (ranks[j] = ranks[i] /\ j < i)}
           Place(i) == Cardinality(Ahead(i))
           c == Cardinality(S)
           place == [i \in S |-> Place(i)]
           w == [n \in 1 .. c |-> s[CHOOSE i \in S : Place(i) = n - 1]]
<1>1. IsFiniteSet(S) /\ c \in Nat
  <2>1. IsFiniteSet(1 .. N)
    BY FS_Interval
  <2> QED BY <2>1, FS_Subset, FS_CardinalityType
<1>0. \A i \in S : i \in Nat /\ ranks[i] \in Int
  OBVIOUS
<1>2. ASSUME NEW i \in S
      PROVE  IsFiniteSet(Ahead(i)) /\ Place(i) \in 0 .. c - 1
  <2>1. Ahead(i) \in SUBSET S /\ Ahead(i) # S
    <3>1. i \notin Ahead(i)
      BY <1>0
    <3> QED BY <3>1
  <2> HIDE DEF Ahead
  <2>2. IsFiniteSet(Ahead(i)) /\ Place(i) <= c /\ (c = Place(i) => S = Ahead(i))
    BY <1>1, <2>1, FS_Subset
  <2>3. Place(i) \in Nat
    BY <2>2, FS_CardinalityType
  <2> QED BY <1>1, <2>1, <2>2, <2>3
<1>3. ASSUME NEW i \in S, NEW j \in S, i \in Ahead(j)
      PROVE  Place(i) < Place(j)
  <2>1. Ahead(i) \in SUBSET Ahead(j)
    <3>1. ASSUME NEW k \in S, ranks[k] < ranks[i] \/ (ranks[k] = ranks[i] /\ k < i)
          PROVE  ranks[k] < ranks[j] \/ (ranks[k] = ranks[j] /\ k < j)
      BY <1>0, <1>3, <3>1
    <3> QED BY <3>1
  <2>2. i \in Ahead(j) /\ i \notin Ahead(i)
    BY <1>0, <1>3
  <2>3. Place(i) \in 0 .. c - 1 /\ Place(j) \in 0 .. c - 1 /\ IsFiniteSet(Ahead(j))
    BY <1>2
  <2> HIDE DEF Ahead, c
  <2>4. Place(i) <= Place(j) /\ (Place(j) = Place(i) => Ahead(j) = Ahead(i))
    BY <2>1, <2>3, FS_Subset
  <2> QED BY <1>1, <2>2, <2>3, <2>4
<1>4. \A i, j \in S : Place(i) = Place(j) => i = j
  <2> SUFFICES ASSUME NEW i \in S, NEW j \in S, Place(i) = Place(j), i # j PROVE FALSE
    OBVIOUS
  <2>1. i \in Ahead(j) \/ j \in Ahead(i)
    BY <1>0
  <2>2. Place(i) \in 0 .. c - 1 /\ Place(j) \in 0 .. c - 1
    BY <1>2
  <2> HIDE DEF Ahead, Place, c
  <2> QED BY <1>1, <1>3, <2>1, <2>2
<1>5. \A n \in 1 .. c : \E i \in S : Place(i) = n - 1
  <2> HIDE DEF Place, c
  <2>1. place \in [S -> 0 .. c - 1]
    BY <1>2
  <2>2. place \in Injection(S, 0 .. c - 1)
    BY <1>4, <2>1 DEF Injection, IsInjective
  <2>3. IsFiniteSet(0 .. c - 1) /\ Cardinality(0 .. c - 1) = c
    BY <1>1, FS_Interval
  <2>4. place \in Surjection(S, 0 .. c - 1)
    <3>1. Cardinality(S) = c
      BY DEF c
    <3> HIDE DEF place
    <3> QED BY <2>2, <2>3, <3>1, FS_Injection
  <2>5. ASSUME NEW n \in 1 .. c PROVE \E i \in S : Place(i) = n - 1
    <3>1. n - 1 \in 0 .. c - 1
      BY <1>1
    <3>2. \E i \in S : place[i] = n - 1
      BY <2>4, <3>1 DEF Surjection
    <3> QED BY <3>2
  <2> QED BY <2>5
<1>6. w \in Seq(X)
  <2> HIDE DEF Place, c
  <2>1. \A n \in 1 .. c : (CHOOSE i \in S : Place(i) = n - 1) \in S
    BY <1>5
  <2>2. w \in [1 .. c -> X]
    BY <2>1
  <2> HIDE DEF w
  <2> QED BY <1>1, <2>2
<1>7. Len(w) = c
  <2> HIDE DEF Place, c
  <2> QED BY <1>1
<1>8. Editing!InOrder(s, S, ranks) = <<>> \o w
  BY DEF Editing!InOrder, Editing!Cardinality, Cardinality
<1> HIDE DEF w, c
<1>9. <<>> \o w \in Seq(X) /\ Len(<<>> \o w) = Len(w)
  BY <1>6
<1> QED BY <1>1, <1>6, <1>7, <1>8, <1>9 DEF c

LEMMA ThoseType ==
  ASSUME NEW X, NEW s, NEW N \in Nat, NEW S \in SUBSET (1 .. N), \A i \in S : s[i] \in X
  PROVE  Editing!Those(s, S) \in Seq(X)
<1> DEFINE ranks == [i \in S |-> 0]
<1>1. \A i \in S : ranks[i] \in Int
  OBVIOUS
<1> HIDE DEF ranks
<1>2. Editing!InOrder(s, S, ranks) \in Seq(X)
  BY <1>1, InOrderType
<1> QED BY <1>2 DEF Editing!Those, ranks

\* A whole sequence in order.
LEMMA OrderedType ==
  ASSUME NEW X, NEW s, IsText(s), NEW ranks,
         \A i \in DOMAIN s : s[i] \in X, \A i \in DOMAIN s : ranks[i] \in Int
  PROVE  Editing!InOrder(s, DOMAIN s, ranks) \in Seq(X)
         /\ Len(Editing!InOrder(s, DOMAIN s, ranks)) = Len(s)
<1>1. Len(s) \in Nat /\ DOMAIN s = 1 .. Len(s)
  BY LengthIs
<1>2. Cardinality(1 .. Len(s)) = Len(s)
  <2>1. ASSUME NEW n \in Nat PROVE Cardinality(1 .. n) = n
    BY FS_Interval
  <2> QED BY <1>1, <2>1
<1>3. DOMAIN s \in SUBSET (1 .. Len(s))
  BY <1>1
<1>4. Editing!InOrder(s, DOMAIN s, ranks) \in {q \in Seq(X) : Len(q) = Cardinality(DOMAIN s)}
  BY <1>1, <1>3, InOrderType
<1> QED BY <1>1, <1>2, <1>4

LEMMA NormalIsText ==
  ASSUME NEW t, IsText(t)
  PROVE  IsText(Editing!Normal(t))
<1> DEFINE Dropped(i) == \/ t[i] = Editing!NL /\ i = Len(t)
                         \/ t[i] = Editing!CR /\ i < Len(t) /\ t[i + 1] = Editing!NL
           S == {i \in DOMAIN t : ~Dropped(i)}
           X == {t[i] : i \in 1 .. Len(t)}
<1>1. Len(t) \in Nat /\ DOMAIN t = 1 .. Len(t)
  BY LengthIs
<1>2. S \in SUBSET (1 .. Len(t))
  BY <1>1
<1> HIDE DEF S
<1>3. \A i \in S : t[i] \in X
  BY <1>2
<1> HIDE DEF X
<1>4. Editing!Those(t, S) \in Seq(X)
  BY <1>1, <1>2, <1>3, ThoseType
<1>5. IsText(Editing!Those(t, S))
  BY <1>4, SequenceIsText
<1> QED BY <1>5 DEF Editing!Normal, S

-----------------------------------------------------------------------------
(* Cursors *)

Cursors == [at : Editing!Places, anchor : Editing!Places, preferred : Int]
CursorsOf(t) == {c \in Cursors : c.at \in PlacesOf(t)}

\* An editor whose cursors may be on no line of its text, and one whose primary is on one.
Fields == {"text", "primary", "extras", "mode", "active", "insert", "pendingD"}
IsLoose(e) ==
  /\ DOMAIN e = Fields
  /\ IsText(e.text) /\ e.primary \in Cursors /\ e.extras \in Seq(Cursors)
IsEditor(e) == IsLoose(e) /\ e.primary.at \in PlacesOf(e.text)

\* Only the cursors and the mode differ.
Keeps(f, e) == IsEditor(f) /\ f.text = e.text

LEMMA LooseIs ==
  ASSUME NEW e, IsLoose(e)
  PROVE  /\ DOMAIN e = Fields /\ IsText(e.text) /\ e.primary \in Cursors
         /\ e.extras \in Seq(Cursors)
         /\ e.primary.at \in Editing!Places /\ e.primary.anchor \in Editing!Places
         /\ e.primary.preferred \in Int
         /\ DOMAIN e.extras = 1 .. Len(e.extras) /\ Len(e.extras) \in Nat
         /\ \A i \in DOMAIN e.extras : e.extras[i] \in Cursors
<1>1. DOMAIN e = Fields /\ IsText(e.text) /\ e.primary \in Cursors /\ e.extras \in Seq(Cursors)
  BY DEF IsLoose
<1>2. e.primary.at \in Editing!Places /\ e.primary.anchor \in Editing!Places
      /\ e.primary.preferred \in Int
  BY <1>1 DEF Cursors
<1> HIDE DEF Cursors
<1> QED BY <1>1, <1>2

LEMMA EditorIsLoose ==
  ASSUME NEW e, IsEditor(e)
  PROVE  /\ IsLoose(e) /\ e.primary \in CursorsOf(e.text) /\ e.primary.at \in PlacesOf(e.text)
         /\ e.primary.at.line \in 0 .. Editing!LastLine(e) /\ e.primary.at.column \in Int
<1>1. e.primary.at \in PlacesOf(e.text)
  BY DEF IsEditor
<1> QED BY <1>1, OnLine DEF IsEditor, IsLoose, CursorsOf, Editing!LastLine

LEMMA IsEditorIf ==
  ASSUME NEW f, DOMAIN f = Fields, IsText(f.text), f.primary \in CursorsOf(f.text),
         f.extras \in Seq(Cursors)
  PROVE  IsEditor(f)
  BY DEF IsEditor, IsLoose, CursorsOf

LEMMA UnselectedType ==
  ASSUME NEW c \in Cursors
  PROVE  Editing!Unselected(c) \in Cursors /\ Editing!Unselected(c).at = c.at
  BY DEF Editing!Unselected, Cursors

LEMMA ClampedType ==
  ASSUME NEW t, IsText(t), NEW c \in Cursors
  PROVE  Editing!Clamped(t, c) \in CursorsOf(t)
<1>1. c.at \in Editing!Places /\ c.anchor \in Editing!Places /\ c.preferred \in Int
  BY DEF Cursors
<1>2. Editing!Clamp(t, c.at) \in PlacesOf(t) /\ Editing!Clamp(t, c.anchor) \in PlacesOf(t)
  BY <1>1, ClampType
<1>3. Editing!Clamp(t, c.at) \in Editing!Places /\ Editing!Clamp(t, c.anchor) \in Editing!Places
      /\ Editing!Clamp(t, c.at).column \in Int
  BY <1>2, OnLine
<1>4. Editing!Least(c.preferred, Editing!Clamp(t, c.at).column) \in Int
  BY <1>1, <1>3, LeastIs
<1> QED BY <1>2, <1>3, <1>4 DEF Editing!Clamped, CursorsOf, Cursors

LEMMA ClearSelectionKeeps ==
  ASSUME NEW e, IsEditor(e)
  PROVE  Keeps(Editing!ClearSelection(e), e)
<1> DEFINE f == Editing!ClearSelection(e)
           xs == [i \in DOMAIN e.extras |-> Editing!Unselected(e.extras[i])]
<1>1. /\ DOMAIN e = Fields /\ IsText(e.text) /\ e.extras \in Seq(Cursors)
      /\ e.primary \in Cursors /\ e.primary.at \in PlacesOf(e.text)
  BY DEF IsEditor, IsLoose
<1>2. DOMAIN f = Fields /\ f.text = e.text /\ f.primary = Editing!Unselected(e.primary)
      /\ f.extras = xs
  BY <1>1 DEF Editing!ClearSelection, Fields
<1>3. xs \in Seq(Cursors)
  <2>1. \A i \in 1 .. Len(e.extras) : Editing!Unselected(e.extras[i]) \in Cursors
    BY <1>1, UnselectedType
  <2>2. Len(e.extras) \in Nat /\ DOMAIN e.extras = 1 .. Len(e.extras)
    BY <1>1
  <2> QED BY <2>1, <2>2
<1>4. f.primary \in CursorsOf(f.text)
  BY <1>1, <1>2, UnselectedType DEF CursorsOf
<1> HIDE DEF f, xs
<1>5. IsEditor(f)
  BY <1>1, <1>2, <1>3, <1>4, IsEditorIf
<1> QED BY <1>2, <1>5 DEF Keeps, f

LEMMA ClearExtrasKeeps ==
  ASSUME NEW e, IsEditor(e)
  PROVE  Keeps(Editing!ClearExtras(e), e) /\ ~Editing!HasExtras(Editing!ClearExtras(e))
<1> DEFINE f == Editing!ClearExtras(e)
<1>1. DOMAIN f = Fields /\ f.text = e.text /\ f.primary = e.primary /\ f.extras = <<>>
  BY DEF IsEditor, IsLoose, Editing!ClearExtras, Fields
<1> HIDE DEF f
<1>2. IsEditor(f)
  BY <1>1 DEF IsEditor, IsLoose
<1> QED BY <1>1, <1>2 DEF Keeps, Editing!HasExtras, f

LEMMA WithCursorsKeeps ==
  ASSUME NEW e, IsLoose(e), NEW cs \in Seq(CursorsOf(e.text)), cs # <<>>
  PROVE  Keeps(Editing!WithCursors(e, cs), e)
<1> DEFINE f == Editing!WithCursors(e, cs)
<1>1. /\ DOMAIN f = Fields /\ f.text = e.text
      /\ f.primary = cs[1] /\ f.extras = Tail(cs)
  BY DEF IsLoose, Editing!WithCursors, Fields
<1>2. cs[1] \in CursorsOf(e.text) /\ Tail(cs) \in Seq(Cursors)
  <2>1. Tail(cs) \in Seq(CursorsOf(e.text)) /\ cs[1] \in CursorsOf(e.text)
    OBVIOUS
  <2>2. CursorsOf(e.text) \subseteq Cursors
    BY DEF CursorsOf
  <2>3. Tail(cs) \in Seq(Cursors)
    BY <2>1, <2>2
  <2> QED BY <2>1, <2>3
<1> HIDE DEF f
<1>3. IsEditor(f)
  BY <1>1, <1>2, IsEditorIf DEF IsLoose
<1> QED BY <1>1, <1>3 DEF Keeps, f

-----------------------------------------------------------------------------
(* Loops over the cursors: what each round keeps holds at the end *)

LEMMA ClampWalk ==
  ASSUME NEW e, NEW all, all = <<e.primary>> \o e.extras, Len(all) \in Nat \ {0}, NEW S, <<>> \in S,
         \A n \in 1 .. Len(all), s \in S : Editing!Joined(s, Editing!Clamped(e.text, all[n])) \in S
  PROVE  \E s \in S : Editing!ClampCursor(e) =
             Editing!WithCursors(e, Editing!Joined(s, Editing!Clamped(e.text, all[Len(all)])))
<1> DEFINE N == Len(all)
           a == <<>>
           Course(g) == [n \in 0 .. N |-> IF n = 0 THEN a
               ELSE Editing!Joined(g[n - 1], Editing!Clamped(e.text, all[n]))]
           w == CHOOSE g : g = Course(g)
           G == [n \in 1 .. N |-> [s \in S |-> Editing!Joined(s, Editing!Clamped(e.text, all[n]))]]
<1>1. /\ N \in Nat /\ a \in S
      /\ \A n \in 1 .. N, s \in S : Editing!Joined(s, Editing!Clamped(e.text, all[n])) \in S
  OBVIOUS
<1>2. \E f \in [0 .. N -> S] : f[0] = a /\ \A n \in 1 .. N : f[n] = G[n][f[n - 1]]
  <2>1. G \in Loop(N, S)
    BY <1>1 DEF Loop
  <2> HIDE DEF G, N, a
  <2>2. \E f \in [0 .. N -> S] : IsCourse(N, a, G, f)
    BY <1>1, <2>1, WalkExists
  <2> QED BY <2>2 DEF IsCourse
<1>3. \E f : f = Course(f)
  <2>1. PICK f \in [0 .. N -> S] : f[0] = a /\ \A n \in 1 .. N : f[n] = G[n][f[n - 1]]
    BY <1>2
  <2>2. ASSUME NEW n \in 1 .. N
        PROVE f[n] = Editing!Joined(f[n - 1], Editing!Clamped(e.text, all[n]))
    <3>1. n - 1 \in 0 .. N
      BY <1>1
    <3>2. f[n - 1] \in S
      BY <2>1, <3>1
    <3>3. G[n][f[n - 1]] = Editing!Joined(f[n - 1], Editing!Clamped(e.text, all[n]))
      BY <2>2, <3>2
    <3> QED BY <2>1, <3>3
  <2>3. f = [n \in 0 .. N |-> f[n]]
    BY <2>1
  <2>4. ASSUME NEW n \in 0 .. N
        PROVE f[n] = IF n = 0 THEN a ELSE Editing!Joined(f[n - 1], Editing!Clamped(e.text, all[n]))
    <3>1. n = 0 \/ n \in 1 .. N
      BY <1>1
    <3> HIDE DEF a, N
    <3> QED BY <2>1, <2>2, <3>1
  <2> HIDE DEF a, N
  <2> QED BY <2>3, <2>4
<1>4. w = Course(w)
  <2> HIDE DEF Course
  <2> QED BY <1>3
<1>5. w[0] = a /\ \A n \in 1 .. N : w[n] = Editing!Joined(w[n - 1], Editing!Clamped(e.text, all[n]))
  <2>1. \A n \in 0 .. N : Course(w)[n] = IF n = 0 THEN a
            ELSE Editing!Joined(w[n - 1], Editing!Clamped(e.text, all[n]))
    OBVIOUS
  <2>2. 0 \in 0 .. N /\ \A n \in 1 .. N : n \in 0 .. N /\ n # 0
    BY <1>1
  <2> HIDE DEF w, Course, a, N
  <2> QED BY <1>4, <2>1, <2>2
<1>6. \A n \in 0 .. N : w[n] \in S
  <2> DEFINE R == {n \in 0 .. N : w[n] \in S}
  <2> HIDE DEF w, a, N
  <2>1. 0 \in R
    BY <1>1, <1>5
  <2>2. ASSUME NEW n \in 1 .. N, n - 1 \in R PROVE n \in R
    <3>1. w[n - 1] \in S
      BY <2>2
    <3>2. w[n] = Editing!Joined(w[n - 1], Editing!Clamped(e.text, all[n]))
      BY <1>5
    <3>3. Editing!Joined(w[n - 1], Editing!Clamped(e.text, all[n])) \in S
      BY <1>1, <3>1
    <3>4. n \in 0 .. N
      BY <1>1
    <3> QED BY <3>2, <3>3, <3>4
  <2>3. 0 .. N \subseteq R
    <3> HIDE DEF R
    <3> QED BY <1>1, <2>1, <2>2, UpTo
  <2> QED BY <2>3
<1>7. Editing!ClampCursor(e) = Editing!WithCursors(e, w[N])
  BY DEF Editing!ClampCursor
<1>8. w[N - 1] \in S /\ w[N] = Editing!Joined(w[N - 1], Editing!Clamped(e.text, all[N]))
  <2>1. N - 1 \in 0 .. N /\ N \in 1 .. N
    OBVIOUS
  <2> HIDE DEF w, N
  <2> QED BY <1>5, <1>6, <2>1
<1> HIDE DEF w
<1> QED BY <1>7, <1>8

LEMMA AllCursors ==
  ASSUME NEW e, IsLoose(e)
  PROVE  /\ <<e.primary>> \o e.extras \in Seq(Cursors)
         /\ Len(<<e.primary>> \o e.extras) = Len(e.extras) + 1
<1>1. <<e.primary>> \in Seq(Cursors) /\ e.extras \in Seq(Cursors) /\ Len(<<e.primary>>) = 1
  BY LooseIs
<1> QED BY <1>1

LEMMA JoinedType ==
  ASSUME NEW X, NEW s \in Seq(X), NEW c \in X
  PROVE  Editing!Joined(s, c) \in Seq(X) /\ Editing!Joined(s, c) # <<>>
<1>1. Append(s, c) \in Seq(X) /\ Append(s, c) # <<>>
  <2>1. Append(s, c) \in Seq(X) /\ Len(s) \in Nat /\ Len(Append(s, c)) = Len(s) + 1
    OBVIOUS
  <2>2. Len(<<>>) = 0 /\ Len(Append(s, c)) # 0
    BY <2>1
  <2> QED BY <2>1, <2>2
<1>2. ASSUME NEW i \in DOMAIN s PROVE s # <<>>
  OBVIOUS
<1>3. CASE \E i \in DOMAIN s : s[i].at = c.at
  BY <1>2, <1>3 DEF Editing!Joined
<1>4. CASE ~\E i \in DOMAIN s : s[i].at = c.at
  BY <1>1, <1>4 DEF Editing!Joined
<1> QED BY <1>3, <1>4

LEMMA ClampCursorKeeps ==
  ASSUME NEW e, IsLoose(e)
  PROVE  Keeps(Editing!ClampCursor(e), e)
<1> DEFINE all == <<e.primary>> \o e.extras
           S == Seq(CursorsOf(e.text))
<1>1. all \in Seq(Cursors) /\ Len(all) \in Nat \ {0} /\ IsText(e.text)
  BY LooseIs, AllCursors
<1>2. \A n \in 1 .. Len(all) : Editing!Clamped(e.text, all[n]) \in CursorsOf(e.text)
  BY <1>1, ClampedType
<1> HIDE DEF all
<1>3. ASSUME NEW s \in S, NEW n \in 1 .. Len(all)
      PROVE  /\ Editing!Joined(s, Editing!Clamped(e.text, all[n])) \in S
             /\ Editing!Joined(s, Editing!Clamped(e.text, all[n])) # <<>>
  BY <1>2, JoinedType
<1>4. PICK s \in S : Editing!ClampCursor(e) =
               Editing!WithCursors(e, Editing!Joined(s, Editing!Clamped(e.text, all[Len(all)])))
  <2>1. <<>> \in S
    OBVIOUS
  <2> HIDE DEF S
  <2> QED BY <1>1, <1>3, <2>1, ClampWalk DEF all
<1>5. Len(all) \in 1 .. Len(all)
  BY <1>1
<1> QED BY <1>3, <1>4, <1>5, WithCursorsKeeps

LEMMA MovedToKeeps ==
  ASSUME NEW e, IsLoose(e), NEW q \in PlacesOf(e.text), NEW anchor \in Editing!Places
  PROVE  Keeps(Editing!MovedTo(e, q, anchor), e)
<1> DEFINE f == Editing!MovedTo(e, q, anchor)
<1>1. /\ DOMAIN f = Fields /\ f.text = e.text /\ f.extras = e.extras
      /\ f.primary = [at |-> q, anchor |-> anchor, preferred |-> q.column]
  BY DEF IsLoose, Editing!MovedTo, Fields
<1>2. f.primary \in CursorsOf(e.text)
  BY <1>1, OnLine DEF CursorsOf, Cursors
<1> HIDE DEF f
<1>3. IsEditor(f)
  BY <1>1, <1>2, IsEditorIf, LooseIs
<1> QED BY <1>1, <1>3 DEF Keeps, f

LEMMA MoveCursorToKeeps ==
  ASSUME NEW e, IsLoose(e), NEW p \in Editing!Places, NEW select
  PROVE  Keeps(Editing!MoveCursorTo(e, p, select), e)
<1> DEFINE anchor == IF select /\ ~e.active THEN e.primary.at ELSE e.primary.anchor
           moved == Editing!MovedTo(e, Editing!Clamp(e.text, p), anchor)
<1>1. anchor \in Editing!Places /\ Editing!Clamp(e.text, p) \in PlacesOf(e.text)
  BY LooseIs, ClampType
<1> HIDE DEF anchor
<1>2. Keeps(moved, e)
  BY <1>1, MovedToKeeps
<1> HIDE DEF moved
<1>3. Keeps(Editing!ClearSelection(moved), e)
  BY <1>2, ClearSelectionKeeps DEF Keeps
<1>4. Editing!MoveCursorTo(e, p, select) = IF select THEN moved ELSE Editing!ClearSelection(moved)
  BY DEF Editing!MoveCursorTo, moved, anchor
<1> QED BY <1>2, <1>3, <1>4

LEMMA SetCursorKeeps ==
  ASSUME NEW e, IsLoose(e), NEW p \in Editing!Places
  PROVE  Keeps(Editing!SetCursor(e, p), e)
  BY MoveCursorToKeeps DEF Editing!SetCursor

-----------------------------------------------------------------------------
(* Selections *)

SpansOf(t) == [active : BOOLEAN, full : BOOLEAN, start : PlacesOf(t), end : PlacesOf(t)]

LEMMA LastLineIs ==
  ASSUME NEW e, IsText(e.text)
  PROVE  /\ Editing!LastLine(e) \in Nat
         /\ 0 .. Editing!LastLine(e) = 0 .. Editing!LineCount(e.text) - 1
         /\ \A l \in 0 .. Editing!LastLine(e) : Editing!EndOf(e, l) \in PlacesOf(e.text)
<1>1. Editing!LastLine(e) \in Nat /\ Editing!LastLine(e) = Editing!LineCount(e.text) - 1
  BY LinesAreCounted DEF Editing!LastLine
<1>2. ASSUME NEW l \in 0 .. Editing!LineCount(e.text) - 1
      PROVE Editing!EndOf(e, l) \in PlacesOf(e.text)
  BY LineSizeIs, AtIsOnLine DEF Editing!EndOf
<1> QED BY <1>1, <1>2

LEMMA SpanOfLinesType ==
  ASSUME NEW e, IsText(e.text), NEW first \in 0 .. Editing!LastLine(e),
             NEW last \in 0 .. Editing!LastLine(e)
  PROVE  Editing!SpanOfLines(e, first, last) \in SpansOf(e.text)
<1>1. Editing!LastLine(e) \in Nat /\ Editing!LastLine(e) = Editing!LineCount(e.text) - 1
  BY LinesAreCounted DEF Editing!LastLine
<1>2. Editing!At(first, 0) \in PlacesOf(e.text) /\ Editing!EndOf(e, last) \in PlacesOf(e.text)
  BY <1>1, AtIsOnLine, LastLineIs
<1>3. ASSUME last < Editing!LastLine(e) PROVE Editing!At(last + 1, 0) \in PlacesOf(e.text)
  <2>1. last + 1 \in 0 .. Editing!LineCount(e.text) - 1
    BY <1>1, <1>3
  <2> QED BY <2>1, AtIsOnLine
<1> QED BY <1>2, <1>3 DEF Editing!SpanOfLines, Editing!Span, SpansOf

LEMMA SpanBetweenType ==
  ASSUME NEW t, NEW p \in PlacesOf(t), NEW q \in PlacesOf(t)
  PROVE  Editing!SpanBetween(p, q) \in SpansOf(t)
  BY DEF Editing!SpanBetween, Editing!Span, SpansOf

LEMMA SelectionType ==
  ASSUME NEW e, IsText(e.text), NEW c \in Cursors
  PROVE  Editing!SelectionRange(e, c) \in SpansOf(e.text)
<1> DEFINE at == Editing!Clamp(e.text, c.at)
           anchor == Editing!Clamp(e.text, c.anchor)
<1>1. at \in PlacesOf(e.text) /\ anchor \in PlacesOf(e.text)
  <2>1. c.at \in Editing!Places /\ c.anchor \in Editing!Places
    BY DEF Cursors
  <2> QED BY <2>1, ClampType
<1> HIDE DEF at, anchor
<1>2. /\ at \in Editing!Places /\ anchor \in Editing!Places
      /\ at.line \in 0 .. Editing!LastLine(e) /\ anchor.line \in 0 .. Editing!LastLine(e)
  BY <1>1, OnLine DEF Editing!LastLine
<1>3. Editing!NoSpan \in SpansOf(e.text)
  BY OriginIsOnLine DEF Editing!NoSpan, SpansOf
<1>4. Editing!SpanOfLines(e, Editing!Least(at.line, anchor.line),
          Editing!Most(at.line, anchor.line)) \in SpansOf(e.text)
  <2>1. /\ Editing!Least(at.line, anchor.line) \in 0 .. Editing!LastLine(e)
        /\ Editing!Most(at.line, anchor.line) \in 0 .. Editing!LastLine(e)
    BY <1>2 DEF Editing!Least, Editing!Most
  <2> QED BY <2>1, SpanOfLinesType
<1>5. Editing!SpanOfCharacters(e.text, Editing!SpanBetween(Editing!CharacterPosition(e.text, at),
                                           Editing!CharacterPosition(e.text, anchor)))
                                               \in SpansOf(e.text)
  <2> DEFINE s == Editing!SpanBetween(Editing!CharacterPosition(e.text, at),
                 Editing!CharacterPosition(e.text, anchor))
  <2>1. s \in SpansOf(e.text)
    BY <1>2, NextType, SpanBetweenType
  <2> HIDE DEF s
  <2>2. s.end \in Editing!Places
    BY <2>1, OnLine DEF SpansOf
  <2>3. Editing!NextPosition(e.text, s.end) \in PlacesOf(e.text)
    BY <2>2, NextType
  <2>4. [s EXCEPT !.end = Editing!NextPosition(e.text, s.end)] \in SpansOf(e.text)
    BY <2>1, <2>3 DEF SpansOf
  <2>5. Editing!SpanOfCharacters(e.text, s) \in SpansOf(e.text)
    BY <2>1, <2>4 DEF Editing!SpanOfCharacters, SpansOf
  <2> QED BY <2>5 DEF s
<1>6. Editing!SpanBetween(at, anchor) \in SpansOf(e.text)
  BY <1>1, SpanBetweenType
<1>7. Editing!SpanOf(e, at, anchor) \in SpansOf(e.text)
  BY <1>3, <1>4, <1>5, <1>6 DEF Editing!SpanOf
<1> QED BY <1>7 DEF Editing!SelectionRange, at, anchor

LEMMA SpanIs ==
  ASSUME NEW t, NEW r \in SpansOf(t)
  PROVE  /\ r.active \in BOOLEAN /\ r.start \in PlacesOf(t) /\ r.end \in PlacesOf(t)
         /\ r.start \in Editing!Places /\ r.end \in Editing!Places
         /\ r.start.line \in 0 .. Editing!LineCount(t) - 1
         /\ r.end.line \in 0 .. Editing!LineCount(t) - 1
<1>1. r.active \in BOOLEAN /\ r.start \in PlacesOf(t) /\ r.end \in PlacesOf(t)
  BY DEF SpansOf
<1> QED BY <1>1, OnLine

LEMMA SelectionIs ==
  ASSUME NEW e, IsLoose(e)
  PROVE  Editing!Selection(e) \in SpansOf(e.text)
  BY LooseIs, SelectionType DEF Editing!Selection

LEMMA NothingSelected ==
  ASSUME NEW e, ~e.active
  PROVE  ~Editing!Selection(e).active
  BY DEF Editing!Selection, Editing!SelectionRange, Editing!SpanOf, Editing!NoSpan

LEMMA SelectionLastLineType ==
  ASSUME NEW e, IsText(e.text), NEW r \in SpansOf(e.text)
  PROVE  Editing!SelectionLastLine(e, r) \in 0 .. Editing!LastLine(e)
<1>1. /\ r.start.line \in 0 .. Editing!LastLine(e) /\ r.end.line \in 0 .. Editing!LastLine(e)
      /\ Editing!LastLine(e) \in Nat
  BY SpanIs, LastLineIs
<1> QED BY <1>1 DEF Editing!SelectionLastLine, Editing!Least

-----------------------------------------------------------------------------
(* All cursors at once *)

CursorEdits == [offset : Int, anchor : Int, preferred : Int, primary : BOOLEAN]

LEMMA CollectWalk ==
  ASSUME NEW e, Len(e.extras) \in Nat, NEW S, <<Editing!CursorEdit(e.text, e.primary, TRUE)>> \in S,
         \A n \in 1 .. Len(e.extras), s \in S :
           Editing!Added(s, Editing!CursorEdit(e.text, e.extras[n], FALSE)) \in S
  PROVE  \E s \in S : Editing!CollectCursors(e) = s
<1> DEFINE N == Len(e.extras)
           a == <<Editing!CursorEdit(e.text, e.primary, TRUE)>>
           Course(g) == [n \in 0 .. N |-> IF n = 0 THEN a
               ELSE Editing!Added(g[n - 1], Editing!CursorEdit(e.text, e.extras[n], FALSE))]
           w == CHOOSE g : g = Course(g)
           G == [n \in 1 .. N |->
               [s \in S |-> Editing!Added(s, Editing!CursorEdit(e.text, e.extras[n], FALSE))]]
<1>1. /\ N \in Nat /\ a \in S
      /\ \A n \in 1 .. N, s \in S :
             Editing!Added(s, Editing!CursorEdit(e.text, e.extras[n], FALSE)) \in S
  OBVIOUS
<1>2. \E f \in [0 .. N -> S] : f[0] = a /\ \A n \in 1 .. N : f[n] = G[n][f[n - 1]]
  <2>1. G \in Loop(N, S)
    BY <1>1 DEF Loop
  <2> HIDE DEF G, N, a
  <2>2. \E f \in [0 .. N -> S] : IsCourse(N, a, G, f)
    BY <1>1, <2>1, WalkExists
  <2> QED BY <2>2 DEF IsCourse
<1>3. \E f : f = Course(f)
  <2>1. PICK f \in [0 .. N -> S] : f[0] = a /\ \A n \in 1 .. N : f[n] = G[n][f[n - 1]]
    BY <1>2
  <2>2. ASSUME NEW n \in 1 .. N
        PROVE f[n] = Editing!Added(f[n - 1], Editing!CursorEdit(e.text, e.extras[n], FALSE))
    <3>1. n - 1 \in 0 .. N
      BY <1>1
    <3>2. f[n - 1] \in S
      BY <2>1, <3>1
    <3>3. G[n][f[n - 1]] = Editing!Added(f[n - 1], Editing!CursorEdit(e.text, e.extras[n], FALSE))
      BY <2>2, <3>2
    <3> QED BY <2>1, <3>3
  <2>3. f = [n \in 0 .. N |-> f[n]]
    BY <2>1
  <2>4. ASSUME NEW n \in 0 .. N
        PROVE f[n] = IF n = 0 THEN a
                  ELSE Editing!Added(f[n - 1], Editing!CursorEdit(e.text, e.extras[n], FALSE))
    <3>1. n = 0 \/ n \in 1 .. N
      BY <1>1
    <3> HIDE DEF a, N
    <3> QED BY <2>1, <2>2, <3>1
  <2> HIDE DEF a, N
  <2> QED BY <2>3, <2>4
<1>4. w = Course(w)
  <2> HIDE DEF Course
  <2> QED BY <1>3
<1>5. w[0] = a /\ \A n \in 1 .. N :
          w[n] = Editing!Added(w[n - 1], Editing!CursorEdit(e.text, e.extras[n], FALSE))
  <2>1. \A n \in 0 .. N : Course(w)[n] = IF n = 0 THEN a
            ELSE Editing!Added(w[n - 1], Editing!CursorEdit(e.text, e.extras[n], FALSE))
    OBVIOUS
  <2>2. 0 \in 0 .. N /\ \A n \in 1 .. N : n \in 0 .. N /\ n # 0
    BY <1>1
  <2> HIDE DEF w, Course, a, N
  <2> QED BY <1>4, <2>1, <2>2
<1>6. \A n \in 0 .. N : w[n] \in S
  <2> DEFINE R == {n \in 0 .. N : w[n] \in S}
  <2> HIDE DEF w, a, N
  <2>1. 0 \in R
    BY <1>1, <1>5
  <2>2. ASSUME NEW n \in 1 .. N, n - 1 \in R PROVE n \in R
    <3>1. w[n - 1] \in S
      BY <2>2
    <3>2. w[n] = Editing!Added(w[n - 1], Editing!CursorEdit(e.text, e.extras[n], FALSE))
      BY <1>5
    <3>3. Editing!Added(w[n - 1], Editing!CursorEdit(e.text, e.extras[n], FALSE)) \in S
      BY <1>1, <3>1
    <3>4. n \in 0 .. N
      BY <1>1
    <3> QED BY <3>2, <3>3, <3>4
  <2>3. 0 .. N \subseteq R
    <3> HIDE DEF R
    <3> QED BY <1>1, <2>1, <2>2, UpTo
  <2> QED BY <2>3
<1>7. Editing!CollectCursors(e) = w[N]
  BY DEF Editing!CollectCursors
<1>8. w[N] \in S
  <2> HIDE DEF w, N
  <2> QED BY <1>1, <1>6
<1> HIDE DEF w
<1> QED BY <1>7, <1>8


LEMMA AddedType ==
  ASSUME NEW X, NEW s \in Seq(X) \ {<<>>}, NEW c \in X
  PROVE  Editing!Added(s, c) \in Seq(X) \ {<<>>}
<1>1. Append(s, c) \in Seq(X) /\ Append(s, c) # <<>>
  <2>1. Append(s, c) \in Seq(X) /\ Len(s) \in Nat /\ Len(Append(s, c)) = Len(s) + 1
    OBVIOUS
  <2>2. Len(<<>>) = 0 /\ Len(Append(s, c)) # 0
    BY <2>1
  <2> QED BY <2>1, <2>2
<1> QED BY <1>1 DEF Editing!Added

\* What holds of the edit of every cursor holds of those that are collected.
LEMMA CollectType ==
  ASSUME NEW e, IsLoose(e), NEW X, Editing!CursorEdit(e.text, e.primary, TRUE) \in X,
         \A i \in 1 .. Len(e.extras) : Editing!CursorEdit(e.text, e.extras[i], FALSE) \in X
  PROVE  Editing!CollectCursors(e) \in Seq(X) \ {<<>>}
<1> DEFINE S == Seq(X) \ {<<>>}
           first == Editing!CursorEdit(e.text, e.primary, TRUE)
<1>1. Len(e.extras) \in Nat
  BY LooseIs
<1>2. <<first>> \in S
  <2> HIDE DEF first
  <2>1. first \in X
    BY DEF first
  <2>2. <<first>> \in Seq(X) /\ Len(<<first>>) = 1 /\ Len(<<>>) = 0
    BY <2>1
  <2> QED BY <2>2
<1>3. \A n \in 1 .. Len(e.extras), s \in S :
        Editing!Added(s, Editing!CursorEdit(e.text, e.extras[n], FALSE)) \in S
  BY AddedType
<1> HIDE DEF S
<1>4. \E s \in S : Editing!CollectCursors(e) = s
  BY <1>1, <1>2, <1>3, CollectWalk DEF first
<1> QED BY <1>4 DEF S

LEMMA CursorEditType ==
  ASSUME NEW t, IsText(t), NEW c \in Cursors, NEW primary \in BOOLEAN
  PROVE  Editing!CursorEdit(t, c, primary) \in CursorEdits
<1>1. c.at \in Editing!Places /\ c.anchor \in Editing!Places /\ c.preferred \in Int
  BY DEF Cursors
<1>2. Editing!Offset(t, c.at) \in Int /\ Editing!Offset(t, c.anchor) \in Int
  BY <1>1, ClampType
<1> QED BY <1>1, <1>2 DEF Editing!CursorEdit, CursorEdits

LEMMA CollectedAreEdits ==
  ASSUME NEW e, IsLoose(e)
  PROVE  Editing!CollectCursors(e) \in Seq(CursorEdits) \ {<<>>}
<1>1. Editing!CursorEdit(e.text, e.primary, TRUE) \in CursorEdits
  BY LooseIs, CursorEditType
<1>2. \A i \in 1 .. Len(e.extras) : Editing!CursorEdit(e.text, e.extras[i], FALSE) \in CursorEdits
  BY LooseIs, CursorEditType
<1> QED BY <1>1, <1>2, CollectType

LEMMA NotEmpty ==
  ASSUME NEW X, NEW s \in Seq(X), NEW q \in Seq(X), Len(q) = Len(s), s # <<>>
  PROVE  q # <<>>
  OBVIOUS

LEMMA AscendingType ==
  ASSUME NEW X \in SUBSET CursorEdits, NEW cs \in Seq(X) \ {<<>>}
  PROVE  Editing!Ascending(cs) \in Seq(X) \ {<<>>} /\ Editing!Descending(cs) \in Seq(X) \ {<<>>}
<1> DEFINE up == [i \in DOMAIN cs |-> cs[i].offset]
           down == [i \in DOMAIN cs |-> -cs[i].offset]
<1>1. \A i \in DOMAIN cs : cs[i] \in X
  OBVIOUS
<1>2. \A i \in DOMAIN cs : cs[i].offset \in Int
  BY <1>1 DEF CursorEdits
<1>3. (\A i \in DOMAIN cs : up[i] \in Int) /\ (\A i \in DOMAIN cs : down[i] \in Int)
  BY <1>2
<1>4. IsText(cs)
  BY SequenceIsText
<1> HIDE DEF up, down
<1>5. Editing!InOrder(cs, DOMAIN cs, up) \in Seq(X)
      /\ Len(Editing!InOrder(cs, DOMAIN cs, up)) = Len(cs)
  BY <1>1, <1>3, <1>4, OrderedType
<1>6. Editing!InOrder(cs, DOMAIN cs, down) \in Seq(X)
      /\ Len(Editing!InOrder(cs, DOMAIN cs, down)) = Len(cs)
  BY <1>1, <1>3, <1>4, OrderedType
<1>7. Editing!InOrder(cs, DOMAIN cs, up) # <<>> /\ Editing!InOrder(cs, DOMAIN cs, down) # <<>>
  BY <1>5, <1>6, NotEmpty
<1>8. Editing!Ascending(cs) = Editing!InOrder(cs, DOMAIN cs, up)
      /\ Editing!Descending(cs) = Editing!InOrder(cs, DOMAIN cs, down)
  BY DEF Editing!Ascending, Editing!Descending, up, down
<1> QED BY <1>5, <1>6, <1>7, <1>8

LEMMA StoredType ==
  ASSUME NEW t, IsText(t), NEW c \in CursorEdits
  PROVE  Editing!Stored(t, c) \in CursorsOf(t)
<1>1. c.offset \in Int /\ c.anchor \in Int /\ c.preferred \in Int
  BY DEF CursorEdits
<1>2. Editing!Position(t, c.offset) \in PlacesOf(t) /\ Editing!Position(t, c.anchor) \in PlacesOf(t)
  BY <1>1, PositionType
<1> QED BY <1>1, <1>2, OnLine DEF Editing!Stored, CursorsOf, Cursors

LEMMA StoredInOrderKeeps ==
  ASSUME NEW e, IsLoose(e), NEW cs \in Seq(CursorEdits) \ {<<>>}
  PROVE  Keeps(Editing!StoredInOrder(e, cs), e)
<1> DEFINE f == Editing!StoredInOrder(e, cs)
           first == IF \E i \in DOMAIN cs : cs[i].primary
                    THEN CHOOSE i \in DOMAIN cs : cs[i].primary ELSE 1
           all == [i \in DOMAIN cs |-> Editing!Stored(e.text, cs[i])]
           others == Editing!Those(all, {i \in DOMAIN cs : all[i].at # all[first].at})
<1>1. first \in DOMAIN cs /\ DOMAIN cs = 1 .. Len(cs) /\ Len(cs) \in Nat
  OBVIOUS
<1> HIDE DEF first
<1>2. \A i \in DOMAIN cs : all[i] \in CursorsOf(e.text)
  <2>1. \A i \in DOMAIN cs : cs[i] \in CursorEdits
    OBVIOUS
  <2> QED BY <2>1, StoredType, LooseIs
<1> HIDE DEF all
<1>3. others \in Seq(Cursors)
  <2> DEFINE S == {i \in DOMAIN cs : all[i].at # all[first].at}
  <2>1. S \in SUBSET (1 .. Len(cs)) /\ \A i \in S : all[i] \in Cursors
    BY <1>1, <1>2 DEF CursorsOf
  <2> HIDE DEF S
  <2>2. Editing!Those(all, S) \in Seq(Cursors)
    BY <1>1, <2>1, ThoseType
  <2> QED BY <2>2 DEF S
<1> HIDE DEF others
<1>4. /\ DOMAIN f = Fields /\ f.text = e.text
      /\ f.primary = all[first] /\ f.extras = others
  BY DEF Editing!StoredInOrder, IsLoose, Fields, first, all, others
<1> HIDE DEF f
<1>5. IsEditor(f)
  BY <1>1, <1>2, <1>3, <1>4, IsEditorIf, LooseIs
<1> QED BY <1>4, <1>5 DEF Keeps, f

LEMMA KeepsTwice ==
  ASSUME NEW e, NEW f, NEW g, Keeps(f, e), Keeps(g, f)
  PROVE  Keeps(g, e)
  BY DEF Keeps

LEMMA KeepsIs ==
  ASSUME NEW e, NEW f, Keeps(f, e)
  PROVE  IsEditor(f) /\ IsLoose(f) /\ f.text = e.text
  BY DEF Keeps, IsEditor

\* Fields other than the text and the cursors say nothing of either.
LEMMA OthersKeep ==
  ASSUME NEW e, NEW f, IsEditor(e), DOMAIN f = Fields,
         f.text = e.text, f.primary = e.primary, f.extras = e.extras
  PROVE  Keeps(f, e)
  BY DEF Keeps, IsEditor, IsLoose

LEMMA StoreCursorsKeeps ==
  ASSUME NEW e, IsLoose(e), NEW cs \in Seq(CursorEdits) \ {<<>>}, NEW clear
  PROVE  Keeps(Editing!StoreCursors(e, cs, clear), e)
<1> DEFINE stored == Editing!StoredInOrder(e, Editing!Ascending(cs))
<1>1. Editing!Ascending(cs) \in Seq(CursorEdits) \ {<<>>}
  BY AscendingType
<1>2. Keeps(stored, e)
  BY <1>1, StoredInOrderKeeps
<1> HIDE DEF stored
<1>3. Keeps(Editing!ClampCursor(Editing!ClearSelection(stored)), e)
  BY <1>2, KeepsIs, KeepsTwice, ClearSelectionKeeps, ClampCursorKeeps
<1>4. Keeps(Editing!ClampCursor(stored), e)
  BY <1>2, KeepsIs, KeepsTwice, ClampCursorKeeps
<1> DEFINE c == Editing!ClampCursor(stored)
           f == [c EXCEPT !.active = stored.active]
<1> HIDE DEF c
<1>5. Keeps(f, c)
  <2>1. IsEditor(c) /\ DOMAIN c = Fields
    BY <1>4, KeepsIs, LooseIs DEF c
  <2>2. DOMAIN f = Fields /\ f.text = c.text /\ f.primary = c.primary /\ f.extras = c.extras
    BY <2>1 DEF Fields
  <2> HIDE DEF f
  <2> QED BY <2>1, <2>2, OthersKeep
<1>6. Keeps(f, e)
  BY <1>4, <1>5, KeepsTwice DEF c
<1>7. Editing!StoreCursors(e, cs, clear) = IF clear
          THEN Editing!ClampCursor(Editing!ClearSelection(stored)) ELSE f
  BY DEF Editing!StoreCursors, c, stored
<1> HIDE DEF f
<1> QED BY <1>3, <1>6, <1>7

-----------------------------------------------------------------------------
(* Moves keep the text *)

LEMMA MappedType ==
  ASSUME NEW X, NEW Y, NEW s \in Seq(X) \ {<<>>}, NEW f, f = [i \in DOMAIN s |-> f[i]],
         \A i \in DOMAIN s : f[i] \in Y
  PROVE  f \in Seq(Y) \ {<<>>}
<1>1. Len(s) \in Nat /\ DOMAIN s = 1 .. Len(s) /\ Len(s) # 0
  OBVIOUS
<1>2. f \in [1 .. Len(s) -> Y]
  BY <1>1
<1>3. f \in Seq(Y) /\ Len(f) = Len(s) /\ Len(<<>>) = 0
  BY <1>1, <1>2
<1> QED BY <1>1, <1>3

LEMMA CursorEditMoves ==
  ASSUME NEW c \in CursorEdits, NEW o \in Int, NEW p \in Int
  PROVE  [c EXCEPT !.offset = o, !.preferred = p] \in CursorEdits
  BY DEF CursorEdits

LEMMA MoveAllByKeeps ==
  ASSUME NEW e, IsLoose(e), NEW to, \A p \in PlacesOf(e.text) : to[p] \in Editing!Places, NEW select
  PROVE  Keeps(Editing!MoveAllBy(e, to, select), e)
<1> DEFINE cs == Editing!CollectCursors(e)
           Goal(c) == to[Editing!Position(e.text, c.offset)]
           moved ==
               [i \in DOMAIN cs |-> [cs[i] EXCEPT !.offset = Editing!Offset(e.text, Goal(cs[i])),
                                                       !.preferred = Goal(cs[i]).column]]
<1>1. cs \in Seq(CursorEdits) \ {<<>>}
  BY CollectedAreEdits
<1> HIDE DEF cs
<1>2. ASSUME NEW i \in DOMAIN cs PROVE moved[i] \in CursorEdits
  <2>1. cs[i] \in CursorEdits
    BY <1>1
  <2>2. cs[i].offset \in Int
    BY <2>1 DEF CursorEdits
  <2>3. Goal(cs[i]) \in Editing!Places
    BY <2>2, PositionType, LooseIs
  <2>4. Editing!Offset(e.text, Goal(cs[i])) \in Int /\ Goal(cs[i]).column \in Int
    BY <2>3, ClampType, PlaceIsPlace, LooseIs
  <2> HIDE DEF Goal
  <2> QED BY <2>1, <2>4, CursorEditMoves
<1>3. moved = [i \in DOMAIN cs |-> moved[i]]
  OBVIOUS
<1>4. Editing!MoveAllBy(e, to, select) = Editing!StoreCursors(e, moved, ~select)
  BY DEF Editing!MoveAllBy, cs
<1> HIDE DEF moved
<1>5. moved \in Seq(CursorEdits) \ {<<>>}
  BY <1>1, <1>2, <1>3, MappedType
<1> QED BY <1>4, <1>5, StoreCursorsKeeps

LEMMA MoveByKeeps ==
  ASSUME NEW e, IsEditor(e), NEW to, \A p \in PlacesOf(e.text) :
             to[p] \in Editing!Places, NEW select
  PROVE  Keeps(Editing!MoveBy(e, to, select), e)
<1>1. IsLoose(e) /\ to[e.primary.at] \in Editing!Places
  BY EditorIsLoose
<1>2. Keeps(Editing!MoveAllBy(e, to, select), e)
  BY <1>1, MoveAllByKeeps
<1>3. Keeps(Editing!MoveCursorTo(e, to[e.primary.at], select), e)
  BY <1>1, MoveCursorToKeeps
<1> QED BY <1>2, <1>3 DEF Editing!MoveBy

LEMMA LineBeside ==
  ASSUME NEW e, IsText(e.text), NEW l \in Nat, NEW delta \in Int
  PROVE  Editing!Least(Editing!Most(l + delta, 0), Editing!LastLine(e))
             \in 0 .. Editing!LineCount(e.text) - 1
<1>1. Editing!LastLine(e) \in Nat /\ Editing!LastLine(e) = Editing!LineCount(e.text) - 1
  BY LinesAreCounted DEF Editing!LastLine
<1> QED BY <1>1 DEF Editing!Least, Editing!Most

LEMMA MoveAllVerticalKeeps ==
  ASSUME NEW e, IsLoose(e), NEW delta \in Int, NEW select
  PROVE  Keeps(Editing!MoveAllVertical(e, delta, select), e)
<1> DEFINE cs == Editing!CollectCursors(e)
           Goal(c) ==
               Editing!Least(Editing!Most(Editing!Position(e.text, c.offset).line + delta, 0),
                   Editing!LastLine(e))
           Place(c) == Editing!Offset(e.text, Editing!InLine(e.text, Goal(c), c.preferred))
           moved == [i \in DOMAIN cs |-> [cs[i] EXCEPT !.offset = Place(cs[i])]]
<1>1. cs \in Seq(CursorEdits) \ {<<>>}
  BY CollectedAreEdits
<1> HIDE DEF cs
<1>2. ASSUME NEW i \in DOMAIN cs PROVE moved[i] \in CursorEdits
  <2>1. cs[i] \in CursorEdits
    BY <1>1
  <2>2. cs[i].offset \in Int /\ cs[i].preferred \in Int
    BY <2>1 DEF CursorEdits
  <2>3. Editing!Position(e.text, cs[i].offset).line \in Nat
    BY <2>2, PositionType, LooseIs, OnLine
  <2>4. Goal(cs[i]) \in 0 .. Editing!LineCount(e.text) - 1
    BY <2>3, LineBeside, LooseIs
  <2> HIDE DEF Goal
  <2>5. Editing!InLine(e.text, Goal(cs[i]), cs[i].preferred) \in Editing!Places
    BY <2>2, <2>4, InLineIs, LooseIs, OnLine
  <2>6. Place(cs[i]) \in Int
    BY <2>5, ClampType, LooseIs
  <2> HIDE DEF Place
  <2> QED BY <2>1, <2>6 DEF CursorEdits
<1>3. moved = [i \in DOMAIN cs |-> moved[i]]
  OBVIOUS
<1>4. Editing!MoveAllVertical(e, delta, select) = Editing!StoreCursors(e, moved, ~select)
  BY DEF Editing!MoveAllVertical, cs
<1> HIDE DEF moved
<1>5. moved \in Seq(CursorEdits) \ {<<>>}
  BY <1>1, <1>2, <1>3, MappedType
<1> QED BY <1>4, <1>5, StoreCursorsKeeps

LEMMA PreferredKeeps ==
  ASSUME NEW e, IsEditor(e), NEW n \in Int
  PROVE  Keeps([e EXCEPT !.primary.preferred = n], e)
<1> DEFINE f == [e EXCEPT !.primary.preferred = n]
<1>1. /\ DOMAIN f = Fields /\ f.text = e.text /\ f.extras = e.extras
      /\ f.primary = [e.primary EXCEPT !.preferred = n]
  BY DEF IsEditor, IsLoose, Fields
<1>2. [e.primary EXCEPT !.preferred = n] \in CursorsOf(e.text)
  BY EditorIsLoose DEF CursorsOf, Cursors
<1> HIDE DEF f
<1>3. IsEditor(f)
  BY <1>1, <1>2, IsEditorIf, EditorIsLoose, LooseIs
<1> QED BY <1>1, <1>3 DEF Keeps, f

LEMMA MoveVerticalKeeps ==
  ASSUME NEW e, IsEditor(e), NEW delta \in Int, NEW select
  PROVE  Keeps(Editing!MoveVertical(e, delta, select), e)
<1> DEFINE l == Editing!Least(Editing!Most(e.primary.at.line + delta, 0), Editing!LastLine(e))
           moved == Editing!MoveCursorTo(e, Editing!InLine(e.text, l, e.primary.preferred), select)
<1>1. IsLoose(e) /\ IsText(e.text) /\ e.primary.at.line \in Nat /\ e.primary.preferred \in Int
  BY EditorIsLoose, LooseIs, OnLine
<1>2. l \in 0 .. Editing!LineCount(e.text) - 1
  BY <1>1, LineBeside
<1> HIDE DEF l
<1>3. Editing!InLine(e.text, l, e.primary.preferred) \in Editing!Places
  BY <1>1, <1>2, InLineIs, OnLine
<1>4. Keeps(moved, e)
  BY <1>1, <1>3, MoveCursorToKeeps
<1> HIDE DEF moved
<1>5. Keeps([moved EXCEPT !.primary.preferred = e.primary.preferred], e)
  BY <1>1, <1>4, KeepsIs, KeepsTwice, PreferredKeeps
<1>6. Keeps(Editing!MoveAllVertical(e, delta, select), e)
  BY <1>1, MoveAllVerticalKeeps
<1> QED BY <1>5, <1>6 DEF Editing!MoveVertical, moved, l

LEMMA MoveAllToEdgeKeeps ==
  ASSUME NEW e, IsLoose(e), NEW select
  PROVE  /\ Keeps(Editing!MoveAllLineStart(e, select), e)
         /\ Keeps(Editing!MoveAllLineEnd(e, select), e)
<1> DEFINE start == [p \in Editing!Places |-> Editing!At(p.line, 0)]
           end == [p \in Editing!Places |-> Editing!EndOf(e, p.line)]
<1>1. ASSUME NEW p \in PlacesOf(e.text)
      PROVE start[p] \in Editing!Places /\ end[p] \in Editing!Places
  <2>1. p \in Editing!Places /\ p.line \in Nat /\ p.line \in 0 .. Editing!LastLine(e)
    BY OnLine, LastLineIs, LooseIs
  <2>2. Editing!At(p.line, 0) \in Editing!Places /\ Editing!EndOf(e, p.line) \in Editing!Places
    BY <2>1, AtIsPlace, LastLineIs, OnLine, LooseIs
  <2> QED BY <2>1, <2>2
<1>2. /\ Editing!MoveAllLineStart(e, select) = Editing!MoveAllBy(e, start, select)
      /\ Editing!MoveAllLineEnd(e, select) = Editing!MoveAllBy(e, end, select)
  BY DEF Editing!MoveAllLineStart, Editing!MoveAllLineEnd
<1> HIDE DEF start, end
<1> QED BY <1>1, <1>2, MoveAllByKeeps

LEMMA MoveToEdgeKeeps ==
  ASSUME NEW e, IsEditor(e), NEW select
  PROVE  Keeps(Editing!MoveLineStart(e, select), e) /\ Keeps(Editing!MoveLineEnd(e, select), e)
<1>1. IsLoose(e) /\ IsText(e.text) /\ e.primary.at.line \in 0 .. Editing!LastLine(e)
      /\ Editing!LastLine(e) \in Nat
  BY EditorIsLoose, LooseIs, LastLineIs
<1>2. Editing!At(e.primary.at.line, 0) \in Editing!Places
      /\ Editing!EndOf(e, e.primary.at.line) \in Editing!Places
  <2>1. e.primary.at.line \in Nat
    BY <1>1
  <2> QED BY <1>1, <2>1, AtIsPlace, LastLineIs, OnLine
<1>3. /\ Keeps(Editing!MoveCursorTo(e, Editing!At(e.primary.at.line, 0), select), e)
      /\ Keeps(Editing!MoveCursorTo(e, Editing!EndOf(e, e.primary.at.line), select), e)
  BY <1>1, <1>2, MoveCursorToKeeps
<1> QED BY <1>1, <1>3, MoveAllToEdgeKeeps DEF Editing!MoveLineStart, Editing!MoveLineEnd

LEMMA AddCursorKeeps ==
  ASSUME NEW e, IsEditor(e), NEW direction \in Int
  PROVE  Keeps(Editing!AddCursorLine(e, direction), e)
<1> DEFINE cs == Editing!Ascending(Editing!CollectCursors(e))
           edge == cs[IF direction > 0 THEN Len(cs) ELSE 1]
           l == Editing!Position(e.text, edge.offset).line + direction
           offset == Editing!Offset(e.text, Editing!InLine(e.text, l, edge.preferred))
           new == [offset |-> offset, anchor |-> 0, preferred |-> edge.preferred, primary |-> FALSE]
<1>1. IsLoose(e) /\ IsText(e.text) /\ Editing!LastLine(e) \in Nat
      /\ Editing!LastLine(e) = Editing!LineCount(e.text) - 1
  BY EditorIsLoose, LooseIs, LastLineIs DEF Editing!LastLine
<1>2. cs \in Seq(CursorEdits) \ {<<>>}
  BY <1>1, CollectedAreEdits, AscendingType
<1> HIDE DEF cs
<1>3. edge \in CursorEdits
  BY <1>2
<1> HIDE DEF edge
<1>4. l \in Int /\ edge.preferred \in Int
  <2>1. edge.offset \in Int /\ edge.preferred \in Int
    BY <1>3 DEF CursorEdits
  <2>2. Editing!Position(e.text, edge.offset).line \in Nat
    BY <1>1, <2>1, PositionType, OnLine
  <2> QED BY <2>1, <2>2
<1> HIDE DEF l
<1>5. ASSUME ~(l < 0 \/ l > Editing!LastLine(e))
      PROVE Keeps(Editing!StoreCursors(e, Append(cs, new), TRUE), e)
  <2>1. l \in 0 .. Editing!LineCount(e.text) - 1
    BY <1>1, <1>4, <1>5
  <2>2. offset \in Int
    BY <1>1, <1>4, <2>1, InLineIs, OnLine, ClampType
  <2>3. new \in CursorEdits
    BY <1>4, <2>2 DEF CursorEdits
  <2> HIDE DEF new
  <2>4. Append(cs, new) \in Seq(CursorEdits) \ {<<>>}
    <3>1. Append(cs, new) \in Seq(CursorEdits) /\ Len(Append(cs, new)) = Len(cs) + 1
      BY <1>2, <2>3
    <3>2. Len(cs) \in Nat /\ Len(<<>>) = 0
      BY <1>2
    <3> QED BY <3>1, <3>2
  <2> QED BY <1>1, <2>4, StoreCursorsKeeps
<1>6. Keeps(e, e)
  BY DEF Keeps
<1> HIDE DEF new
<1>7. Editing!AddCursorLine(e, direction) \in {e, Editing!StoreCursors(e, Append(cs, new), TRUE)}
  BY DEF Editing!AddCursorLine, Editing!AddCursorBeside, Editing!AddCursorIn, cs, edge, l, new
<1>8. ASSUME l < 0 \/ l > Editing!LastLine(e) PROVE Editing!AddCursorLine(e, direction) = e
  BY <1>8 DEF Editing!AddCursorLine, Editing!AddCursorBeside, Editing!AddCursorIn, cs, edge, l
<1> QED BY <1>5, <1>6, <1>7, <1>8

LEMMA SetVisualModeKeeps ==
  ASSUME NEW e, IsEditor(e), NEW mode
  PROVE  Keeps(Editing!SetVisualMode(e, mode), e)
<1> DEFINE c == Editing!ClearSelection(e)
           f == [c EXCEPT !.mode = mode, !.active = TRUE]
<1>1. Keeps(c, e) /\ IsEditor(c)
  BY ClearSelectionKeeps, KeepsIs
<1> HIDE DEF c
<1>2. DOMAIN f = Fields /\ f.text = c.text /\ f.primary = c.primary /\ f.extras = c.extras
  BY <1>1 DEF IsEditor, IsLoose, Fields
<1>3. Keeps([c EXCEPT !.mode = mode, !.active = TRUE], e)
  <2> HIDE DEF f
  <2>1. Keeps(f, c)
    BY <1>1, <1>2, OthersKeep
  <2> QED BY <1>1, <2>1, KeepsTwice DEF f
<1> QED BY <1>1, <1>3 DEF Editing!SetVisualMode, c

LEMMA SelectAllKeeps ==
  ASSUME NEW e, IsEditor(e)
  PROVE  Keeps(Editing!SelectAll(e), e)
<1> DEFINE end == Editing!EndOf(e, Editing!LastLine(e))
           f == Editing!SelectAll(e)
<1>1. IsText(e.text) /\ DOMAIN e = Fields
  BY EditorIsLoose, LooseIs
<1>2. end \in PlacesOf(e.text) /\ Editing!Origin \in Editing!Places
  BY <1>1, LastLineIs, OriginIsOnLine, OnLine
<1> HIDE DEF end
<1>3. /\ DOMAIN f = Fields /\ f.text = e.text /\ f.extras = <<>>
      /\ f.primary = [at |-> end, anchor |-> Editing!Origin, preferred |-> end.column]
  BY <1>1 DEF Editing!SelectAll, Editing!ClearExtras, Fields, end
<1>4. f.primary \in CursorsOf(e.text)
  BY <1>2, <1>3, OnLine DEF CursorsOf, Cursors
<1> HIDE DEF f
<1>5. <<>> \in Seq(Cursors)
  OBVIOUS
<1>6. IsEditor(f)
  BY <1>1, <1>3, <1>4, <1>5, IsEditorIf
<1> QED BY <1>3, <1>6 DEF Keeps, f

LEMMA EnterInsertKeeps ==
  ASSUME NEW e, IsLoose(e), NEW p \in Editing!Places
  PROVE  Keeps(Editing!EnterInsertAt(e, p), e)
<1> DEFINE f == [e EXCEPT !.insert = TRUE, !.pendingD = FALSE]
<1>1. IsLoose(f) /\ f.text = e.text
  BY DEF IsLoose, Fields
<1> HIDE DEF f
<1>2. Keeps(Editing!SetCursor(f, p), f)
  BY <1>1, SetCursorKeeps
<1> QED BY <1>1, <1>2 DEF Keeps, Editing!EnterInsertAt, f

\* Where an arrow leads from a place of the text.
LEMMA ArrowKeeps ==
  ASSUME NEW e, IsEditor(e), NEW move \in Editing!Arrows, NEW select
  PROVE  Keeps(Editing!Arrow(e, move, select), e)
<1> DEFINE left == [p \in Editing!Places |-> Editing!PreviousPosition(e.text, p)]
           right == [p \in Editing!Places |-> Editing!NextPosition(e.text, p)]
           wordLeft == [p \in Editing!Places |-> Editing!PreviousWord(e.text, p)]
           wordRight == [p \in Editing!Places |-> Editing!NextWord(e.text, p)]
           r == Editing!Selection(e)
           edge == IF move \in {"LEFT", "WORD_LEFT", "UP"} THEN r.start ELSE r.end
<1>1. IsLoose(e) /\ IsText(e.text)
  BY EditorIsLoose, LooseIs
<1>2. ASSUME NEW p \in PlacesOf(e.text)
      PROVE  /\ left[p] \in Editing!Places /\ right[p] \in Editing!Places
             /\ wordLeft[p] \in Editing!Places /\ wordRight[p] \in Editing!Places
  <2>1. p \in Editing!Places
    BY OnLine
  <2>2. /\ Editing!PreviousPosition(e.text, p) \in Editing!Places
        /\ Editing!NextPosition(e.text, p) \in Editing!Places
        /\ Editing!PreviousWord(e.text, p) \in Editing!Places
        /\ Editing!NextWord(e.text, p) \in Editing!Places
    BY <1>1, <2>1, PreviousType, NextType, WordType, OnLine
  <2> QED BY <2>1, <2>2
<1> HIDE DEF left, right, wordLeft, wordRight
<1>3. /\ Keeps(Editing!MoveBy(e, left, select), e) /\ Keeps(Editing!MoveBy(e, right, select), e)
      /\ Keeps(Editing!MoveBy(e, wordLeft, select), e)
      /\ Keeps(Editing!MoveBy(e, wordRight, select), e)
  BY <1>2, MoveByKeeps
<1>4. Keeps(Editing!MoveVertical(e, -1, select), e) /\ Keeps(Editing!MoveVertical(e, 1, select), e)
  BY MoveVerticalKeeps
<1>5. Keeps(Editing!SetCursor(e, edge), e)
  <2>1. r.start \in Editing!Places /\ r.end \in Editing!Places
    BY <1>1, SelectionIs, SpanIs
  <2> HIDE DEF r
  <2>2. edge \in Editing!Places
    BY <2>1
  <2> HIDE DEF edge
  <2> QED BY <1>1, <2>2, SetCursorKeeps
<1>6. CASE ~select /\ r.active
  BY <1>5, <1>6 DEF Editing!Arrow
<1>7. CASE ~(~select /\ r.active)
  <2>1. Editing!Arrow(e, move, select) \in
          {Editing!MoveBy(e, left, select), Editing!MoveBy(e, right, select),
              Editing!MoveBy(e, wordLeft, select),
           Editing!MoveBy(e, wordRight, select), Editing!MoveVertical(e, -1, select),
               Editing!MoveVertical(e, 1, select)}
    BY <1>7 DEF Editing!Arrow, Editing!Arrows, left, right, wordLeft, wordRight
  <2> HIDE DEF r, edge
  <2> QED BY <1>3, <1>4, <2>1
<1> QED BY <1>6, <1>7

-----------------------------------------------------------------------------
(* Loops of the edits *)

LEMMA InsertWalk ==
  ASSUME NEW e, NEW value, NEW b, b = Editing!Begun(e), Len(b.cursors) \in Nat
  PROVE  \E w : /\ w[0] = b
                /\ \A n \in 1 .. Len(b.cursors) :
                       w[n] = Editing!InsertedAt(w[n - 1], n, value, Len(value))
                /\ Editing!InsertAtAll(e, value) = Editing!Edited(e, w[Len(b.cursors)])
<1> DEFINE N == Len(b.cursors)
           a == b
           Course(g) == [n \in 0 .. N |-> IF n = 0 THEN a
               ELSE Editing!InsertedAt(g[n - 1], n, value, Len(value))]
           w == CHOOSE g : g = Course(g)
           Round(f, m) == f[0] = a
           /\ \A n \in 1 .. m : f[n] = Editing!InsertedAt(f[n - 1], n, value, Len(value))
           R == {m \in 0 .. N : \E f : Round(f, m)}
<1>1. N \in Nat
  OBVIOUS
<1> HIDE DEF N, a
<1>2. \E f : Round(f, N)
  <2>1. 0 \in R
    <3> DEFINE f == [n \in 0 .. 0 |-> a]
    <3>1. Round(f, 0)
      OBVIOUS
    <3> HIDE DEF f, Round
    <3> QED BY <1>1, <3>1
  <2>2. ASSUME NEW m \in 1 .. N, m - 1 \in R PROVE m \in R
    <3>1. PICK f : Round(f, m - 1)
      BY <2>2
    <3> DEFINE n == m
               next == Editing!InsertedAt(f[n - 1], n, value, Len(value))
               g == [k \in 0 .. m |-> IF k = m THEN next ELSE f[k]]
    <3> HIDE DEF next
    <3>2. /\ m \in Nat /\ m # 0 /\ g[0] = f[0] /\ g[m] = next /\ m \in 0 .. N
          /\ \A k \in 0 .. m - 1 : g[k] = f[k]
      BY <1>1
    <3> HIDE DEF g
    <3>3. ASSUME NEW k \in 1 .. m PROVE g[k] = Editing!InsertedAt(g[k - 1], k, value, Len(value))
      <4>1. CASE k = m
        <5>1. g[k - 1] = f[k - 1]
          BY <3>2, <4>1
        <5> QED BY <3>2, <4>1, <5>1 DEF next
      <4>2. CASE k # m
        <5>1. g[k] = f[k] /\ g[k - 1] = f[k - 1] /\ k \in 1 .. m - 1
          BY <3>2, <4>2
        <5> QED BY <3>1, <5>1
      <4> QED BY <4>1, <4>2
    <3>4. Round(g, m)
      BY <3>1, <3>2, <3>3
    <3> HIDE DEF Round
    <3> QED BY <3>2, <3>4
  <2>3. 0 .. N \subseteq R
    <3> HIDE DEF R
    <3> QED BY <1>1, <2>1, <2>2, UpTo
  <2>4. N \in 0 .. N
    BY <1>1
  <2> HIDE DEF Round
  <2> QED BY <2>3, <2>4
<1>3. \E f : f = Course(f)
  <2>1. PICK f : Round(f, N)
    BY <1>2
  <2> DEFINE g == [n \in 0 .. N |-> f[n]]
  <2>2. ASSUME NEW n \in 0 .. N
        PROVE g[n] = IF n = 0 THEN a ELSE Editing!InsertedAt(g[n - 1], n, value, Len(value))
    <3>1. CASE n = 0
      BY <2>1, <3>1
    <3>2. CASE n # 0
      <4>1. n \in 1 .. N /\ n - 1 \in 0 .. N
        BY <1>1, <3>2
      <4>2. g[n] = f[n] /\ g[n - 1] = f[n - 1]
        BY <4>1
      <4> HIDE DEF g
      <4> QED BY <2>1, <3>2, <4>1, <4>2
    <3> QED BY <3>1, <3>2
  <2>3. g = Course(g)
    BY <2>2
  <2> QED BY <2>3
<1>4. w = Course(w)
  <2> HIDE DEF Course
  <2> QED BY <1>3
<1>5. w[0] = a /\ \A n \in 1 .. N : w[n] = Editing!InsertedAt(w[n - 1], n, value, Len(value))
  <2>1. \A n \in 0 .. N : Course(w)[n] = IF n = 0 THEN a
            ELSE Editing!InsertedAt(w[n - 1], n, value, Len(value))
    OBVIOUS
  <2>2. 0 \in 0 .. N /\ \A n \in 1 .. N : n \in 0 .. N /\ n # 0
    BY <1>1
  <2> HIDE DEF w, Course
  <2> QED BY <1>4, <2>1, <2>2
<1>6. Editing!InsertAtAll(e, value) = Editing!Edited(e, w[N])
  BY DEF Editing!InsertAtAll, N, a
<1> HIDE DEF w
<1> QED BY <1>5, <1>6 DEF N, a

LEMMA BackspaceWalk ==
  ASSUME NEW e, NEW b, b = Editing!Begun(e), Len(b.cursors) \in Nat
  PROVE  \E w : /\ w[0] = b
                /\ \A n \in 1 .. Len(b.cursors) : w[n] = Editing!BackspacedAt(w[n - 1], n)
                /\ Editing!BackspaceAtAll(e) = Editing!Edited(e, w[Len(b.cursors)])
<1> DEFINE N == Len(b.cursors)
           a == b
           Course(g) == [n \in 0 .. N |-> IF n = 0 THEN a ELSE Editing!BackspacedAt(g[n - 1], n)]
           w == CHOOSE g : g = Course(g)
           Round(f, m) == f[0] = a /\ \A n \in 1 .. m : f[n] = Editing!BackspacedAt(f[n - 1], n)
           R == {m \in 0 .. N : \E f : Round(f, m)}
<1>1. N \in Nat
  OBVIOUS
<1> HIDE DEF N, a
<1>2. \E f : Round(f, N)
  <2>1. 0 \in R
    <3> DEFINE f == [n \in 0 .. 0 |-> a]
    <3>1. Round(f, 0)
      OBVIOUS
    <3> HIDE DEF f, Round
    <3> QED BY <1>1, <3>1
  <2>2. ASSUME NEW m \in 1 .. N, m - 1 \in R PROVE m \in R
    <3>1. PICK f : Round(f, m - 1)
      BY <2>2
    <3> DEFINE n == m
               next == Editing!BackspacedAt(f[n - 1], n)
               g == [k \in 0 .. m |-> IF k = m THEN next ELSE f[k]]
    <3> HIDE DEF next
    <3>2. /\ m \in Nat /\ m # 0 /\ g[0] = f[0] /\ g[m] = next /\ m \in 0 .. N
          /\ \A k \in 0 .. m - 1 : g[k] = f[k]
      BY <1>1
    <3> HIDE DEF g
    <3>3. ASSUME NEW k \in 1 .. m PROVE g[k] = Editing!BackspacedAt(g[k - 1], k)
      <4>1. CASE k = m
        <5>1. g[k - 1] = f[k - 1]
          BY <3>2, <4>1
        <5> QED BY <3>2, <4>1, <5>1 DEF next
      <4>2. CASE k # m
        <5>1. g[k] = f[k] /\ g[k - 1] = f[k - 1] /\ k \in 1 .. m - 1
          BY <3>2, <4>2
        <5> QED BY <3>1, <5>1
      <4> QED BY <4>1, <4>2
    <3>4. Round(g, m)
      BY <3>1, <3>2, <3>3
    <3> HIDE DEF Round
    <3> QED BY <3>2, <3>4
  <2>3. 0 .. N \subseteq R
    <3> HIDE DEF R
    <3> QED BY <1>1, <2>1, <2>2, UpTo
  <2>4. N \in 0 .. N
    BY <1>1
  <2> HIDE DEF Round
  <2> QED BY <2>3, <2>4
<1>3. \E f : f = Course(f)
  <2>1. PICK f : Round(f, N)
    BY <1>2
  <2> DEFINE g == [n \in 0 .. N |-> f[n]]
  <2>2. ASSUME NEW n \in 0 .. N PROVE g[n] = IF n = 0 THEN a ELSE Editing!BackspacedAt(g[n - 1], n)
    <3>1. CASE n = 0
      BY <2>1, <3>1
    <3>2. CASE n # 0
      <4>1. n \in 1 .. N /\ n - 1 \in 0 .. N
        BY <1>1, <3>2
      <4>2. g[n] = f[n] /\ g[n - 1] = f[n - 1]
        BY <4>1
      <4> HIDE DEF g
      <4> QED BY <2>1, <3>2, <4>1, <4>2
    <3> QED BY <3>1, <3>2
  <2>3. g = Course(g)
    BY <2>2
  <2> QED BY <2>3
<1>4. w = Course(w)
  <2> HIDE DEF Course
  <2> QED BY <1>3
<1>5. w[0] = a /\ \A n \in 1 .. N : w[n] = Editing!BackspacedAt(w[n - 1], n)
  <2>1. \A n \in 0 .. N : Course(w)[n] = IF n = 0 THEN a ELSE Editing!BackspacedAt(w[n - 1], n)
    OBVIOUS
  <2>2. 0 \in 0 .. N /\ \A n \in 1 .. N : n \in 0 .. N /\ n # 0
    BY <1>1
  <2> HIDE DEF w, Course
  <2> QED BY <1>4, <2>1, <2>2
<1>6. Editing!BackspaceAtAll(e) = Editing!Edited(e, w[N])
  BY DEF Editing!BackspaceAtAll, N, a
<1> HIDE DEF w
<1> QED BY <1>5, <1>6 DEF N, a

LEMMA DeleteWalk ==
  ASSUME NEW e, NEW b, b = Editing!Begun(e), Len(b.cursors) \in Nat
  PROVE  \E w : /\ w[0] = b
                /\ \A n \in 1 .. Len(b.cursors) : w[n] = Editing!DeletedAt(w[n - 1], n)
                /\ Editing!DeleteAtAll(e) = Editing!Edited(e, w[Len(b.cursors)])
<1> DEFINE N == Len(b.cursors)
           a == b
           Course(g) == [n \in 0 .. N |-> IF n = 0 THEN a ELSE Editing!DeletedAt(g[n - 1], n)]
           w == CHOOSE g : g = Course(g)
           Round(f, m) == f[0] = a /\ \A n \in 1 .. m : f[n] = Editing!DeletedAt(f[n - 1], n)
           R == {m \in 0 .. N : \E f : Round(f, m)}
<1>1. N \in Nat
  OBVIOUS
<1> HIDE DEF N, a
<1>2. \E f : Round(f, N)
  <2>1. 0 \in R
    <3> DEFINE f == [n \in 0 .. 0 |-> a]
    <3>1. Round(f, 0)
      OBVIOUS
    <3> HIDE DEF f, Round
    <3> QED BY <1>1, <3>1
  <2>2. ASSUME NEW m \in 1 .. N, m - 1 \in R PROVE m \in R
    <3>1. PICK f : Round(f, m - 1)
      BY <2>2
    <3> DEFINE n == m
               next == Editing!DeletedAt(f[n - 1], n)
               g == [k \in 0 .. m |-> IF k = m THEN next ELSE f[k]]
    <3> HIDE DEF next
    <3>2. /\ m \in Nat /\ m # 0 /\ g[0] = f[0] /\ g[m] = next /\ m \in 0 .. N
          /\ \A k \in 0 .. m - 1 : g[k] = f[k]
      BY <1>1
    <3> HIDE DEF g
    <3>3. ASSUME NEW k \in 1 .. m PROVE g[k] = Editing!DeletedAt(g[k - 1], k)
      <4>1. CASE k = m
        <5>1. g[k - 1] = f[k - 1]
          BY <3>2, <4>1
        <5> QED BY <3>2, <4>1, <5>1 DEF next
      <4>2. CASE k # m
        <5>1. g[k] = f[k] /\ g[k - 1] = f[k - 1] /\ k \in 1 .. m - 1
          BY <3>2, <4>2
        <5> QED BY <3>1, <5>1
      <4> QED BY <4>1, <4>2
    <3>4. Round(g, m)
      BY <3>1, <3>2, <3>3
    <3> HIDE DEF Round
    <3> QED BY <3>2, <3>4
  <2>3. 0 .. N \subseteq R
    <3> HIDE DEF R
    <3> QED BY <1>1, <2>1, <2>2, UpTo
  <2>4. N \in 0 .. N
    BY <1>1
  <2> HIDE DEF Round
  <2> QED BY <2>3, <2>4
<1>3. \E f : f = Course(f)
  <2>1. PICK f : Round(f, N)
    BY <1>2
  <2> DEFINE g == [n \in 0 .. N |-> f[n]]
  <2>2. ASSUME NEW n \in 0 .. N PROVE g[n] = IF n = 0 THEN a ELSE Editing!DeletedAt(g[n - 1], n)
    <3>1. CASE n = 0
      BY <2>1, <3>1
    <3>2. CASE n # 0
      <4>1. n \in 1 .. N /\ n - 1 \in 0 .. N
        BY <1>1, <3>2
      <4>2. g[n] = f[n] /\ g[n - 1] = f[n - 1]
        BY <4>1
      <4> HIDE DEF g
      <4> QED BY <2>1, <3>2, <4>1, <4>2
    <3> QED BY <3>1, <3>2
  <2>3. g = Course(g)
    BY <2>2
  <2> QED BY <2>3
<1>4. w = Course(w)
  <2> HIDE DEF Course
  <2> QED BY <1>3
<1>5. w[0] = a /\ \A n \in 1 .. N : w[n] = Editing!DeletedAt(w[n - 1], n)
  <2>1. \A n \in 0 .. N : Course(w)[n] = IF n = 0 THEN a ELSE Editing!DeletedAt(w[n - 1], n)
    OBVIOUS
  <2>2. 0 \in 0 .. N /\ \A n \in 1 .. N : n \in 0 .. N /\ n # 0
    BY <1>1
  <2> HIDE DEF w, Course
  <2> QED BY <1>4, <2>1, <2>2
<1>6. Editing!DeleteAtAll(e) = Editing!Edited(e, w[N])
  BY DEF Editing!DeleteAtAll, N, a
<1> HIDE DEF w
<1> QED BY <1>5, <1>6 DEF N, a

LEMMA NewlineWalk ==
  ASSUME NEW e, NEW b, b = Editing!Begun(e), Len(b.cursors) \in Nat
  PROVE  \E w : /\ w[0] = b
                /\ \A n \in 1 .. Len(b.cursors) : w[n] = Editing!NewlineAt(w[n - 1], n)
                /\ Editing!IndentedNewlineAtAll(e) = Editing!StoredWithText(e, w[Len(b.cursors)])
<1> DEFINE N == Len(b.cursors)
           a == b
           Course(g) == [n \in 0 .. N |-> IF n = 0 THEN a ELSE Editing!NewlineAt(g[n - 1], n)]
           w == CHOOSE g : g = Course(g)
           Round(f, m) == f[0] = a /\ \A n \in 1 .. m : f[n] = Editing!NewlineAt(f[n - 1], n)
           R == {m \in 0 .. N : \E f : Round(f, m)}
<1>1. N \in Nat
  OBVIOUS
<1> HIDE DEF N, a
<1>2. \E f : Round(f, N)
  <2>1. 0 \in R
    <3> DEFINE f == [n \in 0 .. 0 |-> a]
    <3>1. Round(f, 0)
      OBVIOUS
    <3> HIDE DEF f, Round
    <3> QED BY <1>1, <3>1
  <2>2. ASSUME NEW m \in 1 .. N, m - 1 \in R PROVE m \in R
    <3>1. PICK f : Round(f, m - 1)
      BY <2>2
    <3> DEFINE n == m
               next == Editing!NewlineAt(f[n - 1], n)
               g == [k \in 0 .. m |-> IF k = m THEN next ELSE f[k]]
    <3> HIDE DEF next
    <3>2. /\ m \in Nat /\ m # 0 /\ g[0] = f[0] /\ g[m] = next /\ m \in 0 .. N
          /\ \A k \in 0 .. m - 1 : g[k] = f[k]
      BY <1>1
    <3> HIDE DEF g
    <3>3. ASSUME NEW k \in 1 .. m PROVE g[k] = Editing!NewlineAt(g[k - 1], k)
      <4>1. CASE k = m
        <5>1. g[k - 1] = f[k - 1]
          BY <3>2, <4>1
        <5> QED BY <3>2, <4>1, <5>1 DEF next
      <4>2. CASE k # m
        <5>1. g[k] = f[k] /\ g[k - 1] = f[k - 1] /\ k \in 1 .. m - 1
          BY <3>2, <4>2
        <5> QED BY <3>1, <5>1
      <4> QED BY <4>1, <4>2
    <3>4. Round(g, m)
      BY <3>1, <3>2, <3>3
    <3> HIDE DEF Round
    <3> QED BY <3>2, <3>4
  <2>3. 0 .. N \subseteq R
    <3> HIDE DEF R
    <3> QED BY <1>1, <2>1, <2>2, UpTo
  <2>4. N \in 0 .. N
    BY <1>1
  <2> HIDE DEF Round
  <2> QED BY <2>3, <2>4
<1>3. \E f : f = Course(f)
  <2>1. PICK f : Round(f, N)
    BY <1>2
  <2> DEFINE g == [n \in 0 .. N |-> f[n]]
  <2>2. ASSUME NEW n \in 0 .. N PROVE g[n] = IF n = 0 THEN a ELSE Editing!NewlineAt(g[n - 1], n)
    <3>1. CASE n = 0
      BY <2>1, <3>1
    <3>2. CASE n # 0
      <4>1. n \in 1 .. N /\ n - 1 \in 0 .. N
        BY <1>1, <3>2
      <4>2. g[n] = f[n] /\ g[n - 1] = f[n - 1]
        BY <4>1
      <4> HIDE DEF g
      <4> QED BY <2>1, <3>2, <4>1, <4>2
    <3> QED BY <3>1, <3>2
  <2>3. g = Course(g)
    BY <2>2
  <2> QED BY <2>3
<1>4. w = Course(w)
  <2> HIDE DEF Course
  <2> QED BY <1>3
<1>5. w[0] = a /\ \A n \in 1 .. N : w[n] = Editing!NewlineAt(w[n - 1], n)
  <2>1. \A n \in 0 .. N : Course(w)[n] = IF n = 0 THEN a ELSE Editing!NewlineAt(w[n - 1], n)
    OBVIOUS
  <2>2. 0 \in 0 .. N /\ \A n \in 1 .. N : n \in 0 .. N /\ n # 0
    BY <1>1
  <2> HIDE DEF w, Course
  <2> QED BY <1>4, <2>1, <2>2
<1>6. Editing!IndentedNewlineAtAll(e) = Editing!StoredWithText(e, w[N])
  BY DEF Editing!IndentedNewlineAtAll, N, a
<1> HIDE DEF w
<1> QED BY <1>5, <1>6 DEF N, a

LEMMA ReplaceWalk ==
  ASSUME NEW e, NEW edits, NEW value, Len(edits) \in Nat
  PROVE  \E w : /\ w[0] = [text |-> e.text, edits |-> edits, limit |-> Len(e.text)]
                /\ \A n \in 1 .. Len(edits) : w[n] = Editing!SelectionReplaced(w[n - 1], n, value)
                /\ Editing!EditsReplaced(e, edits, value) = w[Len(edits)]
<1> DEFINE N == Len(edits)
           a == [text |-> e.text, edits |-> edits, limit |-> Len(e.text)]
           Course(g) ==
               [n \in 0 .. N |-> IF n = 0 THEN a ELSE Editing!SelectionReplaced(g[n - 1], n, value)]
           w == CHOOSE g : g = Course(g)
           Round(f, m) == f[0] = a
           /\ \A n \in 1 .. m : f[n] = Editing!SelectionReplaced(f[n - 1], n, value)
           R == {m \in 0 .. N : \E f : Round(f, m)}
<1>1. N \in Nat
  OBVIOUS
<1> HIDE DEF N, a
<1>2. \E f : Round(f, N)
  <2>1. 0 \in R
    <3> DEFINE f == [n \in 0 .. 0 |-> a]
    <3>1. Round(f, 0)
      OBVIOUS
    <3> HIDE DEF f, Round
    <3> QED BY <1>1, <3>1
  <2>2. ASSUME NEW m \in 1 .. N, m - 1 \in R PROVE m \in R
    <3>1. PICK f : Round(f, m - 1)
      BY <2>2
    <3> DEFINE n == m
               next == Editing!SelectionReplaced(f[n - 1], n, value)
               g == [k \in 0 .. m |-> IF k = m THEN next ELSE f[k]]
    <3> HIDE DEF next
    <3>2. /\ m \in Nat /\ m # 0 /\ g[0] = f[0] /\ g[m] = next /\ m \in 0 .. N
          /\ \A k \in 0 .. m - 1 : g[k] = f[k]
      BY <1>1
    <3> HIDE DEF g
    <3>3. ASSUME NEW k \in 1 .. m PROVE g[k] = Editing!SelectionReplaced(g[k - 1], k, value)
      <4>1. CASE k = m
        <5>1. g[k - 1] = f[k - 1]
          BY <3>2, <4>1
        <5> QED BY <3>2, <4>1, <5>1 DEF next
      <4>2. CASE k # m
        <5>1. g[k] = f[k] /\ g[k - 1] = f[k - 1] /\ k \in 1 .. m - 1
          BY <3>2, <4>2
        <5> QED BY <3>1, <5>1
      <4> QED BY <4>1, <4>2
    <3>4. Round(g, m)
      BY <3>1, <3>2, <3>3
    <3> HIDE DEF Round
    <3> QED BY <3>2, <3>4
  <2>3. 0 .. N \subseteq R
    <3> HIDE DEF R
    <3> QED BY <1>1, <2>1, <2>2, UpTo
  <2>4. N \in 0 .. N
    BY <1>1
  <2> HIDE DEF Round
  <2> QED BY <2>3, <2>4
<1>3. \E f : f = Course(f)
  <2>1. PICK f : Round(f, N)
    BY <1>2
  <2> DEFINE g == [n \in 0 .. N |-> f[n]]
  <2>2. ASSUME NEW n \in 0 .. N
        PROVE g[n] = IF n = 0 THEN a ELSE Editing!SelectionReplaced(g[n - 1], n, value)
    <3>1. CASE n = 0
      BY <2>1, <3>1
    <3>2. CASE n # 0
      <4>1. n \in 1 .. N /\ n - 1 \in 0 .. N
        BY <1>1, <3>2
      <4>2. g[n] = f[n] /\ g[n - 1] = f[n - 1]
        BY <4>1
      <4> HIDE DEF g
      <4> QED BY <2>1, <3>2, <4>1, <4>2
    <3> QED BY <3>1, <3>2
  <2>3. g = Course(g)
    BY <2>2
  <2> QED BY <2>3
<1>4. w = Course(w)
  <2> HIDE DEF Course
  <2> QED BY <1>3
<1>5. w[0] = a /\ \A n \in 1 .. N : w[n] = Editing!SelectionReplaced(w[n - 1], n, value)
  <2>1. \A n \in 0 .. N : Course(w)[n] = IF n = 0 THEN a
            ELSE Editing!SelectionReplaced(w[n - 1], n, value)
    OBVIOUS
  <2>2. 0 \in 0 .. N /\ \A n \in 1 .. N : n \in 0 .. N /\ n # 0
    BY <1>1
  <2> HIDE DEF w, Course
  <2> QED BY <1>4, <2>1, <2>2
<1>6. Editing!EditsReplaced(e, edits, value) = w[N]
  BY DEF Editing!EditsReplaced, N, a
<1> HIDE DEF w
<1> QED BY <1>5, <1>6 DEF N, a

\* How many lines of a selection are erased.
LineSpan(e, r) ==
  LET end == IF r.end.column = 0 /\ r.end.line > r.start.line THEN r.end.line ELSE r.end.line + 1
  IN  Editing!Most(Editing!Least(end, Editing!LineCount(e.text)) - r.start.line, 0)

LEMMA EraseLinesWalk ==
  ASSUME NEW e, NEW r, LineSpan(e, r) \in Nat
  PROVE  \E w : /\ w[0] = e.text
                /\ \A n \in 1 .. LineSpan(e, r) :
                     w[n] = Editing!DeleteLineAt(w[n - 1],
                         Editing!Least(r.start.line, Editing!LineCount(w[n - 1]) - 1))
                /\ LET erased == [e EXCEPT !.text = w[LineSpan(e, r)]]
                   IN  Editing!EraseLines(e, r) =
                         Editing!SetCursor(erased,
                             Editing!At(Editing!Least(r.start.line, Editing!LastLine(erased)), 0))
<1> DEFINE N == LineSpan(e, r)
           a == e.text
           Course(g) ==
               [n \in 0 .. N |-> IF n = 0 THEN a
                   ELSE Editing!DeleteLineAt(g[n - 1],
                       Editing!Least(r.start.line, Editing!LineCount(g[n - 1]) - 1))]
           w == CHOOSE g : g = Course(g)
           Round(f, m) == f[0] = a
           /\ \A n \in 1 .. m : f[n] = Editing!DeleteLineAt(f[n - 1],
                  Editing!Least(r.start.line, Editing!LineCount(f[n - 1]) - 1))
           R == {m \in 0 .. N : \E f : Round(f, m)}
<1>1. N \in Nat
  OBVIOUS
<1> HIDE DEF N, a
<1>2. \E f : Round(f, N)
  <2>1. 0 \in R
    <3> DEFINE f == [n \in 0 .. 0 |-> a]
    <3>1. Round(f, 0)
      OBVIOUS
    <3> HIDE DEF f, Round
    <3> QED BY <1>1, <3>1
  <2>2. ASSUME NEW m \in 1 .. N, m - 1 \in R PROVE m \in R
    <3>1. PICK f : Round(f, m - 1)
      BY <2>2
    <3> DEFINE n == m
               next == Editing!DeleteLineAt(f[n - 1],
                   Editing!Least(r.start.line, Editing!LineCount(f[n - 1]) - 1))
               g == [k \in 0 .. m |-> IF k = m THEN next ELSE f[k]]
    <3> HIDE DEF next
    <3>2. /\ m \in Nat /\ m # 0 /\ g[0] = f[0] /\ g[m] = next /\ m \in 0 .. N
          /\ \A k \in 0 .. m - 1 : g[k] = f[k]
      BY <1>1
    <3> HIDE DEF g
    <3>3. ASSUME NEW k \in 1 .. m
          PROVE g[k] = Editing!DeleteLineAt(g[k - 1],
                    Editing!Least(r.start.line, Editing!LineCount(g[k - 1]) - 1))
      <4>1. CASE k = m
        <5>1. g[k - 1] = f[k - 1]
          BY <3>2, <4>1
        <5> QED BY <3>2, <4>1, <5>1 DEF next
      <4>2. CASE k # m
        <5>1. g[k] = f[k] /\ g[k - 1] = f[k - 1] /\ k \in 1 .. m - 1
          BY <3>2, <4>2
        <5> QED BY <3>1, <5>1
      <4> QED BY <4>1, <4>2
    <3>4. Round(g, m)
      BY <3>1, <3>2, <3>3
    <3> HIDE DEF Round
    <3> QED BY <3>2, <3>4
  <2>3. 0 .. N \subseteq R
    <3> HIDE DEF R
    <3> QED BY <1>1, <2>1, <2>2, UpTo
  <2>4. N \in 0 .. N
    BY <1>1
  <2> HIDE DEF Round
  <2> QED BY <2>3, <2>4
<1>3. \E f : f = Course(f)
  <2>1. PICK f : Round(f, N)
    BY <1>2
  <2> DEFINE g == [n \in 0 .. N |-> f[n]]
  <2>2. ASSUME NEW n \in 0 .. N
        PROVE g[n] = IF n = 0 THEN a
                  ELSE Editing!DeleteLineAt(g[n - 1],
                      Editing!Least(r.start.line, Editing!LineCount(g[n - 1]) - 1))
    <3>1. CASE n = 0
      BY <2>1, <3>1
    <3>2. CASE n # 0
      <4>1. n \in 1 .. N /\ n - 1 \in 0 .. N
        BY <1>1, <3>2
      <4>2. g[n] = f[n] /\ g[n - 1] = f[n - 1]
        BY <4>1
      <4> HIDE DEF g
      <4> QED BY <2>1, <3>2, <4>1, <4>2
    <3> QED BY <3>1, <3>2
  <2>3. g = Course(g)
    BY <2>2
  <2> QED BY <2>3
<1>4. w = Course(w)
  <2> HIDE DEF Course
  <2> QED BY <1>3
<1>5. w[0] = a /\ \A n \in 1 .. N : w[n] = Editing!DeleteLineAt(w[n - 1],
          Editing!Least(r.start.line, Editing!LineCount(w[n - 1]) - 1))
  <2>1. \A n \in 0 .. N : Course(w)[n] = IF n = 0 THEN a
            ELSE Editing!DeleteLineAt(w[n - 1],
                Editing!Least(r.start.line, Editing!LineCount(w[n - 1]) - 1))
    OBVIOUS
  <2>2. 0 \in 0 .. N /\ \A n \in 1 .. N : n \in 0 .. N /\ n # 0
    BY <1>1
  <2> HIDE DEF w, Course
  <2> QED BY <1>4, <2>1, <2>2
<1>6. LET erased == [e EXCEPT !.text = w[N]]
      IN  Editing!EraseLines(e, r) = Editing!SetCursor(erased,
          Editing!At(Editing!Least(r.start.line, Editing!LastLine(erased)), 0))
  BY DEF Editing!EraseLines, LineSpan, N, a
<1> HIDE DEF w
<1> QED BY <1>5, <1>6 DEF N, a

-----------------------------------------------------------------------------
(* Edits at all cursors *)

\* A text in the middle of its edits, at N places.
IsUnderEdit(s, N) ==
  /\ DOMAIN s = {"text", "cursors"}
  /\ IsText(s.text) /\ s.cursors \in Seq(CursorEdits) /\ Len(s.cursors) = N

LEMMA BegunIs ==
  ASSUME NEW e, IsLoose(e)
  PROVE  /\ Len(Editing!Begun(e).cursors) \in Nat \ {0}
         /\ IsUnderEdit(Editing!Begun(e), Len(Editing!Begun(e).cursors))
         /\ Editing!Begun(e).text = e.text
<1> DEFINE b == Editing!Begun(e)
           cs == Editing!Descending(Editing!CollectCursors(e))
<1>1. cs \in Seq(CursorEdits) \ {<<>>}
  BY CollectedAreEdits, AscendingType
<1> HIDE DEF cs
<1>2. b = [text |-> e.text, cursors |-> cs]
  BY DEF Editing!Begun, cs
<1> HIDE DEF b
<1>3. /\ DOMAIN b = {"text", "cursors"} /\ b.text = e.text /\ b.cursors = cs
  BY <1>2
<1>4. Len(cs) \in Nat \ {0}
  BY <1>1
<1> QED BY <1>1, <1>3, <1>4, LooseIs DEF IsUnderEdit, b

LEMMA AdjustedType ==
  ASSUME NEW cs \in Seq(CursorEdits), NEW n \in Int,
         NEW places, \A i \in DOMAIN cs : places[i] \in Int
  PROVE  /\ Editing!Adjusted(cs, n, "offset", places) \in Seq(CursorEdits)
         /\ Len(Editing!Adjusted(cs, n, "offset", places)) = Len(cs)
<1> DEFINE f == [i \in DOMAIN cs |-> IF i < n THEN [cs[i] EXCEPT !["offset"] = places[i]]
               ELSE cs[i]]
<1>1. Len(cs) \in Nat /\ DOMAIN cs = 1 .. Len(cs)
  OBVIOUS
<1>2. ASSUME NEW i \in 1 .. Len(cs) PROVE f[i] \in CursorEdits
  <2>1. cs[i] \in CursorEdits /\ places[i] \in Int
    BY <1>1
  <2>2. [cs[i] EXCEPT !["offset"] = places[i]] \in CursorEdits
    BY <2>1 DEF CursorEdits
  <2> QED BY <1>1, <2>1, <2>2
<1>3. f = [i \in 1 .. Len(cs) |-> f[i]]
  BY <1>1
<1> HIDE DEF f
<1>4. f \in [1 .. Len(cs) -> CursorEdits]
  BY <1>2, <1>3
<1>5. f \in Seq(CursorEdits) /\ Len(f) = Len(cs)
  BY <1>1, <1>4
<1> QED BY <1>5 DEF Editing!Adjusted, f

LEMMA OffsetSet ==
  ASSUME NEW cs \in Seq(CursorEdits), NEW n \in DOMAIN cs, NEW o \in Int
  PROVE  /\ [cs EXCEPT ![n].offset = o] \in Seq(CursorEdits)
         /\ Len([cs EXCEPT ![n].offset = o]) = Len(cs)
<1>1. [cs[n] EXCEPT !.offset = o] \in CursorEdits
  <2>1. cs[n] \in CursorEdits
    OBVIOUS
  <2> QED BY <2>1 DEF CursorEdits
<1>2. [cs EXCEPT ![n] = [cs[n] EXCEPT !.offset = o]] \in Seq(CursorEdits)
  BY <1>1
<1>3. [cs EXCEPT ![n].offset = o] = [cs EXCEPT ![n] = [cs[n] EXCEPT !.offset = o]]
  OBVIOUS
<1> QED BY <1>2, <1>3

LEMMA UnderEditIs ==
  ASSUME NEW N \in Nat, NEW s, IsUnderEdit(s, N), NEW n \in 1 .. N
  PROVE  /\ DOMAIN s = {"text", "cursors"} /\ IsText(s.text) /\ Len(s.text) \in Nat
         /\ s.cursors \in Seq(CursorEdits) /\ Len(s.cursors) = N
         /\ DOMAIN s.cursors = 1 .. N
         /\ \A i \in DOMAIN s.cursors : s.cursors[i] \in CursorEdits /\ s.cursors[i].offset \in Int
         /\ s.cursors[n].offset \in Int
<1>1. DOMAIN s = {"text", "cursors"} /\ IsText(s.text) /\ s.cursors \in Seq(CursorEdits)
      /\ Len(s.cursors) = N
  BY DEF IsUnderEdit
<1>2. DOMAIN s.cursors = 1 .. N /\ \A i \in DOMAIN s.cursors : s.cursors[i] \in CursorEdits
  BY <1>1
<1>3. \A c \in CursorEdits : c.offset \in Int
  BY DEF CursorEdits
<1> QED BY <1>1, <1>2, <1>3, LengthIs

LEMMA IsUnderEditIf ==
  ASSUME NEW N, NEW t, IsText(t), NEW cs \in Seq(CursorEdits), Len(cs) = N
  PROVE  IsUnderEdit([text |-> t, cursors |-> cs], N)
  BY DEF IsUnderEdit

LEMMA InsertedAtType ==
  ASSUME NEW N \in Nat, NEW s, IsUnderEdit(s, N), NEW n \in 1 .. N,
         NEW value, IsText(value), NEW shift \in Int
  PROVE  IsUnderEdit(Editing!InsertedAt(s, n, value, shift), N)
<1> DEFINE o == s.cursors[n].offset
           Ahead(x) == IF x >= o THEN x + Len(value) ELSE x
           places == [i \in DOMAIN s.cursors |-> Ahead(s.cursors[i].offset)]
           moved == Editing!Adjusted(s.cursors, n, "offset", places)
<1>1. /\ IsText(s.text) /\ s.cursors \in Seq(CursorEdits) /\ Len(s.cursors) = N
      /\ DOMAIN s.cursors = 1 .. N /\ o \in Int /\ Len(value) \in Int
      /\ \A i \in DOMAIN s.cursors : s.cursors[i].offset \in Int
  BY UnderEditIs, LengthIs
<1> HIDE DEF o
<1>2. \A i \in DOMAIN s.cursors : places[i] \in Int
  BY <1>1
<1> HIDE DEF places
<1>3. moved \in Seq(CursorEdits) /\ Len(moved) = N
  BY <1>1, <1>2, AdjustedType
<1> HIDE DEF moved
<1>4. [moved EXCEPT ![n].offset = o + shift] \in Seq(CursorEdits)
      /\ Len([moved EXCEPT ![n].offset = o + shift]) = N
  <2>1. o + shift \in Int /\ n \in DOMAIN moved
    BY <1>1, <1>3
  <2> QED BY <1>3, <2>1, OffsetSet
<1>5. IsText(Editing!Insert(s.text, o, value))
  BY <1>1, InsertIsText
<1>6. Editing!InsertedAt(s, n, value, shift) =
        [text |-> Editing!Insert(s.text, o, value),
            cursors |-> [moved EXCEPT ![n].offset = o + shift]]
  BY DEF Editing!InsertedAt, o, places, moved
<1> QED BY <1>4, <1>5, <1>6, IsUnderEditIf

LEMMA ErasedAtType ==
  ASSUME NEW N \in Nat, NEW s, IsUnderEdit(s, N), NEW n \in 1 .. N, NEW from \in Int, NEW to \in Int
  PROVE  IsUnderEdit(Editing!ErasedAt(s, n, from, to), N)
<1> DEFINE Back(x) == IF x > from THEN (IF x < to THEN from ELSE x - (to - from)) ELSE x
           places == [i \in DOMAIN s.cursors |-> Back(s.cursors[i].offset)]
           moved == Editing!Adjusted(s.cursors, n, "offset", places)
<1>1. /\ IsText(s.text) /\ s.cursors \in Seq(CursorEdits) /\ Len(s.cursors) = N
      /\ DOMAIN s.cursors = 1 .. N
      /\ \A i \in DOMAIN s.cursors : s.cursors[i].offset \in Int
  BY UnderEditIs
<1>2. \A i \in DOMAIN s.cursors : places[i] \in Int
  BY <1>1
<1> HIDE DEF places
<1>3. moved \in Seq(CursorEdits) /\ Len(moved) = N
  BY <1>1, <1>2, AdjustedType
<1> HIDE DEF moved
<1>4. [moved EXCEPT ![n].offset = from] \in Seq(CursorEdits)
      /\ Len([moved EXCEPT ![n].offset = from]) = N
  <2>1. n \in DOMAIN moved
    BY <1>1, <1>3
  <2> QED BY <1>3, <2>1, OffsetSet
<1>5. IsText(Editing!Erase(s.text, from, to))
  BY <1>1, EraseIsText
<1>6. Editing!ErasedAt(s, n, from, to) =
        IF from = to THEN s
        ELSE [text |-> Editing!Erase(s.text, from, to),
            cursors |-> [moved EXCEPT ![n].offset = from]]
  BY DEF Editing!ErasedAt, places, moved
<1> QED BY <1>4, <1>5, <1>6, IsUnderEditIf

LEMMA BackspacedAtType ==
  ASSUME NEW N \in Nat, NEW s, IsUnderEdit(s, N), NEW n \in 1 .. N
  PROVE  IsUnderEdit(Editing!BackspacedAt(s, n), N) /\ IsUnderEdit(Editing!DeletedAt(s, n), N)
<1> DEFINE o == s.cursors[n].offset
           p == Editing!Position(s.text, o)
<1>1. o \in Int /\ IsText(s.text)
  BY UnderEditIs
<1> HIDE DEF o
<1>2. p \in Editing!Places
  BY <1>1, PositionType, OnLine
<1> HIDE DEF p
<1>3. Editing!PreviousPosition(s.text, p) \in Editing!Places
      /\ Editing!NextPosition(s.text, p) \in Editing!Places
  BY <1>1, <1>2, PreviousType, NextType, OnLine
<1>4. Editing!Offset(s.text, Editing!PreviousPosition(s.text, p)) \in Int
      /\ Editing!Offset(s.text, Editing!NextPosition(s.text, p)) \in Int
  BY <1>1, <1>3, ClampType
<1>5. /\ Editing!BackspacedAt(s, n) =
             Editing!ErasedAt(s, n, Editing!Offset(s.text, Editing!PreviousPosition(s.text, p)), o)
      /\ Editing!DeletedAt(s, n) =
             Editing!ErasedAt(s, n, o, Editing!Offset(s.text, Editing!NextPosition(s.text, p)))
  BY DEF Editing!BackspacedAt, Editing!DeletedAt, o, p
<1> QED BY <1>1, <1>4, <1>5, ErasedAtType

LEMMA LineIsText ==
  ASSUME NEW t, IsText(t), NEW l \in 0 .. Editing!LineCount(t) - 1
  PROVE  IsText(Editing!Line(t, l)) /\ Editing!IndentSize(t, l) \in Int
<1> DEFINE line == Editing!Line(t, l)
           others == {i \in DOMAIN line : line[i] \notin Blanks}
           first == CHOOSE i \in others : \A j \in others : i <= j
<1>1. IsText(line)
  <2>1. Editing!LineStart(t, l) \in Int /\ Editing!LineSize(t, l) \in Int
    BY LineStartIs, LineSizeIs
  <2>2. Editing!LineStart(t, l) + 1 \in Int
        /\ Editing!LineStart(t, l) + Editing!LineSize(t, l) \in Int
    BY <2>1
  <2> QED BY <2>2, PartIsText DEF Editing!Line
<1> HIDE DEF line
<1>2. Len(line) \in Nat /\ others \in SUBSET Nat
  BY <1>1, LengthIs
<1> HIDE DEF others
<1>3. ASSUME others # {} PROVE first \in Nat
  BY <1>2, <1>3, LeastNat
<1>4. Editing!IndentSize(t, l) = IF others = {} THEN Len(line) ELSE first - 1
  BY DEF Editing!IndentSize, others, line
<1> HIDE DEF first
<1> QED BY <1>1, <1>2, <1>3, <1>4 DEF line

LEMMA IndentIsText ==
  ASSUME NEW t, IsText(t), NEW p \in PlacesOf(t)
  PROVE  IsText(Editing!InsertedIndent(t, p))
         /\ IsText(<<Editing!NL>> \o Editing!InsertedIndent(t, p))
<1>1. p.line \in 0 .. Editing!LineCount(t) - 1 /\ p.column \in Int
  BY OnLine
<1>2. Editing!Least(p.column, Editing!IndentSize(t, p.line)) \in Int
  BY <1>1, LineIsText, LeastIs
<1>3. IsText(Editing!InsertedIndent(t, p))
  BY <1>2, PartIsText DEF Editing!InsertedIndent
<1>4. IsText(<<Editing!NL>>)
  BY DEF IsText
<1> QED BY <1>3, <1>4, TextsJoin

LEMMA NewlineAtType ==
  ASSUME NEW N \in Nat, NEW s, IsUnderEdit(s, N), NEW n \in 1 .. N
  PROVE  IsUnderEdit(Editing!NewlineAt(s, n), N)
<1> DEFINE p == Editing!Position(s.text, s.cursors[n].offset)
           size == Editing!IndentSize(s.text, p.line)
           f == Editing!InsertedAt(s, n, <<Editing!NL>> \o Editing!InsertedIndent(s.text, p),
               size + 1)
           g == [f EXCEPT !.cursors[n].preferred = size]
<1>1. p \in PlacesOf(s.text) /\ IsText(s.text)
  BY UnderEditIs, PositionType
<1> HIDE DEF p
<1>2. size \in Int /\ IsText(<<Editing!NL>> \o Editing!InsertedIndent(s.text, p))
  BY <1>1, OnLine, LineIsText, IndentIsText
<1> HIDE DEF size
<1>3. IsUnderEdit(f, N)
  <2>1. size + 1 \in Int
    BY <1>2
  <2> QED BY <1>2, <2>1, InsertedAtType
<1> HIDE DEF f
<1>4. /\ DOMAIN f = {"text", "cursors"} /\ IsText(f.text) /\ f.cursors \in Seq(CursorEdits)
      /\ Len(f.cursors) = N /\ DOMAIN f.cursors = 1 .. N
  BY <1>3, UnderEditIs
<1> DEFINE c == [f.cursors[n] EXCEPT !.preferred = size]
<1>5. c \in CursorEdits
  <2>1. f.cursors[n] \in CursorEdits
    BY <1>4
  <2> QED BY <1>2, <2>1 DEF CursorEdits
<1>6. DOMAIN g = {"text", "cursors"} /\ g.text = f.text /\ g.cursors = [f.cursors EXCEPT ![n] = c]
  BY <1>4
<1> HIDE DEF c
<1>7. g.cursors \in Seq(CursorEdits) /\ Len(g.cursors) = N
  <2>1. [f.cursors EXCEPT ![n] = c] \in Seq(CursorEdits)
        /\ Len([f.cursors EXCEPT ![n] = c]) = Len(f.cursors)
    BY <1>4, <1>5
  <2> HIDE DEF g
  <2> QED BY <1>4, <1>6, <2>1
<1>8. IsUnderEdit(g, N)
  <2> HIDE DEF g
  <2> QED BY <1>4, <1>6, <1>7 DEF IsUnderEdit
<1> QED BY <1>8 DEF Editing!NewlineAt, f, size, p

LEMMA StoredWithTextType ==
  ASSUME NEW e, IsLoose(e), NEW N \in Nat \ {0}, NEW done, IsUnderEdit(done, N)
  PROVE  /\ IsEditor(Editing!StoredWithText(e, done))
         /\ Editing!StoredWithText(e, done).text = done.text
         /\ IsEditor(Editing!Edited(e, done)) /\ Editing!Edited(e, done).text = done.text
<1> DEFINE f == [e EXCEPT !.text = done.text]
<1>1. /\ DOMAIN done = {"text", "cursors"} /\ IsText(done.text)
      /\ done.cursors \in Seq(CursorEdits) /\ Len(done.cursors) = N
  BY DEF IsUnderEdit
<1>2. IsLoose(f) /\ f.text = done.text
  BY <1>1 DEF IsLoose, Fields
<1> HIDE DEF f
<1>3. ASSUME NEW d, d.text = done.text, d.cursors \in Seq(CursorEdits) \ {<<>>}
      PROVE  IsEditor(Editing!StoredWithText(e, d)) /\ Editing!StoredWithText(e, d).text = done.text
  <2>1. Keeps(Editing!StoreCursors(f, d.cursors, TRUE), f)
    BY <1>2, <1>3, StoreCursorsKeeps
  <2>2. Editing!StoredWithText(e, d) = Editing!StoreCursors(f, d.cursors, TRUE)
    BY <1>3 DEF Editing!StoredWithText, f
  <2> QED BY <1>2, <2>1, <2>2 DEF Keeps
<1>4. done.cursors # <<>>
  BY <1>1
<1> DEFINE Placed(c) == [c EXCEPT !.preferred = Editing!Position(done.text, c.offset).column]
           placed == [i \in DOMAIN done.cursors |-> Placed(done.cursors[i])]
           d == [done EXCEPT !.cursors = placed]
<1>5. \A i \in DOMAIN done.cursors : placed[i] \in CursorEdits
  <2> SUFFICES ASSUME NEW c \in CursorEdits PROVE Placed(c) \in CursorEdits
    BY <1>1
  <2>1. c.offset \in Int
    BY DEF CursorEdits
  <2>2. Editing!Position(done.text, c.offset).column \in Int
    BY <1>1, <2>1, PositionType, OnLine
  <2> QED BY <2>2 DEF CursorEdits
<1>6. placed = [i \in DOMAIN done.cursors |-> placed[i]]
  OBVIOUS
<1>7. Editing!Edited(e, done) = Editing!StoredWithText(e, d)
  BY <1>1 DEF Editing!Edited
<1> HIDE DEF placed
<1>8. placed \in Seq(CursorEdits) \ {<<>>}
  BY <1>1, <1>4, <1>5, <1>6, MappedType
<1>9. d.text = done.text /\ d.cursors = placed
  BY <1>1
<1> HIDE DEF d
<1> QED BY <1>1, <1>3, <1>4, <1>7, <1>8, <1>9

LEMMA InsertAtAllType ==
  ASSUME NEW e, IsLoose(e), NEW value, IsText(value)
  PROVE  IsEditor(Editing!InsertAtAll(e, value))
<1> DEFINE b == Editing!Begun(e)
           N == Len(b.cursors)
<1>1. N \in Nat \ {0} /\ IsUnderEdit(b, N)
  BY BegunIs
<1> HIDE DEF b
<1>2. PICK w : /\ w[0] = b
               /\ \A n \in 1 .. N : w[n] = Editing!InsertedAt(w[n - 1], n, value, Len(value))
               /\ Editing!InsertAtAll(e, value) = Editing!Edited(e, w[N])
  BY <1>1, InsertWalk DEF b
<1> HIDE DEF N
<1> DEFINE R == {n \in 0 .. N : IsUnderEdit(w[n], N)}
<1>3. 0 \in R
  BY <1>1, <1>2
<1>4. ASSUME NEW n \in 1 .. N, n - 1 \in R PROVE n \in R
  <2>1. IsUnderEdit(w[n - 1], N) /\ n \in 0 .. N
    BY <1>1, <1>4
  <2>2. IsUnderEdit(Editing!InsertedAt(w[n - 1], n, value, Len(value)), N)
    BY <1>1, <2>1, InsertedAtType, LengthIs
  <2> QED BY <1>2, <2>1, <2>2
<1>5. N \in R
  <2> HIDE DEF R
  <2>1. 0 .. N \subseteq R
    BY <1>1, <1>3, <1>4, UpTo
  <2> QED BY <1>1, <2>1
<1>6. IsEditor(Editing!Edited(e, w[N])) /\ IsEditor(Editing!StoredWithText(e, w[N]))
  BY <1>1, <1>5, StoredWithTextType
<1> QED BY <1>2, <1>6

LEMMA BackspaceAtAllType ==
  ASSUME NEW e, IsLoose(e)
  PROVE  IsEditor(Editing!BackspaceAtAll(e))
<1> DEFINE b == Editing!Begun(e)
           N == Len(b.cursors)
<1>1. N \in Nat \ {0} /\ IsUnderEdit(b, N)
  BY BegunIs
<1> HIDE DEF b
<1>2. PICK w : /\ w[0] = b
               /\ \A n \in 1 .. N : w[n] = Editing!BackspacedAt(w[n - 1], n)
               /\ Editing!BackspaceAtAll(e) = Editing!Edited(e, w[N])
  BY <1>1, BackspaceWalk DEF b
<1> HIDE DEF N
<1> DEFINE R == {n \in 0 .. N : IsUnderEdit(w[n], N)}
<1>3. 0 \in R
  BY <1>1, <1>2
<1>4. ASSUME NEW n \in 1 .. N, n - 1 \in R PROVE n \in R
  <2>1. IsUnderEdit(w[n - 1], N) /\ n \in 0 .. N
    BY <1>1, <1>4
  <2>2. IsUnderEdit(Editing!BackspacedAt(w[n - 1], n), N)
    BY <1>1, <2>1, BackspacedAtType
  <2> QED BY <1>2, <2>1, <2>2
<1>5. N \in R
  <2> HIDE DEF R
  <2>1. 0 .. N \subseteq R
    BY <1>1, <1>3, <1>4, UpTo
  <2> QED BY <1>1, <2>1
<1>6. IsEditor(Editing!Edited(e, w[N])) /\ IsEditor(Editing!StoredWithText(e, w[N]))
  BY <1>1, <1>5, StoredWithTextType
<1> QED BY <1>2, <1>6

LEMMA DeleteAtAllType ==
  ASSUME NEW e, IsLoose(e)
  PROVE  IsEditor(Editing!DeleteAtAll(e))
<1> DEFINE b == Editing!Begun(e)
           N == Len(b.cursors)
<1>1. N \in Nat \ {0} /\ IsUnderEdit(b, N)
  BY BegunIs
<1> HIDE DEF b
<1>2. PICK w : /\ w[0] = b
               /\ \A n \in 1 .. N : w[n] = Editing!DeletedAt(w[n - 1], n)
               /\ Editing!DeleteAtAll(e) = Editing!Edited(e, w[N])
  BY <1>1, DeleteWalk DEF b
<1> HIDE DEF N
<1> DEFINE R == {n \in 0 .. N : IsUnderEdit(w[n], N)}
<1>3. 0 \in R
  BY <1>1, <1>2
<1>4. ASSUME NEW n \in 1 .. N, n - 1 \in R PROVE n \in R
  <2>1. IsUnderEdit(w[n - 1], N) /\ n \in 0 .. N
    BY <1>1, <1>4
  <2>2. IsUnderEdit(Editing!DeletedAt(w[n - 1], n), N)
    BY <1>1, <2>1, BackspacedAtType
  <2> QED BY <1>2, <2>1, <2>2
<1>5. N \in R
  <2> HIDE DEF R
  <2>1. 0 .. N \subseteq R
    BY <1>1, <1>3, <1>4, UpTo
  <2> QED BY <1>1, <2>1
<1>6. IsEditor(Editing!Edited(e, w[N])) /\ IsEditor(Editing!StoredWithText(e, w[N]))
  BY <1>1, <1>5, StoredWithTextType
<1> QED BY <1>2, <1>6

LEMMA NewlineAtAllType ==
  ASSUME NEW e, IsLoose(e)
  PROVE  IsEditor(Editing!IndentedNewlineAtAll(e))
<1> DEFINE b == Editing!Begun(e)
           N == Len(b.cursors)
<1>1. N \in Nat \ {0} /\ IsUnderEdit(b, N)
  BY BegunIs
<1> HIDE DEF b
<1>2. PICK w : /\ w[0] = b
               /\ \A n \in 1 .. N : w[n] = Editing!NewlineAt(w[n - 1], n)
               /\ Editing!IndentedNewlineAtAll(e) = Editing!StoredWithText(e, w[N])
  BY <1>1, NewlineWalk DEF b
<1> HIDE DEF N
<1> DEFINE R == {n \in 0 .. N : IsUnderEdit(w[n], N)}
<1>3. 0 \in R
  BY <1>1, <1>2
<1>4. ASSUME NEW n \in 1 .. N, n - 1 \in R PROVE n \in R
  <2>1. IsUnderEdit(w[n - 1], N) /\ n \in 0 .. N
    BY <1>1, <1>4
  <2>2. IsUnderEdit(Editing!NewlineAt(w[n - 1], n), N)
    BY <1>1, <2>1, NewlineAtType
  <2> QED BY <1>2, <2>1, <2>2
<1>5. N \in R
  <2> HIDE DEF R
  <2>1. 0 .. N \subseteq R
    BY <1>1, <1>3, <1>4, UpTo
  <2> QED BY <1>1, <2>1
<1>6. IsEditor(Editing!Edited(e, w[N])) /\ IsEditor(Editing!StoredWithText(e, w[N]))
  BY <1>1, <1>5, StoredWithTextType
<1> QED BY <1>2, <1>6

-----------------------------------------------------------------------------
(* Edits of all selections *)

SelectionsCut == [start : Int, end : Int, primary : BOOLEAN]

LEMMA SelectionEditsType ==
  ASSUME NEW e, IsLoose(e)
  PROVE  Editing!SelectionEdits(e) \in Seq(SelectionsCut)
<1> DEFINE cursors == <<e.primary>> \o e.extras
           ranges == [n \in DOMAIN cursors |-> Editing!SelectionRange(e, cursors[n])]
           CutOf(r, n) ==
             [start |-> Editing!Offset(e.text, r.start), end |-> Editing!Offset(e.text, r.end),
                 primary |-> n = 1]
           edits == [n \in DOMAIN cursors |-> CutOf(ranges[n], n)]
           S == {n \in DOMAIN cursors : ranges[n].active}
<1>1. cursors \in Seq(Cursors) /\ IsText(e.text)
  BY LooseIs, AllCursors
<1> HIDE DEF cursors
<1>2. Len(cursors) \in Nat /\ DOMAIN cursors = 1 .. Len(cursors)
      /\ \A n \in DOMAIN cursors : cursors[n] \in Cursors
  BY <1>1
<1>3. \A n \in DOMAIN cursors : ranges[n] \in SpansOf(e.text)
  BY <1>1, <1>2, SelectionType
<1> HIDE DEF ranges
<1>4. ASSUME NEW n \in DOMAIN cursors PROVE edits[n] \in SelectionsCut
  <2>1. ranges[n].start \in Editing!Places /\ ranges[n].end \in Editing!Places
    BY <1>3, SpanIs
  <2>2. Editing!Offset(e.text, ranges[n].start) \in Int
        /\ Editing!Offset(e.text, ranges[n].end) \in Int
    BY <1>1, <2>1, ClampType
  <2> QED BY <2>2 DEF SelectionsCut
<1> HIDE DEF edits
<1>5. S \in SUBSET (1 .. Len(cursors)) /\ \A i \in S : edits[i] \in SelectionsCut
  BY <1>2, <1>4
<1> HIDE DEF S
<1>6. Editing!Those(edits, S) \in Seq(SelectionsCut)
  BY <1>2, <1>5, ThoseType
<1> QED BY <1>6 DEF Editing!SelectionEdits, cursors, ranges, edits, S

LEMMA FromLastType ==
  ASSUME NEW edits, edits \in Seq(SelectionsCut)
  PROVE  Editing!FromLast(edits) \in Seq(SelectionsCut)
<1> DEFINE ranks == [i \in DOMAIN edits |-> -edits[i].start]
<1>1. \A i \in DOMAIN edits : edits[i] \in SelectionsCut
  OBVIOUS
<1>2. \A i \in DOMAIN edits : edits[i].start \in Int
  BY <1>1 DEF SelectionsCut
<1>3. \A i \in DOMAIN edits : ranks[i] \in Int
  BY <1>2
<1>4. IsText(edits)
  BY SequenceIsText
<1> HIDE DEF ranks
<1>5. Editing!InOrder(edits, DOMAIN edits, ranks) \in Seq(SelectionsCut)
  BY <1>1, <1>3, <1>4, OrderedType
<1> QED BY <1>5 DEF Editing!FromLast, ranks

\* A text in the middle of having N selections replaced.
IsUnderCut(s, N) ==
  /\ DOMAIN s = {"text", "edits", "limit"}
  /\ IsText(s.text) /\ s.edits \in Seq(SelectionsCut) /\ Len(s.edits) = N /\ s.limit \in Int

LEMMA UnderCutIs ==
  ASSUME NEW N \in Nat, NEW s, IsUnderCut(s, N)
  PROVE  /\ IsText(s.text) /\ s.edits \in Seq(SelectionsCut) /\ Len(s.edits) = N /\ s.limit \in Int
         /\ DOMAIN s.edits = 1 .. N
         /\ \A i \in DOMAIN s.edits : /\ s.edits[i] \in SelectionsCut
                                      /\ s.edits[i].start \in Int /\ s.edits[i].end \in Int
<1>1. /\ IsText(s.text) /\ s.edits \in Seq(SelectionsCut) /\ Len(s.edits) = N /\ s.limit \in Int
  BY DEF IsUnderCut
<1>2. DOMAIN s.edits = 1 .. N /\ \A i \in DOMAIN s.edits : s.edits[i] \in SelectionsCut
  BY <1>1
<1>3. \A d \in SelectionsCut : d.start \in Int /\ d.end \in Int
  BY DEF SelectionsCut
<1> QED BY <1>1, <1>2, <1>3

LEMMA StartsAdjusted ==
  ASSUME NEW cs \in Seq(SelectionsCut), NEW n \in DOMAIN cs, NEW o \in Int,
         NEW places, \A i \in DOMAIN cs : places[i] \in Int
  PROVE  LET moved == Editing!Adjusted(cs, n, "start", places)
         IN  [moved EXCEPT ![n].start = o] \in {q \in Seq(SelectionsCut) : Len(q) = Len(cs)}
<1> DEFINE f == [i \in DOMAIN cs |-> IF i < n THEN [cs[i] EXCEPT !["start"] = places[i]] ELSE cs[i]]
           g == [f EXCEPT ![n].start = o]
<1>1. Len(cs) \in Nat /\ DOMAIN cs = 1 .. Len(cs) /\ n \in 1 .. Len(cs)
  OBVIOUS
<1>2. \A d \in SelectionsCut, x \in Int : [d EXCEPT !.start = x] \in SelectionsCut
  BY DEF SelectionsCut
<1>3. ASSUME NEW i \in 1 .. Len(cs) PROVE f[i] \in SelectionsCut
  <2>1. cs[i] \in SelectionsCut /\ places[i] \in Int
    BY <1>1
  <2>2. [cs[i] EXCEPT !["start"] = places[i]] \in SelectionsCut
    BY <2>1 DEF SelectionsCut
  <2> QED BY <1>1, <2>1, <2>2
<1>4. f = [i \in 1 .. Len(cs) |-> f[i]]
  BY <1>1
<1> HIDE DEF f
<1>5. g = [f EXCEPT ![n] = [f[n] EXCEPT !.start = o]] /\ [f[n] EXCEPT !.start = o] \in SelectionsCut
  BY <1>1, <1>2, <1>3
<1>6. g \in [1 .. Len(cs) -> SelectionsCut]
  BY <1>3, <1>4, <1>5
<1> HIDE DEF g
<1>7. g \in Seq(SelectionsCut) /\ Len(g) = Len(cs)
  BY <1>1, <1>6
<1> QED BY <1>7 DEF Editing!Adjusted, f, g

LEMMA SelectionReplacedType ==
  ASSUME NEW N \in Nat, NEW s, IsUnderCut(s, N), NEW n \in 1 .. N, NEW value, IsText(value)
  PROVE  IsUnderCut(Editing!SelectionReplaced(s, n, value), N)
<1> DEFINE from == s.edits[n].start
           to == Editing!Most(from, Editing!Least(s.edits[n].end, s.limit))
           Moved(x) == (IF x > from THEN x - (to - from) ELSE x)
                         + (IF x >= from THEN Len(value) ELSE 0)
           places == [i \in DOMAIN s.edits |-> Moved(s.edits[i].start)]
           moved == Editing!Adjusted(s.edits, n, "start", places)
           done == [moved EXCEPT ![n].start = from + Len(value)]
           t == Editing!Insert(Editing!Erase(s.text, from, to), from, value)
<1>1. /\ IsText(s.text) /\ s.edits \in Seq(SelectionsCut) /\ Len(s.edits) = N
      /\ DOMAIN s.edits = 1 .. N /\ from \in Int /\ to \in Int /\ Len(value) \in Int
      /\ \A i \in DOMAIN s.edits : s.edits[i].start \in Int
  <2>1. /\ IsText(s.text) /\ s.edits \in Seq(SelectionsCut) /\ Len(s.edits) = N
        /\ DOMAIN s.edits = 1 .. N /\ s.limit \in Int
        /\ \A i \in DOMAIN s.edits : s.edits[i].start \in Int /\ s.edits[i].end \in Int
    BY UnderCutIs
  <2>2. from \in Int /\ Editing!Least(s.edits[n].end, s.limit) \in Int
    BY <2>1, LeastIs
  <2> HIDE DEF from
  <2>3. to \in Int /\ Len(value) \in Int
    BY <2>2, LeastIs, LengthIs
  <2> QED BY <2>1, <2>2, <2>3
<1> HIDE DEF from, to
<1>2. \A i \in DOMAIN s.edits : places[i] \in Int
  BY <1>1
<1> HIDE DEF places
<1>3. from + Len(value) \in Int
  BY <1>1
<1>4. done \in {q \in Seq(SelectionsCut) : Len(q) = Len(s.edits)}
  BY <1>1, <1>2, <1>3, StartsAdjusted
<1> HIDE DEF done, moved
<1>5. IsText(t)
  BY <1>1, EraseIsText, InsertIsText
<1> HIDE DEF t
<1>6. IsUnderCut([text |-> t, edits |-> done, limit |-> from], N)
  BY <1>1, <1>4, <1>5 DEF IsUnderCut
<1>7. Editing!SelectionReplaced(s, n, value) = [text |-> t, edits |-> done, limit |-> from]
  BY DEF Editing!SelectionReplaced, Editing!ReplacedAt, from, to, places, moved, done, t
<1> QED BY <1>6, <1>7

LEMMA PlacedBehindType ==
  ASSUME NEW e, IsLoose(e), NEW N \in Nat \ {0}, NEW done, IsUnderCut(done, N)
  PROVE  IsEditor(Editing!PlacedBehind(e, done))
<1> DEFINE f == [e EXCEPT !.text = done.text]
           es == done.edits
           Placed(d) == [offset |-> d.start, anchor |-> d.start,
                         preferred |-> Editing!Position(done.text, d.start).column,
                             primary |-> d.primary]
           placed == [i \in DOMAIN es |-> Placed(es[i])]
<1>1. IsText(done.text) /\ done.edits \in Seq(SelectionsCut) /\ Len(done.edits) = N
  BY UnderCutIs
<1>2. IsLoose(f)
  BY <1>1 DEF IsLoose, Fields
<1> HIDE DEF f
<1>3. es \in Seq(SelectionsCut) \ {<<>>}
  BY <1>1
<1>4. \A i \in DOMAIN es : placed[i] \in CursorEdits
  <2> SUFFICES ASSUME NEW d \in SelectionsCut PROVE Placed(d) \in CursorEdits
    BY <1>1
  <2>1. d.start \in Int /\ d.primary \in BOOLEAN
    BY DEF SelectionsCut
  <2>2. Editing!Position(done.text, d.start).column \in Int
    BY <1>1, <2>1, PositionType, OnLine
  <2> QED BY <2>1, <2>2 DEF CursorEdits
<1>5. placed = [i \in DOMAIN es |-> placed[i]]
  OBVIOUS
<1>6. Editing!PlacedBehind(e, done) = Editing!StoreCursors(f, placed, TRUE)
  BY DEF Editing!PlacedBehind, f
<1> HIDE DEF placed, es
<1>7. placed \in Seq(CursorEdits) \ {<<>>}
  BY <1>3, <1>4, <1>5, MappedType
<1> QED BY <1>2, <1>6, <1>7, StoreCursorsKeeps, KeepsIs

LEMMA ReplaceAllType ==
  ASSUME NEW e, IsEditor(e), NEW value, IsText(value)
  PROVE  IsEditor(Editing!ReplaceAllSelections(e, value))
<1> DEFINE edits == Editing!FromLast(Editing!SelectionEdits(e))
           N == Len(edits)
           a == [text |-> e.text, edits |-> edits, limit |-> Len(e.text)]
<1>1. IsLoose(e) /\ IsText(e.text) /\ Len(e.text) \in Int
  BY EditorIsLoose, LooseIs, LengthIs
<1>2. edits \in Seq(SelectionsCut)
  BY <1>1, SelectionEditsType, FromLastType
<1>3. CASE edits = <<>>
  BY <1>3 DEF Editing!ReplaceAllSelections
<1>4. CASE edits # <<>>
  <2> HIDE DEF edits
  <2>1. N \in Nat \ {0} /\ N \in 0 .. N
    BY <1>2, <1>4
  <2>2. PICK w : /\ w[0] = a
                 /\ \A n \in 1 .. N : w[n] = Editing!SelectionReplaced(w[n - 1], n, value)
                 /\ Editing!EditsReplaced(e, edits, value) = w[N]
    BY <2>1, ReplaceWalk
  <2>3. IsUnderCut(a, N)
    BY <1>1, <1>2, <2>1 DEF IsUnderCut
  <2> HIDE DEF N, a
  <2> DEFINE R == {n \in 0 .. N : IsUnderCut(w[n], N)}
  <2>4. 0 \in R
    BY <2>1, <2>2, <2>3
  <2>5. ASSUME NEW n \in 1 .. N, n - 1 \in R PROVE n \in R
    <3>1. IsUnderCut(w[n - 1], N) /\ n \in 0 .. N
      BY <2>1, <2>5
    <3>2. IsUnderCut(Editing!SelectionReplaced(w[n - 1], n, value), N)
      BY <2>1, <3>1, SelectionReplacedType
    <3> QED BY <2>2, <3>1, <3>2
  <2>6. N \in R
    <3> HIDE DEF R
    <3>1. 0 .. N \subseteq R
      BY <2>1, <2>4, <2>5, UpTo
    <3> QED BY <2>1, <3>1
  <2>7. IsEditor(Editing!PlacedBehind(e, w[N]))
    BY <1>1, <2>1, <2>6, PlacedBehindType
  <2>8. Editing!ReplaceAllSelections(e, value) =
            Editing!PlacedBehind(e, Editing!EditsReplaced(e, edits, value))
    BY <1>4 DEF Editing!ReplaceAllSelections, edits
  <2> QED BY <2>2, <2>7, <2>8
<1> QED BY <1>3, <1>4

-----------------------------------------------------------------------------
(* Edits at the cursor *)

LEMMA TextSet ==
  ASSUME NEW e, IsLoose(e), NEW t, IsText(t)
  PROVE  IsLoose([e EXCEPT !.text = t]) /\ [e EXCEPT !.text = t].text = t
         /\ [e EXCEPT !.text = t].primary = e.primary
  BY DEF IsLoose, Fields

LEMMA SetCursorType ==
  ASSUME NEW e, IsLoose(e), NEW p \in Editing!Places
  PROVE  IsEditor(Editing!SetCursor(e, p))
  BY SetCursorKeeps, KeepsIs

LEMMA EraseRangeType ==
  ASSUME NEW e, IsEditor(e), NEW p \in Editing!Places, NEW q \in Editing!Places
  PROVE  IsEditor(Editing!EraseRange(e, p, q)) /\ (p = q => Editing!EraseRange(e, p, q) = e)
<1> DEFINE s == IF Editing!Before(q, p) THEN q ELSE p
           end == IF Editing!Before(q, p) THEN p ELSE q
           t == Editing!Erase(e.text, Editing!Offset(e.text, s), Editing!Offset(e.text, end))
<1>1. s \in Editing!Places /\ end \in Editing!Places /\ IsLoose(e) /\ IsText(e.text)
  BY EditorIsLoose, LooseIs
<1> HIDE DEF s, end
<1>2. IsText(t)
  BY <1>1, ClampType, EraseIsText
<1> HIDE DEF t
<1>3. IsEditor(Editing!SetCursor([e EXCEPT !.text = t], s))
  BY <1>1, <1>2, TextSet, SetCursorType
<1>4. Editing!EraseRange(e, p, q) = IF p = q THEN e ELSE Editing!SetCursor([e EXCEPT !.text = t], s)
  BY DEF Editing!EraseRange, s, end, t
<1> QED BY <1>3, <1>4

LEMMA DeleteLineType ==
  ASSUME NEW t, IsText(t), NEW l \in 0 .. Editing!LineCount(t) - 1
  PROVE  IsText(Editing!DeleteLineAt(t, l))
<1> DEFINE begin == Editing!LineStart(t, l)
           end == begin + Editing!LineSize(t, l)
<1>1. begin \in Int /\ end \in Int
  BY LineStartIs, LineSizeIs
<1> HIDE DEF begin, end
<1>2. begin - 1 \in Int /\ end + 1 \in Int
  BY <1>1
<1>3. IsText(Editing!Erase(t, begin, end + 1)) /\ IsText(Editing!Erase(t, begin - 1, end))
  BY <1>1, <1>2, EraseIsText
<1>4. IsText(<<>>)
  BY DEF IsText
<1> QED BY <1>3, <1>4 DEF Editing!DeleteLineAt, begin, end

LEMMA EraseLinesType ==
  ASSUME NEW e, IsLoose(e), NEW r \in SpansOf(e.text)
  PROVE  IsEditor(Editing!EraseLines(e, r))
<1> DEFINE N == LineSpan(e, r)
           first == r.start.line
           erased(w) == [e EXCEPT !.text = w[N]]
<1>1. IsText(e.text) /\ first \in Nat /\ r.end.line \in Nat /\ Editing!LineCount(e.text) \in Nat
  BY LooseIs, SpanIs, OnLine, LinesAreCounted
<1>2. N \in Nat
  <2>1. Editing!Least(r.end.line, Editing!LineCount(e.text)) \in Int
    BY <1>1 DEF Editing!Least
  <2>2. Editing!Least(r.end.line + 1, Editing!LineCount(e.text)) \in Int
    BY <1>1 DEF Editing!Least
  <2> QED BY <1>1, <2>1, <2>2 DEF LineSpan, Editing!Most
<1>3. PICK w : /\ w[0] = e.text
               /\ \A n \in 1 .. N : w[n] = Editing!DeleteLineAt(w[n - 1],
                      Editing!Least(first, Editing!LineCount(w[n - 1]) - 1))
               /\ Editing!EraseLines(e, r) = Editing!SetCursor(erased(w),
                      Editing!At(Editing!Least(first, Editing!LastLine(erased(w))), 0))
  BY <1>2, EraseLinesWalk
<1> HIDE DEF N, first
<1> DEFINE R == {n \in 0 .. N : IsText(w[n])}
<1>4. 0 \in R
  BY <1>1, <1>2, <1>3
<1>5. ASSUME NEW n \in 1 .. N, n - 1 \in R PROVE n \in R
  <2>1. IsText(w[n - 1]) /\ n \in 0 .. N
    BY <1>2, <1>5
  <2>2. Editing!Least(first, Editing!LineCount(w[n - 1]) - 1)
            \in 0 .. Editing!LineCount(w[n - 1]) - 1
    BY <1>1, <2>1, LeastLine
  <2>3. IsText(Editing!DeleteLineAt(w[n - 1],
            Editing!Least(first, Editing!LineCount(w[n - 1]) - 1)))
    BY <2>1, <2>2, DeleteLineType
  <2> QED BY <1>3, <2>1, <2>3
<1>6. IsText(w[N])
  <2> HIDE DEF R
  <2>1. 0 .. N \subseteq R /\ N \in 0 .. N
    BY <1>2, <1>4, <1>5, UpTo
  <2> QED BY <2>1 DEF R
<1>7. IsLoose(erased(w)) /\ IsText(erased(w).text)
  BY <1>6, TextSet
<1> HIDE DEF erased
<1>8. Editing!At(Editing!Least(first, Editing!LastLine(erased(w))), 0) \in Editing!Places
  <2>1. Editing!LastLine(erased(w)) \in Nat
    BY <1>7, LastLineIs
  <2>2. Editing!Least(first, Editing!LastLine(erased(w))) \in Nat
    BY <1>1, <2>1 DEF Editing!Least
  <2> QED BY <2>2, AtIsPlace
<1> QED BY <1>3, <1>7, <1>8, SetCursorType

LEMMA EraseSpanType ==
  ASSUME NEW e, IsEditor(e), NEW r \in SpansOf(e.text)
  PROVE  IsEditor(Editing!EraseSpan(e, r)) /\ (~r.active => Editing!EraseSpan(e, r) = e)
<1> DEFINE c == Editing!ClearExtras(e)
<1>1. IsEditor(c) /\ IsLoose(c) /\ c.text = e.text
  BY ClearExtrasKeeps, KeepsIs
<1> HIDE DEF c
<1>2. IsEditor(Editing!EraseLines(c, r))
  BY <1>1, EraseLinesType
<1>3. IsEditor(Editing!EraseRange(c, r.start, r.end))
  BY <1>1, SpanIs, EraseRangeType
<1> QED BY <1>2, <1>3 DEF Editing!EraseSpan, c

LEMMA EmptyIsText == IsText(<<>>) /\ \A x : IsText(<<x>>)
  BY DEF IsText

LEMMA EraseSelectionType ==
  ASSUME NEW e, IsEditor(e)
  PROVE  IsEditor(Editing!EraseSelection(e))
<1>1. Editing!Selection(e) \in SpansOf(e.text)
  BY EditorIsLoose, SelectionIs
<1>2. IsEditor(Editing!ReplaceAllSelections(e, <<>>))
  BY EmptyIsText, ReplaceAllType
<1> QED BY <1>1, <1>2, EraseSpanType DEF Editing!EraseSelection

\* What is inserted leaves every newline there is.
LEMMA InsertKeepsLines ==
  ASSUME NEW t, IsText(t), NEW v, IsText(v), NEW o \in Int
  PROVE  Editing!LineCount(Editing!Insert(t, o, v)) >= Editing!LineCount(t)
<1> DEFINE u == Editing!Insert(t, o, v)
           S(x) == {i \in 1 .. Len(x) : x[i] = Editing!NL}
           Place(i) == IF i <= o THEN i ELSE Editing!Most(o, 0) + Len(v) + i - o
           place == [i \in S(t) |-> Place(i)]
<1>1. Len(t) \in Nat /\ Len(v) \in Nat /\ IsText(u) /\ Len(u) \in Nat
  BY LengthIs, InsertIsText
<1>2. ASSUME NEW i \in 1 .. Len(t) PROVE Place(i) \in 1 .. Len(u) /\ u[Place(i)] = t[i]
  <2> DEFINE a == SubSeq(t, 1, o)
             b == SubSeq(t, o + 1, Len(t))
  <2>1. /\ Len(a) = Editing!Most(o, 0)
        /\ Len(b) = IF o + 1 <= Len(t) THEN Len(t) - o ELSE 0
        /\ \A k \in 1 .. Len(a) : a[k] = t[k]
        /\ \A k \in 1 .. Len(b) : b[k] = t[o + k]
    BY <1>1 DEF Editing!Most
  <2>2. IsText(a) /\ IsText(b)
    BY <1>1, PartIsText
  <2>3. u = a \o v \o b
    BY DEF Editing!Insert
  <2> HIDE DEF a, b, u
  <2>4. Len(a \o v) = Len(a) + Len(v) /\ IsText(a \o v) /\ Len(u) = Len(a) + Len(v) + Len(b)
    BY <1>1, <2>2, <2>3, TextsJoin, LengthIs
  <2>5. CASE i <= o
    <3>1. i \in 1 .. Len(a)
      BY <1>1, <2>1, <2>5 DEF Editing!Most
    <3> QED BY <1>1, <2>1, <2>2, <2>3, <2>4, <2>5, <3>1, LengthIs
  <2>6. CASE i > o
    <3>1. i - o \in 1 .. Len(b) /\ t[i] = b[i - o]
      BY <1>1, <2>1, <2>6
    <3>2. Place(i) = Len(a \o v) + (i - o)
      BY <1>1, <2>1, <2>4, <2>6 DEF Editing!Most
    <3>3. i - o \in 1 .. Len(b) /\ Len(a \o v) \in Nat /\ Len(b) \in Nat
      BY <1>1, <2>2, <2>4, <3>1, LengthIs
    <3> DEFINE k == i - o
    <3>4. Place(i) = Len(a \o v) + k /\ k \in 1 .. Len(b) /\ t[i] = b[k]
      BY <3>1, <3>2
    <3> HIDE DEF k, Place
    <3>5. Place(i) \in 1 .. Len(u)
      BY <1>1, <2>4, <3>3, <3>4
    <3>6. u[Place(i)] = b[k]
      BY <2>3, <2>4, <3>3, <3>4
    <3> QED BY <3>4, <3>5, <3>6
  <2> QED BY <1>1, <2>5, <2>6
<1> HIDE DEF u
<1>3. \A i, j \in 1 .. Len(t) : Place(i) = Place(j) => i = j
  BY <1>1 DEF Editing!Most
<1> HIDE DEF Place
<1>4. place \in Injection(S(t), S(u))
  BY <1>2, <1>3 DEF Injection, IsInjective
<1>5. IsFiniteSet(S(t)) /\ IsFiniteSet(S(u))
  <2>1. Len(t) \in Int /\ Len(u) \in Int
    BY <1>1
  <2> QED BY <2>1, NewlinesType
<1>6. Cardinality(S(t)) <= Cardinality(S(u))
  <2> HIDE DEF place, S
  <2> QED BY <1>4, <1>5, FS_Injection
<1>7. Editing!LineCount(t) = Cardinality(S(t)) + 1 /\ Editing!LineCount(u) = Cardinality(S(u)) + 1
  BY SameCardinality DEF Editing!LineCount, Editing!NewlinesIn
<1>8. Cardinality(S(t)) \in Nat /\ Cardinality(S(u)) \in Nat
  BY <1>5, FS_CardinalityType
<1> HIDE DEF S
<1> QED BY <1>6, <1>7, <1>8 DEF u

LEMMA InsertedType ==
  ASSUME NEW e, IsEditor(e), NEW v, IsText(v)
  PROVE  /\ IsLoose(Editing!Inserted(e, v)) /\ IsText(Editing!Inserted(e, v).text)
         /\ Editing!LineCount(Editing!Inserted(e, v).text) >= Editing!LineCount(e.text)
<1> DEFINE t == Editing!Insert(e.text, Editing!Offset(e.text, e.primary.at), v)
<1>1. IsLoose(e) /\ IsText(e.text) /\ e.primary.at \in Editing!Places
  BY EditorIsLoose, LooseIs
<1>2. Editing!Offset(e.text, e.primary.at) \in Int
  BY <1>1, ClampType
<1>3. IsText(t) /\ Editing!LineCount(t) >= Editing!LineCount(e.text)
  BY <1>1, <1>2, InsertIsText, InsertKeepsLines
<1>4. Editing!Inserted(e, v) = [e EXCEPT !.text = t]
  BY DEF Editing!Inserted
<1> HIDE DEF t
<1> QED BY <1>1, <1>3, <1>4, TextSet

LEMMA CharInsertedType ==
  ASSUME NEW e, IsEditor(e), NEW ch
  PROVE  IsEditor(Editing!CharInserted(e, ch))
<1> DEFINE f == Editing!Inserted(e, <<ch>>)
           p == [e.primary.at EXCEPT !.column = @ + 1]
           g == [f EXCEPT !.primary = Editing!Cursor(p)]
<1>1. IsLoose(f) /\ IsText(f.text) /\ Editing!LineCount(f.text) >= Editing!LineCount(e.text)
  BY EmptyIsText, InsertedType
<1>2. e.primary.at \in PlacesOf(e.text) /\ IsText(e.text)
  BY EditorIsLoose, LooseIs
<1>3. Editing!LineCount(f.text) \in Nat /\ Editing!LineCount(e.text) \in Nat
  BY <1>1, <1>2, LinesAreCounted
<1>4. e.primary.at.line \in 0 .. Editing!LineCount(e.text) - 1 /\ e.primary.at.column \in Int
      /\ e.primary.at \in Editing!Places
  BY <1>2, OnLine
<1>5. e.primary.at.line \in 0 .. Editing!LineCount(f.text) - 1
  <2> HIDE DEF f
  <2> QED BY <1>1, <1>3, <1>4
<1>6. p = Editing!At(e.primary.at.line, e.primary.at.column + 1)
  BY <1>4 DEF Editing!At, Editing!Places
<1>7. p \in PlacesOf(f.text)
  <2>1. e.primary.at.column + 1 \in Int
    BY <1>4
  <2> HIDE DEF f, p
  <2> QED BY <1>5, <1>6, <2>1, AtIsOnLine
<1> HIDE DEF f, p
<1>8. Editing!Cursor(p) \in CursorsOf(f.text)
  BY <1>7, OnLine DEF Editing!Cursor, Cursors, CursorsOf
<1>9. DOMAIN g = Fields /\ g.text = f.text /\ g.primary = Editing!Cursor(p) /\ g.extras = f.extras
      /\ f.extras \in Seq(Cursors)
  <2>1. DOMAIN f = Fields /\ f.extras \in Seq(Cursors)
    BY <1>1, LooseIs
  <2> QED BY <2>1 DEF Fields
<1> HIDE DEF g
<1>10. IsEditor(g)
  BY <1>1, <1>8, <1>9, IsEditorIf
<1> QED BY <1>10, ClearSelectionKeeps, KeepsIs DEF Editing!CharInserted, f, p, g

LEMMA NewlineInsertedType ==
  ASSUME NEW e, IsEditor(e), NEW v, IsText(<<Editing!NL>> \o v), NEW column \in Int
  PROVE  IsEditor(Editing!NewlineInserted(e, v, column))
<1> DEFINE f == Editing!Inserted(e, <<Editing!NL>> \o v)
<1>1. IsLoose(f)
  BY InsertedType
<1>2. e.primary.at.line \in Nat
  BY EditorIsLoose, OnLine
<1>3. e.primary.at.line + 1 \in Nat
  BY <1>2
<1>4. Editing!At(e.primary.at.line + 1, column) \in Editing!Places
  BY <1>3, AtIsPlace
<1> HIDE DEF f
<1>5. IsEditor(Editing!SetCursor(f, Editing!At(e.primary.at.line + 1, column)))
  BY <1>1, <1>4, SetCursorType
<1> QED BY <1>5 DEF Editing!NewlineInserted, f

LEMMA InsertCharType ==
  ASSUME NEW e, IsEditor(e), NEW ch
  PROVE  IsEditor(Editing!InsertChar(e, ch))
<1>1. IsLoose(e) /\ Editing!Selection(e) \in SpansOf(e.text)
  BY EditorIsLoose, SelectionIs
<1>2. IsText(<<ch>>)
  BY EmptyIsText
<1>3. IsEditor(Editing!ReplaceAllSelections(e, <<ch>>)) /\ IsEditor(Editing!InsertAtAll(e, <<ch>>))
  BY <1>1, <1>2, ReplaceAllType, InsertAtAllType
<1>4. IsEditor(Editing!CharInserted(Editing!EraseSpan(e, Editing!Selection(e)), ch))
  BY <1>1, EraseSpanType, CharInsertedType
<1> QED BY <1>3, <1>4 DEF Editing!InsertChar

LEMMA NewlineType ==
  ASSUME NEW e, IsEditor(e)
  PROVE  IsEditor(Editing!InsertIndentedNewline(e))
<1> DEFINE r == Editing!Selection(e)
           start == IF r.active THEN r.start ELSE e.primary.at
<1>1. IsLoose(e) /\ IsText(e.text) /\ e.primary.at \in PlacesOf(e.text) /\ r \in SpansOf(e.text)
  BY EditorIsLoose, LooseIs, SelectionIs
<1>2. IsText(<<Editing!NL>>)
  BY EmptyIsText
<1>3. IsEditor(Editing!ReplaceAllSelections(e, <<Editing!NL>>))
      /\ IsEditor(Editing!IndentedNewlineAtAll(e))
  BY <1>1, <1>2, ReplaceAllType, NewlineAtAllType
<1>4. start \in PlacesOf(e.text)
  BY <1>1, SpanIs
<1> HIDE DEF r, start
<1>5. start.line \in 0 .. Editing!LineCount(e.text) - 1
  BY <1>4, OnLine
<1>6. IsText(<<Editing!NL>> \o Editing!InsertedIndent(e.text, start))
      /\ Editing!IndentSize(e.text, start.line) \in Int
  BY <1>1, <1>4, <1>5, IndentIsText, LineIsText
<1>7. IsEditor(Editing!NewlineOver(e, r, start))
  BY <1>1, <1>6, EraseSpanType, NewlineInsertedType DEF Editing!NewlineOver
<1> QED BY <1>3, <1>7 DEF Editing!InsertIndentedNewline, r, start

LEMMA BackspaceType ==
  ASSUME NEW e, IsEditor(e)
  PROVE  IsEditor(Editing!Backspace(e))
<1> DEFINE p == Editing!PreviousPosition(e.text, e.primary.at)
<1>1. IsLoose(e) /\ IsText(e.text) /\ e.primary.at \in Editing!Places
  BY EditorIsLoose, LooseIs
<1>2. p \in Editing!Places
  BY <1>1, PreviousType, OnLine
<1> HIDE DEF p
<1>3. IsEditor(Editing!EraseRange(e, p, e.primary.at))
  BY <1>1, <1>2, EraseRangeType
<1>4. IsEditor(Editing!BackspaceAtAll(e)) /\ IsEditor(Editing!EraseSelection(e))
  BY <1>1, BackspaceAtAllType, EraseSelectionType
<1> QED BY <1>3, <1>4 DEF Editing!Backspace, p

LEMMA ErasedType ==
  ASSUME NEW e, IsEditor(e), NEW from \in Int, NEW to \in Int
  PROVE  IsEditor(Editing!ClearSelection(Editing!ClampCursor([e EXCEPT !.text =
             Editing!Erase(@, from, to)])))
<1> DEFINE t == Editing!Erase(e.text, from, to)
           f == [e EXCEPT !.text = t]
<1>1. IsLoose(e) /\ IsText(e.text)
  BY EditorIsLoose, LooseIs
<1>2. IsText(t)
  BY <1>1, EraseIsText
<1> HIDE DEF t
<1>3. IsLoose(f)
  BY <1>1, <1>2, TextSet
<1>4. f = [e EXCEPT !.text = Editing!Erase(@, from, to)]
  BY DEF t
<1> HIDE DEF f
<1>5. IsEditor(Editing!ClampCursor(f))
  BY <1>3, ClampCursorKeeps, KeepsIs
<1>6. IsEditor(Editing!ClearSelection(Editing!ClampCursor(f)))
  BY <1>5, ClearSelectionKeeps, KeepsIs
<1> QED BY <1>4, <1>6

LEMMA DeleteCharType ==
  ASSUME NEW e, IsEditor(e)
  PROVE  IsEditor(Editing!DeleteChar(e))
<1> DEFINE to == Editing!NextPosition(e.text, e.primary.at)
           rest == Editing!ClearSelection(Editing!ClampCursor([e EXCEPT
                     !.text =
                         Editing!Erase(@, Editing!Offset(@, e.primary.at), Editing!Offset(@, to))]))
<1>1. IsLoose(e) /\ IsText(e.text) /\ e.primary.at \in Editing!Places
  BY EditorIsLoose, LooseIs
<1>2. to \in Editing!Places
  BY <1>1, NextType, OnLine
<1> HIDE DEF to
<1>3. Editing!Offset(e.text, e.primary.at) \in Int /\ Editing!Offset(e.text, to) \in Int
  BY <1>1, <1>2, ClampType
<1>4. rest = Editing!ClearSelection(Editing!ClampCursor([e EXCEPT
               !.text = Editing!Erase(@, Editing!Offset(e.text, e.primary.at),
                   Editing!Offset(e.text, to))]))
  OBVIOUS
<1>5. IsEditor(rest)
  <2> HIDE DEF rest
  <2> QED BY <1>3, <1>4, ErasedType
<1> HIDE DEF rest
<1>6. IsEditor(Editing!DeleteAtAll(e)) /\ IsEditor(Editing!EraseSelection(e))
  BY <1>1, DeleteAtAllType, EraseSelectionType
<1> QED BY <1>5, <1>6 DEF Editing!DeleteChar, rest, to

\* What a word's keys erase lies between the cursor and a place in the text.
LEMMA EraseWordType ==
  ASSUME NEW e, IsEditor(e)
  PROVE  IsEditor(Editing!BackspaceWord(e)) /\ IsEditor(Editing!DeleteWord(e))
<1> DEFINE single == Editing!ClearExtras(e)
<1>1. IsLoose(e) /\ IsText(e.text) /\ e.primary.at \in Editing!Places
  BY EditorIsLoose, LooseIs
<1>2. IsEditor(single)
  BY ClearExtrasKeeps, KeepsIs
<1>3. Editing!PreviousWord(e.text, e.primary.at) \in Editing!Places
      /\ Editing!NextWord(e.text, e.primary.at) \in Editing!Places
  BY <1>1, WordType, OnLine
<1> HIDE DEF single
<1>4. /\ IsEditor(Editing!EraseRange(single, Editing!PreviousWord(e.text, e.primary.at),
             e.primary.at))
      /\ IsEditor(Editing!EraseRange(single, e.primary.at, Editing!NextWord(e.text, e.primary.at)))
      /\ IsEditor(Editing!EraseSelection(single))
  BY <1>1, <1>2, <1>3, EraseRangeType, EraseSelectionType
<1> QED BY <1>4 DEF Editing!BackspaceWord, Editing!DeleteWord, single

LEMMA DeleteLineKeyType ==
  ASSUME NEW e, IsEditor(e)
  PROVE  IsEditor(Editing!DeleteLine(e))
<1> DEFINE single == Editing!ClearExtras(e)
           t == Editing!DeleteLineAt(e.text, e.primary.at.line)
           f == [single EXCEPT !.text = t]
<1>1. IsText(e.text) /\ e.primary.at.line \in 0 .. Editing!LineCount(e.text) - 1
  BY EditorIsLoose, LooseIs, OnLine
<1>2. IsLoose(single) /\ single.text = e.text
  BY ClearExtrasKeeps, KeepsIs
<1>3. IsText(t)
  BY <1>1, DeleteLineType
<1> HIDE DEF t
<1>4. IsLoose(f)
  <2> HIDE DEF single
  <2> QED BY <1>2, <1>3, TextSet
<1>5. Editing!DeleteLine(e) = Editing!ClearSelection(Editing!ClampCursor(f))
  BY <1>2 DEF Editing!DeleteLine, t
<1> HIDE DEF f
<1>6. IsEditor(Editing!ClampCursor(f))
  BY <1>4, ClampCursorKeeps, KeepsIs
<1> QED BY <1>5, <1>6, ClearSelectionKeeps, KeepsIs

LEMMA OpenLineType ==
  ASSUME NEW e, IsEditor(e), NEW like \in 0 .. Editing!LastLine(e), NEW below \in BOOLEAN
  PROVE  IsEditor(Editing!OpenLine(e, like, below))
<1> DEFINE l == IF below THEN like + 1 ELSE like
           indent == SubSeq(Editing!Line(e.text, like), 1, Editing!IndentSize(e.text, like))
           new == IF l < Editing!LineCount(e.text)
                  THEN Editing!Insert(e.text, Editing!LineStart(e.text, l),
                      indent \o <<Editing!NL>>)
                  ELSE e.text \o <<Editing!NL>> \o indent
           single == Editing!ClearExtras(e)
           f == [single EXCEPT !.text = new]
<1>1. IsText(e.text) /\ IsLoose(e)
  BY EditorIsLoose, LooseIs
<1>2. Editing!LineCount(e.text) \in Nat /\ like \in 0 .. Editing!LineCount(e.text) - 1
  BY <1>1, LinesAreCounted, LastLineIs
<1>3. Editing!IndentSize(e.text, like) \in Int
  BY <1>1, <1>2, LineIsText
<1>4. IsText(indent)
  BY <1>3, PartIsText
<1>5. l \in Nat
  BY <1>2
<1> HIDE DEF l, indent
<1>6. Len(indent) \in Int /\ IsText(<<Editing!NL>>)
  BY <1>4, LengthIs, EmptyIsText
<1>7. IsText(indent \o <<Editing!NL>>) /\ IsText(e.text \o <<Editing!NL>> \o indent)
  <2>1. IsText(e.text \o <<Editing!NL>>)
    BY <1>1, <1>6, TextsJoin
  <2> QED BY <1>4, <1>6, <2>1, TextsJoin
<1>8. IsText(new)
  <2>1. CASE l < Editing!LineCount(e.text)
    <3>1. l \in 0 .. Editing!LineCount(e.text) - 1
      BY <1>2, <1>5, <2>1
    <3>2. Editing!LineStart(e.text, l) \in Int
      BY <1>1, <1>2, <3>1, LineStartIs, LengthIs
    <3>3. IsText(Editing!Insert(e.text, Editing!LineStart(e.text, l), indent \o <<Editing!NL>>))
      BY <1>1, <1>7, <3>2, InsertIsText
    <3> QED BY <2>1, <3>3
  <2>2. CASE ~(l < Editing!LineCount(e.text))
    BY <1>7, <2>2
  <2> QED BY <2>1, <2>2
<1> HIDE DEF new
<1>9. IsLoose(single)
  BY ClearExtrasKeeps, KeepsIs
<1>10. IsLoose(f)
  <2> HIDE DEF single
  <2> QED BY <1>8, <1>9, TextSet
<1>11. IsEditor(Editing!EnterInsertAt(f, Editing!At(l, Len(indent))))
  <2> HIDE DEF f
  <2>1. Editing!At(l, Len(indent)) \in Editing!Places
    BY <1>5, <1>6, AtIsPlace
  <2> QED BY <1>10, <2>1, EnterInsertKeeps, KeepsIs
<1> QED BY <1>11 DEF Editing!OpenLine, Editing!LineInserted, f, new, single, l, indent

-----------------------------------------------------------------------------
(* Keys that find nothing to erase *)

LEMMA OriginIsFirst ==
  ASSUME NEW t, IsText(t)
  PROVE  /\ Editing!Offset(t, Editing!Origin) = 0 /\ Editing!Position(t, 0) = Editing!Origin
         /\ Editing!PreviousPosition(t, Editing!Origin) = Editing!Origin
<1>1. Editing!LineCount(t) \in Nat /\ Editing!LineCount(t) >= 1 /\ Len(t) \in Nat
  BY LinesAreCounted
<1>2. 0 \in 0 .. Editing!LineCount(t) - 1
  BY <1>1
<1>3. Editing!LineStart(t, 0) = 0 /\ Editing!LineSize(t, 0) \in Int /\ Editing!LineSize(t, 0) >= 0
  BY <1>2, LineStartIs, LineSizeIs
<1>4. Editing!Least(0, Editing!LineCount(t) - 1) = 0 /\ Editing!Least(0, Editing!LineSize(t, 0)) = 0
      /\ Editing!Least(0, Len(t)) = 0
  BY <1>1, <1>3 DEF Editing!Least
<1>5. Editing!Origin.line = 0 /\ Editing!Origin.column = 0 /\ Editing!Origin = Editing!At(0, 0)
  BY DEF Editing!Origin, Editing!At
<1>6. Editing!Clamp(t, Editing!Origin) = Editing!Origin
  BY <1>4, <1>5 DEF Editing!Clamp, Editing!InLine
<1>7. Editing!Offset(t, Editing!Origin) = 0
  BY <1>3, <1>4, <1>5 DEF Editing!Offset, Editing!OffsetInLine
<1>8. Editing!NewlinesIn(t, 0) = 0
  BY NoNewlines
<1>9. Editing!Position(t, 0) = Editing!Origin
  BY <1>3, <1>4, <1>5, <1>8 DEF Editing!Position
<1>10. Editing!PreviousPosition(t, Editing!Origin) = Editing!Origin
  BY <1>5, <1>6 DEF Editing!PreviousPosition, Editing!PreviousFrom
<1> QED BY <1>7, <1>9, <1>10

LEMMA EndIsLast ==
  ASSUME NEW e, IsText(e.text)
  PROVE  LET z == Editing!EndOf(e, Editing!LastLine(e))
         IN  /\ Editing!Offset(e.text, z) = Len(e.text) /\ Editing!Position(e.text, Len(e.text)) = z
             /\ Editing!NextPosition(e.text, z) = z
<1> DEFINE t == e.text
           l == Editing!LineCount(t) - 1
           size == Editing!LineSize(t, l)
           z == Editing!At(l, size)
<1>1. Editing!LineCount(t) \in Nat /\ Editing!LineCount(t) >= 1 /\ Len(t) \in Nat
  BY LinesAreCounted
<1>2. l \in 0 .. Editing!LineCount(t) - 1 /\ l \in Nat
  BY <1>1
<1>3. Editing!LineStart(t, l) \in Int /\ size \in Int /\ size = Len(t) - Editing!LineStart(t, l)
  <2>1. Editing!LineStart(t, l) \in 0 .. Len(t)
    BY <1>2, LineStartIs
  <2> HIDE DEF l
  <2>2. Editing!LineSize(t, l) \in Int /\ Editing!LineSize(t, l) = Len(t) - Editing!LineStart(t, l)
    BY <1>2, LineSizeIs DEF l
  <2> QED BY <1>1, <2>1, <2>2
<1>4. Editing!Least(l, Editing!LineCount(t) - 1) = l /\ Editing!Least(size, size) = size
      /\ Editing!Least(Len(t), Len(t)) = Len(t)
  BY DEF Editing!Least
<1>5. z.line = l /\ z.column = size
  BY DEF Editing!At
<1>6. Editing!NewlinesIn(t, Len(t)) = l /\ Editing!LineCount(t) = l + 1
      /\ Editing!EndOf(e, Editing!LastLine(e)) = z
  <2>1. Len(t) \in Int
    BY <1>1
  <2>2. Editing!NewlinesIn(t, Len(t)) \in Nat
    BY <2>1, NewlinesType
  <2> QED BY <1>1, <2>2 DEF Editing!LineCount, Editing!EndOf, Editing!LastLine
<1> HIDE DEF l, size, t
<1>7. Editing!Clamp(t, z) = z
  BY <1>4, <1>5 DEF Editing!Clamp, Editing!InLine, size
<1>8. Editing!Offset(t, z) = Len(t)
  <2>1. Editing!Offset(t, z) = Editing!LineStart(t, l) + size
    BY <1>4, <1>5 DEF Editing!Offset, Editing!OffsetInLine, size
  <2> QED BY <1>1, <1>3, <2>1
<1>9. Editing!Position(t, Len(t)) = z
  BY <1>3, <1>4, <1>6 DEF Editing!Position
<1>10. Editing!NextPosition(t, z) = z
  <2>1. Editing!NextPosition(t, z) = Editing!NextFrom(t, z, size)
    BY <1>5, <1>7 DEF Editing!NextPosition, size
  <2>2. ~(z.column < size) /\ ~(z.line + 1 < Editing!LineCount(t))
    BY <1>2, <1>3, <1>5, <1>6
  <2> QED BY <2>1, <2>2 DEF Editing!NextFrom
<1> QED BY <1>6, <1>8, <1>9, <1>10 DEF t

\* When all cursors are at one place, so are all edits.
LEMMA AllAtOneOffset ==
  ASSUME NEW e, IsLoose(e), NEW p, ~Editing!NotAllAt(e, p)
  PROVE  /\ Editing!Begun(e).cursors \in Seq(CursorEdits)
         /\ \A n \in 1 .. Len(Editing!Begun(e).cursors) :
                Editing!Begun(e).cursors[n].offset = Editing!Offset(e.text, p)
<1> DEFINE o == Editing!Offset(e.text, p)
           X == {c \in CursorEdits : c.offset = o}
<1>1. e.primary.at = p /\ \A i \in DOMAIN e.extras : e.extras[i].at = p
  BY DEF Editing!NotAllAt
<1>2. IsText(e.text) /\ e.primary \in Cursors /\ DOMAIN e.extras = 1 .. Len(e.extras)
      /\ \A i \in DOMAIN e.extras : e.extras[i] \in Cursors
  BY LooseIs
<1>3. Editing!CursorEdit(e.text, e.primary, TRUE) \in X
  <2>1. Editing!CursorEdit(e.text, e.primary, TRUE) \in CursorEdits
    BY <1>2, CursorEditType
  <2> QED BY <1>1, <2>1 DEF Editing!CursorEdit
<1>4. ASSUME NEW i \in 1 .. Len(e.extras) PROVE Editing!CursorEdit(e.text, e.extras[i], FALSE) \in X
  <2>1. e.extras[i] \in Cursors /\ e.extras[i].at = p
    BY <1>1, <1>2
  <2>2. Editing!CursorEdit(e.text, e.extras[i], FALSE) \in CursorEdits
    BY <1>2, <2>1, CursorEditType
  <2> QED BY <2>1, <2>2 DEF Editing!CursorEdit
<1> HIDE DEF X
<1>5. Editing!CollectCursors(e) \in Seq(X) \ {<<>>}
  BY <1>3, <1>4, CollectType
<1>6. X \in SUBSET CursorEdits
  BY DEF X
<1>7. Editing!Begun(e).cursors \in Seq(X)
  BY <1>5, <1>6, AscendingType DEF Editing!Begun
<1>8. \A n \in 1 .. Len(Editing!Begun(e).cursors) : Editing!Begun(e).cursors[n] \in X
  BY <1>7
<1>9. Editing!Begun(e).cursors \in Seq(CursorEdits)
  BY <1>6, <1>7
<1> QED BY <1>8, <1>9 DEF X, o

\* A walk whose steps change nothing ends where it began.
LEMMA IdleWalk ==
  ASSUME NEW N \in Nat, NEW b, NEW w, w[0] = b,
         \A n \in 1 .. N : w[n - 1] = b => w[n] = b
  PROVE  w[N] = b
<1> DEFINE T == {n \in 0 .. N : w[n] = b}
<1>1. 0 \in T
  OBVIOUS
<1>2. \A n \in 1 .. N : n - 1 \in T => n \in T
  OBVIOUS
<1> HIDE DEF T
<1>3. 0 .. N \subseteq T /\ N \in 0 .. N
  BY <1>1, <1>2, UpTo
<1> QED BY <1>3 DEF T

LEMMA NothingErased ==
  ASSUME NEW s, NEW n, NEW from, NEW to, from = to
  PROVE  Editing!ErasedAt(s, n, from, to) = s
  BY DEF Editing!ErasedAt

LEMMA NoBackspace ==
  ASSUME NEW e, IsEditor(e), ~Editing!CanBackspace(e)
  PROVE  Editing!Backspace(e).text = e.text
<1>1. ~e.active /\ ~Editing!NotAllAt(e, Editing!Origin) /\ e.primary.at = Editing!Origin
  BY DEF Editing!CanBackspace, Editing!NotAllAt
<1>2. IsLoose(e) /\ IsText(e.text)
  BY EditorIsLoose, LooseIs
<1> DEFINE b == Editing!Begun(e)
           N == Len(b.cursors)
<1>3. N \in Nat \ {0} /\ IsUnderEdit(b, N) /\ b.text = e.text
  BY <1>2, BegunIs
<1>4. \A n \in 1 .. N : b.cursors[n].offset = 0
  <2>1. Editing!Offset(e.text, Editing!Origin) = 0
    BY <1>2, OriginIsFirst
  <2> QED BY <1>1, <1>2, <2>1, AllAtOneOffset
<1> HIDE DEF N
<1>5. PICK w : /\ w[0] = b
               /\ \A n \in 1 .. N : w[n] = Editing!BackspacedAt(w[n - 1], n)
               /\ Editing!BackspaceAtAll(e) = Editing!Edited(e, w[N])
  <2>1. Len(b.cursors) \in Nat
    BY <1>3 DEF N
  <2> HIDE DEF b
  <2> QED BY <2>1, BackspaceWalk DEF N, b
<1> HIDE DEF b
<1>6. ASSUME NEW n \in 1 .. N PROVE Editing!BackspacedAt(b, n) = b
  <2>1. Editing!Offset(b.text, Editing!PreviousPosition(b.text, Editing!Position(b.text, 0))) = 0
    BY <1>2, <1>3, OriginIsFirst
  <2> QED BY <1>4, <2>1, NothingErased DEF Editing!BackspacedAt
<1>7. w[N] = b
  BY <1>3, <1>5, <1>6, IdleWalk
<1>8. Editing!BackspaceAtAll(e).text = e.text
  <2>1. Editing!Edited(e, b).text = b.text
    BY <1>2, <1>3, StoredWithTextType
  <2> QED BY <1>3, <1>5, <1>7, <2>1
<1>9. ASSUME ~Editing!HasExtras(e) PROVE Editing!Backspace(e) = e
  <2>1. ~Editing!Erases(e)
    BY <1>1, <1>9, NothingSelected DEF Editing!Erases
  <2>2. Editing!Origin \in Editing!Places
    BY <1>2, OriginIsOnLine, OnLine
  <2>3. Editing!EraseRange(e, Editing!Origin, Editing!Origin) = e
    BY <2>2, EraseRangeType
  <2>4. Editing!PreviousPosition(e.text, e.primary.at) = e.primary.at
    BY <1>1, <1>2, OriginIsFirst
  <2> QED BY <1>1, <1>9, <2>1, <2>3, <2>4 DEF Editing!Backspace
<1>10. ASSUME Editing!HasExtras(e) PROVE Editing!Backspace(e) = Editing!BackspaceAtAll(e)
  <2>1. ~Editing!Erases(e)
    BY <1>1, NothingSelected DEF Editing!Erases
  <2> QED BY <1>1, <1>10, <2>1 DEF Editing!Backspace
<1> QED BY <1>8, <1>9, <1>10

LEMMA NoDeleteChar ==
  ASSUME NEW e, IsEditor(e), ~Editing!CanDeleteChar(e)
  PROVE  Editing!DeleteChar(e).text = e.text
<1> DEFINE z == Editing!EndOf(e, Editing!LastLine(e))
<1>1. ~e.active /\ ~Editing!NotAllAt(e, z) /\ e.primary.at = z
  BY DEF Editing!CanDeleteChar, Editing!NotAllAt
<1>2. IsLoose(e) /\ IsText(e.text)
  BY EditorIsLoose, LooseIs
<1>3. /\ Editing!Offset(e.text, z) = Len(e.text) /\ Editing!Position(e.text, Len(e.text)) = z
      /\ Editing!NextPosition(e.text, z) = z
  BY <1>2, EndIsLast
<1> HIDE DEF z
<1> DEFINE b == Editing!Begun(e)
           N == Len(b.cursors)
<1>4. N \in Nat \ {0} /\ IsUnderEdit(b, N) /\ b.text = e.text
  BY <1>2, BegunIs
<1>5. \A n \in 1 .. N : b.cursors[n].offset = Len(e.text)
  BY <1>1, <1>2, <1>3, AllAtOneOffset
<1> HIDE DEF N
<1>6. PICK w : /\ w[0] = b
               /\ \A n \in 1 .. N : w[n] = Editing!DeletedAt(w[n - 1], n)
               /\ Editing!DeleteAtAll(e) = Editing!Edited(e, w[N])
  <2>1. Len(b.cursors) \in Nat
    BY <1>4 DEF N
  <2> HIDE DEF b
  <2> QED BY <2>1, DeleteWalk DEF N, b
<1> HIDE DEF b
<1>7. ASSUME NEW n \in 1 .. N PROVE Editing!DeletedAt(b, n) = b
  BY <1>3, <1>4, <1>5, NothingErased DEF Editing!DeletedAt
<1>8. w[N] = b
  BY <1>4, <1>6, <1>7, IdleWalk
<1>9. Editing!DeleteAtAll(e).text = e.text
  <2>1. Editing!Edited(e, b).text = b.text
    BY <1>2, <1>4, StoredWithTextType
  <2> QED BY <1>4, <1>6, <1>8, <2>1
<1>10. ASSUME ~Editing!HasExtras(e) PROVE Editing!DeleteChar(e) = e
  <2>1. ~Editing!Erases(e)
    BY <1>1, <1>10, NothingSelected DEF Editing!Erases
  <2> QED BY <1>1, <1>3, <1>10, <2>1 DEF Editing!DeleteChar
<1>11. ASSUME Editing!HasExtras(e) PROVE Editing!DeleteChar(e) = Editing!DeleteAtAll(e)
  <2>1. ~Editing!Erases(e)
    BY <1>1, NothingSelected DEF Editing!Erases
  <2> QED BY <1>1, <1>11, <2>1 DEF Editing!DeleteChar
<1> QED BY <1>9, <1>10, <1>11

\* A word's keys are asked of the primary cursor, the only one they leave.
LEMMA NoWord ==
  ASSUME NEW e, IsEditor(e)
  PROVE  /\ ~Editing!CanBackspaceWord(e) => Editing!BackspaceWord(e).text = e.text
         /\ ~Editing!CanDeleteWord(e) => Editing!DeleteWord(e).text = e.text
<1> DEFINE single == Editing!ClearExtras(e)
<1>1. IsEditor(single) /\ single.text = e.text /\ ~Editing!HasExtras(single)
  BY ClearExtrasKeeps, KeepsIs
<1>2. single.active = e.active
  <2>1. DOMAIN e = Fields
    BY EditorIsLoose, LooseIs
  <2> QED BY <2>1 DEF Editing!ClearExtras, Fields
<1>3. IsLoose(e) /\ e.primary.at \in Editing!Places
  BY EditorIsLoose, LooseIs
<1> HIDE DEF single
<1>4. ~e.active => ~Editing!Erases(single)
  BY <1>1, <1>2, NothingSelected DEF Editing!Erases
<1>5. Editing!EraseRange(single, e.primary.at, e.primary.at) = single
  BY <1>1, <1>3, EraseRangeType
<1>6. ASSUME ~Editing!CanBackspaceWord(e) PROVE Editing!BackspaceWord(e) = single
  <2>1. ~e.active /\ Editing!PreviousWord(e.text, e.primary.at) = e.primary.at
    BY <1>6 DEF Editing!CanBackspaceWord
  <2> QED BY <1>4, <1>5, <2>1 DEF Editing!BackspaceWord, single
<1>7. ASSUME ~Editing!CanDeleteWord(e) PROVE Editing!DeleteWord(e) = single
  <2>1. ~e.active /\ Editing!NextWord(e.text, e.primary.at) = e.primary.at
    BY <1>7 DEF Editing!CanDeleteWord
  <2> QED BY <1>4, <1>5, <2>1 DEF Editing!DeleteWord, single
<1> QED BY <1>1, <1>6, <1>7

LEMMA NoDeleteLine ==
  ASSUME NEW e, IsEditor(e), ~Editing!CanDeleteLine(e)
  PROVE  Editing!DeleteLine(e).text = e.text
<1> DEFINE single == Editing!ClearExtras(e)
           l == e.primary.at.line
           f == [single EXCEPT !.text = <<>>]
<1>1. IsText(e.text) /\ l \in 0 .. Editing!LineCount(e.text) - 1
  BY EditorIsLoose, LooseIs, OnLine
<1>2. Editing!LineCount(e.text) \in Nat /\ Editing!LineCount(e.text) >= 1 /\ Len(e.text) \in Nat
  BY <1>1, LinesAreCounted
<1>3. Editing!LineCount(e.text) = 1 /\ l = 0 /\ Editing!LineSize(e.text, l) = 0
  BY <1>1, <1>2 DEF Editing!CanDeleteLine
<1> HIDE DEF l
<1>4. Len(e.text) = 0
  <2>1. Editing!LineStart(e.text, 0) = 0
        /\ Editing!LineSize(e.text, 0) = Len(e.text) - Editing!LineStart(e.text, 0)
    BY <1>1, <1>3, LineStartIs, LineSizeIs
  <2> QED BY <1>2, <1>3, <2>1
<1>5. e.text = <<>>
  BY <1>1, <1>4 DEF IsText
<1>6. IsLoose(single) /\ single.text = e.text
  BY ClearExtrasKeeps, KeepsIs
<1>7. Editing!DeleteLine(e) = Editing!ClearSelection(Editing!ClampCursor(f))
  <2>1. Editing!DeleteLineAt(single.text, l) = <<>>
    BY <1>3, <1>6 DEF Editing!DeleteLineAt
  <2>2. [single EXCEPT !.text = Editing!DeleteLineAt(@, l)] =
            [single EXCEPT !.text = Editing!DeleteLineAt(single.text, l)]
    OBVIOUS
  <2>3. Editing!DeleteLine(e) =
            Editing!ClearSelection(Editing!ClampCursor([single EXCEPT !.text =
                Editing!DeleteLineAt(@, l)]))
    BY DEF Editing!DeleteLine, l
  <2> HIDE DEF single
  <2> QED BY <2>1, <2>2, <2>3
<1>8. IsLoose(f) /\ f.text = <<>>
  <2> HIDE DEF single
  <2> QED BY <1>6, EmptyIsText, TextSet
<1> HIDE DEF f
<1>9. IsEditor(Editing!ClampCursor(f)) /\ Editing!ClampCursor(f).text = f.text
  BY <1>8, ClampCursorKeeps, KeepsIs
<1>10. Editing!ClearSelection(Editing!ClampCursor(f)).text = Editing!ClampCursor(f).text
  BY <1>9, ClearSelectionKeeps, KeepsIs
<1> QED BY <1>5, <1>7, <1>8, <1>9, <1>10

-----------------------------------------------------------------------------
(* Undo *)

IsSnapshot(s) ==
  IsText(s.text) /\ s.primary \in Cursors /\ s.extras \in Seq(Cursors)

IsStack(q) == IsText(q) /\ \A i \in 1 .. Len(q) : IsSnapshot(q[i])

LEMMA TextIsSequence ==
  ASSUME NEW t, IsText(t)
  PROVE  t \in Seq({t[i] : i \in 1 .. Len(t)})
<1> DEFINE X == {t[i] : i \in 1 .. Len(t)}
           N == Len(t)
<1>1. N \in Nat /\ t = [i \in 1 .. N |-> t[i]] /\ \A i \in 1 .. N : t[i] \in X
  BY DEF IsText
<1> HIDE DEF X, N
<1>2. [i \in 1 .. N |-> t[i]] \in Seq(X)
  BY <1>1
<1>3. t \in Seq(X)
  BY <1>1, <1>2
<1> QED BY <1>3 DEF X

LEMMA Pushed ==
  ASSUME NEW q, IsStack(q), NEW s, IsSnapshot(s)
  PROVE  IsStack(<<s>> \o q) /\ Len(<<s>> \o q) = Len(q) + 1 /\ Head(<<s>> \o q) = s
<1> DEFINE X == {q[i] : i \in 1 .. Len(q)} \cup {s}
           r == <<s>> \o q
<1>1. IsText(q) /\ \A i \in 1 .. Len(q) : IsSnapshot(q[i])
  BY DEF IsStack
<1>2. q \in Seq({q[i] : i \in 1 .. Len(q)})
  BY <1>1, TextIsSequence
<1>3. \A x \in X : IsSnapshot(x)
  BY <1>1
<1>4. s \in X /\ {q[i] : i \in 1 .. Len(q)} \subseteq X
  OBVIOUS
<1> HIDE DEF X
<1>5. q \in Seq(X)
  BY <1>2, <1>4
<1>6. r \in Seq(X) /\ Len(r) = Len(q) + 1 /\ Head(r) = s
  BY <1>4, <1>5
<1> HIDE DEF r
<1>7. IsText(r)
  BY <1>6, SequenceIsText
<1>8. \A i \in 1 .. Len(r) : r[i] \in X
  BY <1>6
<1> QED BY <1>3, <1>6, <1>7, <1>8 DEF IsStack, r

LEMMA Popped ==
  ASSUME NEW q, IsStack(q), q # <<>>
  PROVE  IsSnapshot(Head(q)) /\ IsStack(Tail(q))
<1> DEFINE X == {q[i] : i \in 1 .. Len(q)}
           r == Tail(q)
<1>1. IsText(q) /\ \A i \in 1 .. Len(q) : IsSnapshot(q[i])
  BY DEF IsStack
<1>2. q \in Seq(X)
  BY <1>1, TextIsSequence
<1>3. \A x \in X : IsSnapshot(x)
  BY <1>1
<1> HIDE DEF X
<1>4. Head(q) \in X /\ r \in Seq(X)
  BY <1>2
<1> HIDE DEF r
<1>5. IsText(r) /\ \A i \in 1 .. Len(r) : r[i] \in X
  BY <1>4, SequenceIsText
<1> QED BY <1>3, <1>4, <1>5 DEF IsStack, r

LEMMA SnapshotType ==
  ASSUME NEW e, IsEditor(e)
  PROVE  IsSnapshot(Editing!Snapshot(e)) /\ Editing!Snapshot(e).text = e.text
<1> DEFINE s == Editing!Snapshot(e)
           c == [e.primary EXCEPT !.preferred = e.primary.at.column]
<1>1. IsText(e.text) /\ e.primary \in Cursors /\ e.extras \in Seq(Cursors)
      /\ e.primary.at.column \in Int
  BY EditorIsLoose, LooseIs
<1>2. c \in Cursors
  BY <1>1 DEF Cursors
<1>3. s.text = e.text /\ s.primary = c /\ s.extras = e.extras
  BY DEF Editing!Snapshot
<1> HIDE DEF s, c
<1> QED BY <1>1, <1>2, <1>3 DEF IsSnapshot, s

LEMMA RestoredType ==
  ASSUME NEW e, IsEditor(e), NEW s, IsSnapshot(s)
  PROVE  IsEditor(Editing!Restored(e, s)) /\ Editing!Restored(e, s).text = Editing!Normal(s.text)
<1> DEFINE t == Editing!Normal(s.text)
           f == [e EXCEPT !.text = t, !.extras = s.extras, !.mode = s.mode,
                          !.primary = s.primary, !.active = s.active, !.pendingD = FALSE]
<1>1. IsText(t) /\ s.primary \in Cursors /\ s.extras \in Seq(Cursors)
  BY NormalIsText DEF IsSnapshot
<1>2. DOMAIN e = Fields
  BY EditorIsLoose, LooseIs
<1> HIDE DEF t
<1>3. DOMAIN f = Fields /\ f.text = t /\ f.primary = s.primary /\ f.extras = s.extras
  BY <1>2 DEF Fields
<1>4. Editing!Restored(e, s) = Editing!ClampCursor(f)
  BY DEF Editing!Restored, t
<1> HIDE DEF f
<1>5. IsLoose(f)
  BY <1>1, <1>3 DEF IsLoose
<1>6. IsEditor(Editing!ClampCursor(f)) /\ Editing!ClampCursor(f).text = f.text
  BY <1>5, ClampCursorKeeps, KeepsIs
<1> QED BY <1>3, <1>4, <1>6 DEF t

-----------------------------------------------------------------------------
(* Every edit is saved *)

Editable == IsEditor(editor) /\ IsStack(undo) /\ IsStack(redo)

\* What a step owes to the text it changes.
IsSaved ==
  editor'.text # editor.text =>
    \/ Len(undo') = Len(undo) + 1 /\ Head(undo').text = editor.text
    \/ /\ Len(redo') = Len(redo) + 1 /\ Head(redo').text = editor.text
       /\ editor'.text = Editing!Normal(Head(undo).text)

LEMMA OpenedType ==
  ASSUME NEW t, IsText(t), NEW o \in Int
  PROVE  IsEditor(Editing!Opened(t, Editing!Position(t, o)))
<1> DEFINE p == Editing!Position(t, o)
           f == Editing!Opened(t, p)
<1>1. p \in PlacesOf(t)
  BY PositionType
<1> HIDE DEF p
<1>2. Editing!Cursor(p) \in CursorsOf(t)
  BY <1>1, OnLine DEF Editing!Cursor, Cursors, CursorsOf
<1>3. DOMAIN f = Fields /\ f.text = t /\ f.primary = Editing!Cursor(p) /\ f.extras = <<>>
  BY DEF Editing!Opened, Fields
<1> HIDE DEF f
<1>4. f.primary \in CursorsOf(f.text) /\ f.extras \in Seq(Cursors) /\ IsText(f.text)
  BY <1>2, <1>3
<1>5. IsEditor(f)
  BY <1>3, <1>4, IsEditorIf
<1> QED BY <1>5 DEF f, p

LEMMA StartsEditable ==
  Editing!Init => Editable
<1> SUFFICES ASSUME Editing!Init PROVE Editable
  OBVIOUS
<1>1. PICK t \in Files : \E o \in 0 .. Len(Editing!Normal(t)) :
               editor = Editing!Opened(Editing!Normal(t), Editing!Position(Editing!Normal(t), o))
  BY DEF Editing!Init
<1>2. IsText(Editing!Normal(t))
  BY FilesAssumption, SequenceIsText, NormalIsText
<1>3. Len(Editing!Normal(t)) \in Nat
  BY <1>2, LengthIs
<1>4. PICK o \in 0 .. Len(Editing!Normal(t)) :
               editor = Editing!Opened(Editing!Normal(t), Editing!Position(Editing!Normal(t), o))
  BY <1>1
<1>5. IsEditor(editor)
  BY <1>2, <1>3, <1>4, OpenedType
<1>6. IsStack(<<>>)
  BY EmptyIsText DEF IsStack
<1> QED BY <1>5, <1>6 DEF Editing!Init, Editable

LEMMA BecomesType ==
  ASSUME NEW f, IsEditor(f), NEW last, Editing!Becomes(f, last)
  PROVE  IsEditor(editor') /\ editor'.text = f.text
<1>1. IsEditor(Editing!ClampCursor(f)) /\ Editing!ClampCursor(f).text = f.text
  BY EditorIsLoose, ClampCursorKeeps, KeepsIs
<1> QED BY <1>1 DEF Editing!Becomes

LEMMA MovesAreSaved ==
  ASSUME Editable, NEW f, Keeps(f, editor), NEW last, Editing!Moves(f, last)
  PROVE  Editable' /\ IsSaved
<1>1. IsEditor(f) /\ f.text = editor.text
  BY KeepsIs
<1>2. IsEditor(editor') /\ editor'.text = f.text
  BY <1>1, BecomesType DEF Editing!Moves
<1>3. IsStack(undo') /\ IsStack(redo')
  BY DEF Editing!Moves, Editable
<1> QED BY <1>1, <1>2, <1>3 DEF Editable, IsSaved

LEMMA EditIsSaved ==
  ASSUME Editable, NEW f, IsEditor(f), NEW saves, ~saves => f.text = editor.text,
         NEW last, Editing!Edits(f, saves, last)
  PROVE  Editable' /\ IsSaved
<1> DEFINE s == Editing!Snapshot(editor)
<1>1. IsEditor(editor) /\ IsStack(undo) /\ IsStack(redo)
  BY DEF Editable
<1>2. IsEditor(editor') /\ editor'.text = f.text
  BY BecomesType DEF Editing!Edits
<1>3. IsSnapshot(s) /\ s.text = editor.text
  BY <1>1, SnapshotType
<1> HIDE DEF s
<1>4. IsStack(<<s>> \o undo) /\ Len(<<s>> \o undo) = Len(undo) + 1 /\ Head(<<s>> \o undo) = s
  BY <1>1, <1>3, Pushed
<1>5. CASE saves
  <2>1. undo' = <<s>> \o undo /\ redo' = <<>>
    BY <1>5 DEF Editing!Edits, Editing!SaveUndo, s
  <2>2. IsStack(<<>>)
    BY EmptyIsText DEF IsStack
  <2> QED BY <1>2, <1>3, <1>4, <2>1, <2>2 DEF Editable, IsSaved
<1>6. CASE ~saves
  BY <1>1, <1>2, <1>6 DEF Editing!Edits, Editable, IsSaved
<1> QED BY <1>5, <1>6

\* One key, whatever it is, leaves an editor and saves what it changes.
LEMMA KeyIsSaved ==
  ASSUME Editable, NEW last \in BOOLEAN, Editing!Key(last)
  PROVE  Editable' /\ IsSaved
<1> DEFINE e == editor
           r == Editing!Selection(editor)
           here == editor.primary.at
<1>1. IsEditor(e) /\ IsLoose(e) /\ IsText(e.text) /\ IsStack(undo) /\ IsStack(redo)
  BY EditorIsLoose, LooseIs DEF Editable
<1>2. /\ here \in PlacesOf(e.text) /\ here \in Editing!Places
      /\ here.line \in 0 .. Editing!LastLine(e) /\ here.line \in Nat /\ here.column \in Int
  BY <1>1, EditorIsLoose, OnLine
<1>3. r \in SpansOf(e.text)
  BY <1>1, SelectionIs
<1>4. /\ r.start \in Editing!Places /\ r.end \in Editing!Places /\ r.start.line \in Nat
      /\ r.start.line \in 0 .. Editing!LastLine(e)
      /\ Editing!SelectionLastLine(e, r) \in 0 .. Editing!LastLine(e)
  BY <1>1, <1>3, SpanIs, OnLine, LastLineIs, SelectionLastLineType
<1>5. \A l \in 0 .. Editing!LastLine(e) : Editing!EndOf(e, l) \in Editing!Places
  BY <1>1, LastLineIs, OnLine
<1>6. DOMAIN e = Fields
  BY <1>1, LooseIs
<1> HIDE DEF e, r, here
<1>7. ASSUME NEW ch, Editing!Type(ch, last) PROVE Editable' /\ IsSaved
  <2>1. Editing!Edits(Editing!InsertChar(e, ch), TRUE, last)
    BY <1>7 DEF Editing!Type, e
  <2> QED BY <1>1, <2>1, InsertCharType, EditIsSaved
<1>8. ASSUME NEW ch, Editing!ReplaceChar(ch, last) PROVE Editable' /\ IsSaved
  <2> DEFINE less == IF r.active THEN Editing!EraseSelection(e) ELSE Editing!DeleteChar(e)
  <2>1. IsEditor(less)
    BY <1>1, EraseSelectionType, DeleteCharType
  <2>2. Editing!Edits(Editing!InsertChar(less, ch), TRUE, last)
    BY <1>8 DEF Editing!ReplaceChar, e, r
  <2> HIDE DEF less
  <2> QED BY <2>1, <2>2, InsertCharType, EditIsSaved
<1>9. ASSUME Editing!Enter(last) PROVE Editable' /\ IsSaved
  <2>1. Editing!Edits(Editing!InsertIndentedNewline(e), TRUE, last)
    BY <1>9 DEF Editing!Enter, e
  <2> QED BY <1>1, <2>1, NewlineType, EditIsSaved
<1>10. ASSUME Editing!BackspaceKey(last) PROVE Editable' /\ IsSaved
  <2>1. Editing!Edits(Editing!Backspace(e), Editing!CanBackspace(e), last)
    BY <1>10 DEF Editing!BackspaceKey, e
  <2>2. ~Editing!CanBackspace(e) => Editing!Backspace(e).text = editor.text
    BY <1>1, NoBackspace DEF e
  <2> QED BY <1>1, <2>1, <2>2, BackspaceType, EditIsSaved
<1>11. ASSUME Editing!CtrlBackspace(last) PROVE Editable' /\ IsSaved
  <2>1. Editing!Edits(Editing!BackspaceWord(e), Editing!CanBackspaceWord(e), last)
    BY <1>11 DEF Editing!CtrlBackspace, e
  <2>2. ~Editing!CanBackspaceWord(e) => Editing!BackspaceWord(e).text = editor.text
    BY <1>1, NoWord DEF e
  <2> QED BY <1>1, <2>1, <2>2, EraseWordType, EditIsSaved
<1>12. ASSUME Editing!DeleteKey(last) PROVE Editable' /\ IsSaved
  <2>1. Editing!Edits(Editing!DeleteChar(e), Editing!CanDeleteChar(e), last)
    BY <1>12 DEF Editing!DeleteKey, e
  <2>2. ~Editing!CanDeleteChar(e) => Editing!DeleteChar(e).text = editor.text
    BY <1>1, NoDeleteChar DEF e
  <2> QED BY <1>1, <2>1, <2>2, DeleteCharType, EditIsSaved
<1>13. ASSUME Editing!CtrlDelete(last) PROVE Editable' /\ IsSaved
  <2>1. Editing!Edits(Editing!DeleteWord(e), Editing!CanDeleteWord(e), last)
    BY <1>13 DEF Editing!CtrlDelete, e
  <2>2. ~Editing!CanDeleteWord(e) => Editing!DeleteWord(e).text = editor.text
    BY <1>1, NoWord DEF e
  <2> QED BY <1>1, <2>1, <2>2, EraseWordType, EditIsSaved
<1>14. ASSUME NEW b \in BOOLEAN PROVE Keeps([e EXCEPT !.pendingD = b], e)
  <2> DEFINE f == [e EXCEPT !.pendingD = b]
  <2>1. DOMAIN f = Fields /\ f.text = e.text /\ f.primary = e.primary /\ f.extras = e.extras
    BY <1>6 DEF Fields
  <2> HIDE DEF f
  <2>2. Keeps(f, e)
    BY <1>1, <2>1, OthersKeep
  <2> QED BY <2>2 DEF f
<1>15. ASSUME Editing!D(last) PROVE Editable' /\ IsSaved
  <2>1. CASE r.active
    <3>1. Editing!Edits(Editing!EraseSelection(e), TRUE, last)
      BY <1>15, <2>1 DEF Editing!D, e, r
    <3> QED BY <1>1, <3>1, EraseSelectionType, EditIsSaved
  <2>2. CASE ~r.active
    <3>1. Editing!Moves([e EXCEPT !.pendingD = TRUE], last)
      BY <1>15, <2>2 DEF Editing!D, e, r
    <3> QED BY <1>14, <3>1, MovesAreSaved DEF e
  <2> QED BY <2>1, <2>2
<1>16. ASSUME Editing!SecondD(last) PROVE Editable' /\ IsSaved
  <2> DEFINE d == Editing!DeleteLine(e)
             f == [d EXCEPT !.pendingD = FALSE]
  <2>1. IsEditor(d) /\ (~Editing!CanDeleteLine(e) => d.text = e.text)
    BY <1>1, DeleteLineKeyType, NoDeleteLine
  <2>2. Editing!Edits(f, Editing!CanDeleteLine(e), last)
    BY <1>16 DEF Editing!SecondD, e
  <2> HIDE DEF d
  <2>3. DOMAIN f = Fields /\ f.text = d.text /\ f.primary = d.primary /\ f.extras = d.extras
    <3>1. DOMAIN d = Fields
      BY <2>1, EditorIsLoose, LooseIs
    <3> QED BY <3>1 DEF Fields
  <2> HIDE DEF f
  <2>4. IsEditor(f) /\ f.text = d.text
    BY <2>1, <2>3, OthersKeep, KeepsIs
  <2> QED BY <2>1, <2>2, <2>4, EditIsSaved DEF e
<1>17. ASSUME Editing!OtherThanD(last) PROVE Editable' /\ IsSaved
  <2>1. Editing!Moves([e EXCEPT !.pendingD = FALSE], last)
    BY <1>17 DEF Editing!OtherThanD, e
  <2> QED BY <1>14, <2>1, MovesAreSaved DEF e
<1>18. ASSUME Editing!Change(last) PROVE Editable' /\ IsSaved
  <2> DEFINE less == IF r.active THEN Editing!EraseSelection(e)
                     ELSE IF Editing!CanDeleteChar(e) THEN Editing!DeleteChar(e) ELSE e
             saves == r.active \/ Editing!CanDeleteChar(e)
  <2>1. IsEditor(less) /\ (~saves => less = e)
    BY <1>1, EraseSelectionType, DeleteCharType
  <2>2. Editing!Edits(Editing!EnterInsert(less), saves, last)
    BY <1>18 DEF Editing!Change, e, r
  <2> HIDE DEF less, saves
  <2>3. less.primary.at \in Editing!Places /\ IsLoose(less)
    BY <2>1, EditorIsLoose, LooseIs
  <2>4. IsEditor(Editing!EnterInsert(less)) /\ Editing!EnterInsert(less).text = less.text
    BY <2>3, EnterInsertKeeps, KeepsIs DEF Editing!EnterInsert
  <2> QED BY <2>1, <2>2, <2>4, EditIsSaved DEF e
<1>19. ASSUME NEW below \in BOOLEAN, Editing!Open(below, last) PROVE Editable' /\ IsSaved
  <2> DEFINE like == CASE ~r.active -> here.line
                       [] r.active /\ below -> Editing!SelectionLastLine(e, r)
                       [] OTHER -> r.start.line
  <2>1. like \in 0 .. Editing!LastLine(e)
    BY <1>2, <1>4
  <2>2. Editing!Edits(Editing!OpenLine(e, like, below), TRUE, last)
    BY <1>19 DEF Editing!Open, e, r, here
  <2> HIDE DEF like
  <2> QED BY <1>1, <2>1, <2>2, OpenLineType, EditIsSaved
<1>20. ASSUME NEW p \in Editing!Places, NEW f, Keeps(f, e)
       PROVE  Keeps(Editing!EnterInsertAt(e, p), e) /\ Keeps(Editing!EnterInsert(f), e)
  <2>1. IsLoose(f) /\ f.primary.at \in Editing!Places
    BY <1>20, KeepsIs, EditorIsLoose, LooseIs
  <2>2. Keeps(Editing!EnterInsert(f), f)
    BY <2>1, EnterInsertKeeps DEF Editing!EnterInsert
  <2> QED BY <1>1, <1>20, <2>2, EnterInsertKeeps, KeepsTwice
<1>21. ASSUME Editing!InsertHere(last) PROVE Editable' /\ IsSaved
  <2> DEFINE p == IF r.active THEN r.start ELSE here
  <2>1. p \in Editing!Places
    BY <1>2, <1>4
  <2>2. Editing!Moves(Editing!EnterInsertAt(e, p), last)
    BY <1>21 DEF Editing!InsertHere, e, r, here
  <2> HIDE DEF p
  <2>3. Keeps(Editing!EnterInsertAt(e, p), editor)
    BY <1>1, <2>1, EnterInsertKeeps DEF e
  <2> QED BY <2>2, <2>3, MovesAreSaved
<1>22. ASSUME Editing!InsertAtLineStart(last) PROVE Editable' /\ IsSaved
  <2> DEFINE all == Editing!MoveAllLineStart(e, FALSE)
             l == IF r.active THEN r.start.line ELSE here.line
             p == Editing!At(l, 0)
             f == IF Editing!HasExtras(e)
             /\ ~r.active THEN Editing!EnterInsert(all) ELSE Editing!EnterInsertAt(e, p)
  <2>1. p \in Editing!Places
    BY <1>2, <1>4, AtIsPlace
  <2>2. Keeps(all, e)
    BY <1>1, MoveAllToEdgeKeeps
  <2>3. Editing!Moves(f, last)
    BY <1>22 DEF Editing!InsertAtLineStart, e, r, here
  <2> HIDE DEF all, p
  <2>4. Keeps(f, e)
    BY <1>20, <2>1, <2>2
  <2> HIDE DEF f
  <2> QED BY <2>3, <2>4, MovesAreSaved DEF e
<1>23. ASSUME Editing!AppendHere(last) PROVE Editable' /\ IsSaved
  <2> DEFINE to == [p \in Editing!Places |-> Editing!NextPosition(e.text, p)]
             all == Editing!MoveAllBy(e, to, FALSE)
             p == IF r.active THEN r.end ELSE Editing!At(here.line, here.column + 1)
             f == IF Editing!HasExtras(e)
             /\ ~r.active THEN Editing!EnterInsert(all) ELSE Editing!EnterInsertAt(e, p)
  <2>1. p \in Editing!Places
    <3>1. here.column + 1 \in Int
      BY <1>2
    <3> QED BY <1>2, <1>4, <3>1, AtIsPlace
  <2>2. \A q \in PlacesOf(e.text) : to[q] \in Editing!Places
    BY <1>1, NextType, OnLine
  <2>3. Editing!Moves(f, last)
    BY <1>23 DEF Editing!AppendHere, e, r, here
  <2> HIDE DEF to
  <2>4. Keeps(all, e)
    BY <1>1, <2>2, MoveAllByKeeps
  <2> HIDE DEF all, p
  <2>5. Keeps(f, e)
    BY <1>20, <2>1, <2>4
  <2> HIDE DEF f
  <2> QED BY <2>3, <2>5, MovesAreSaved DEF e
<1>24. ASSUME Editing!AppendToLine(last) PROVE Editable' /\ IsSaved
  <2> DEFINE all == Editing!MoveAllLineEnd(e, FALSE)
             l == IF r.active THEN Editing!SelectionLastLine(e, r) ELSE here.line
             p == Editing!EndOf(e, l)
             f == IF Editing!HasExtras(e)
             /\ ~r.active THEN Editing!EnterInsert(all) ELSE Editing!EnterInsertAt(e, p)
  <2>1. p \in Editing!Places
    BY <1>2, <1>4, <1>5
  <2>2. Keeps(all, e)
    BY <1>1, MoveAllToEdgeKeeps
  <2>3. Editing!Moves(f, last)
    BY <1>24 DEF Editing!AppendToLine, e, r, here
  <2> HIDE DEF all, p
  <2>4. Keeps(f, e)
    BY <1>20, <2>1, <2>2
  <2> HIDE DEF f
  <2> QED BY <2>3, <2>4, MovesAreSaved DEF e
<1>25. ASSUME NEW mode, Editing!Visual(mode, last) PROVE Editable' /\ IsSaved
  <2>1. Editing!Moves(Editing!SetVisualMode(e, mode), last)
    BY <1>25 DEF Editing!Visual, e
  <2> QED BY <1>1, <2>1, SetVisualModeKeeps, MovesAreSaved DEF e
<1>26. ASSUME Editing!Comma(last) PROVE Editable' /\ IsSaved
  <2>1. Editing!Moves(Editing!ClearSelection(Editing!ClearExtras(e)), last)
    BY <1>26 DEF Editing!Comma, e
  <2>2. Keeps(Editing!ClearSelection(Editing!ClearExtras(e)), e)
    BY <1>1, ClearExtrasKeeps, ClearSelectionKeeps, KeepsIs, KeepsTwice
  <2> QED BY <2>1, <2>2, MovesAreSaved DEF e
<1>27. ASSUME Editing!SelectAllKey(last) PROVE Editable' /\ IsSaved
  <2>1. Editing!Moves(Editing!SelectAll(e), last)
    BY <1>27 DEF Editing!SelectAllKey, e
  <2> QED BY <1>1, <2>1, SelectAllKeeps, MovesAreSaved DEF e
<1>28. ASSUME Editing!Escape(last) PROVE Editable' /\ IsSaved
  <2> DEFINE s == [e EXCEPT !.insert = FALSE, !.pendingD = FALSE]
             left == Editing!ClearSelection(Editing!ClampCursor(s))
             f == IF ~e.insert /\ ~e.active THEN Editing!ClearExtras(left) ELSE left
  <2>1. DOMAIN s = Fields /\ s.text = e.text /\ s.primary = e.primary /\ s.extras = e.extras
    BY <1>6 DEF Fields
  <2>2. Editing!Moves(f, last)
    BY <1>28 DEF Editing!Escape, e
  <2> HIDE DEF s
  <2>3. Keeps(s, e)
    BY <1>1, <2>1, OthersKeep
  <2>4. Keeps(Editing!ClampCursor(s), e)
    BY <2>3, ClampCursorKeeps, KeepsIs, KeepsTwice
  <2>5. Keeps(left, e)
    BY <2>4, ClearSelectionKeeps, KeepsIs, KeepsTwice
  <2> HIDE DEF left
  <2>6. Keeps(Editing!ClearExtras(left), e)
    BY <2>5, ClearExtrasKeeps, KeepsIs, KeepsTwice
  <2>7. Keeps(f, e)
    BY <2>5, <2>6
  <2> HIDE DEF f
  <2> QED BY <2>2, <2>7, MovesAreSaved DEF e
<1>29. ASSUME NEW direction \in {-1, 1}, Editing!AddCursor(direction, last)
       PROVE Editable' /\ IsSaved
  <2>1. Editing!Moves(Editing!AddCursorLine(e, direction), last) /\ direction \in Int
    BY <1>29 DEF Editing!AddCursor, e
  <2> QED BY <1>1, <2>1, AddCursorKeeps, MovesAreSaved DEF e
<1>30. ASSUME NEW shift \in BOOLEAN, NEW move \in Editing!Arrows,
                  Editing!ArrowKey(move, shift, last)
       PROVE  Editable' /\ IsSaved
  <2> DEFINE select == Editing!Selecting(shift)
  <2>1. Editing!Moves(Editing!Arrow(e, move, select), last)
    BY <1>30 DEF Editing!ArrowKey, e
  <2> HIDE DEF select
  <2> QED BY <1>1, <2>1, ArrowKeeps, MovesAreSaved DEF e
<1>31. ASSUME NEW shift \in BOOLEAN, Editing!Home(shift, last) \/ Editing!End(shift, last)
       PROVE  Editable' /\ IsSaved
  <2> DEFINE select == Editing!Selecting(shift)
  <2>1. Editing!Moves(Editing!MoveLineStart(e, select),
            last) \/ Editing!Moves(Editing!MoveLineEnd(e, select), last)
    BY <1>31 DEF Editing!Home, Editing!End, e
  <2> HIDE DEF select
  <2> QED BY <1>1, <2>1, MoveToEdgeKeeps, MovesAreSaved DEF e
<1> DEFINE s == Editing!Snapshot(e)
<1>32. IsSnapshot(s) /\ s.text = e.text
  BY <1>1, SnapshotType
<1> HIDE DEF s
<1>33. /\ IsStack(<<s>> \o undo) /\ Len(<<s>> \o undo) = Len(undo) + 1 /\ Head(<<s>> \o undo) = s
       /\ IsStack(<<s>> \o redo) /\ Len(<<s>> \o redo) = Len(redo) + 1 /\ Head(<<s>> \o redo) = s
  BY <1>1, <1>32, Pushed
<1>34. ASSUME Editing!Undo(last) PROVE Editable' /\ IsSaved
  <2>1. undo # <<>> /\ undo' = Tail(undo) /\ redo' = <<s>> \o redo
        /\ Editing!Becomes(Editing!Restored(e, Head(undo)), last)
    BY <1>34 DEF Editing!Undo, e, s
  <2>2. IsSnapshot(Head(undo)) /\ IsStack(Tail(undo))
    BY <1>1, <2>1, Popped
  <2>3. /\ IsEditor(Editing!Restored(e, Head(undo)))
        /\ Editing!Restored(e, Head(undo)).text = Editing!Normal(Head(undo).text)
    BY <1>1, <2>2, RestoredType
  <2>4. IsEditor(editor') /\ editor'.text = Editing!Normal(Head(undo).text)
    BY <2>1, <2>3, BecomesType
  <2> QED BY <1>32, <1>33, <2>1, <2>2, <2>4 DEF Editable, IsSaved, e
<1>35. ASSUME Editing!Redo(last) PROVE Editable' /\ IsSaved
  <2>1. redo # <<>> /\ redo' = Tail(redo) /\ undo' = <<s>> \o undo
        /\ Editing!Becomes(Editing!Restored(e, Head(redo)), last)
    BY <1>35 DEF Editing!Redo, e, s
  <2>2. IsSnapshot(Head(redo)) /\ IsStack(Tail(redo))
    BY <1>1, <2>1, Popped
  <2>3. IsEditor(Editing!Restored(e, Head(redo)))
    BY <1>1, <2>2, RestoredType
  <2>4. IsEditor(editor')
    BY <2>1, <2>3, BecomesType
  <2> QED BY <1>32, <1>33, <2>1, <2>2, <2>4 DEF Editable, IsSaved, e
<1> QED
  BY <1>7, <1>8, <1>9, <1>10, <1>11, <1>12, <1>13, <1>15, <1>16, <1>17, <1>18, <1>19, <1>21,
     <1>22, <1>23, <1>24, <1>25, <1>26, <1>27, <1>28, <1>29, <1>30, <1>31, <1>34, <1>35, Zenon
  DEF Editing!Key

\* After any keys the text is a sequence, the first cursor is on a line of it
\* (clamp_cursor, store_cursors), the others are positions, and undo and redo hold texts
\* with positions (push_editor_snapshot).
THEOREM EditorType ==
  Editing!Spec => []Editable
<1>1. Editing!Init => Editable
  BY StartsEditable
<1>2. Editable /\ [Editing!Next]_Editing!vars => Editable'
  <2> SUFFICES ASSUME Editable, [Editing!Next]_Editing!vars PROVE Editable'
    OBVIOUS
  <2>1. CASE Editing!Next
    BY <2>1, KeyIsSaved DEF Editing!Next
  <2>2. CASE UNCHANGED Editing!vars
    BY <2>2 DEF Editing!vars, Editable
  <2> QED BY <2>1, <2>2
<1> QED BY <1>1, <1>2, PTL DEF Editing!Spec

\* No key loses text, whatever the cursors and selections: the text before a key that
\* changes it is on top of a stack, the undo stack after an edit (save_editor_undo, called
\* only if can_backspace, can_delete_char and their like say so) or a redo, the redo stack
\* after an undo, which gives back what the undo stack held (restore_editor_stack).
THEOREM EveryEditIsSaved ==
  Editing!Spec => EditsAreSaved
<1>1. Editable /\ [Editing!Next]_Editing!vars => [IsSaved]_Editing!vars
  <2> SUFFICES ASSUME Editable, [Editing!Next]_Editing!vars PROVE [IsSaved]_Editing!vars
    OBVIOUS
  <2>1. CASE Editing!Next
    BY <2>1, KeyIsSaved DEF Editing!Next
  <2>2. CASE UNCHANGED Editing!vars
    BY <2>2
  <2> QED BY <2>1, <2>2
<1>2. Editing!Spec => []Editable
  BY EditorType
<1>3. Editing!Spec => [][IsSaved]_Editing!vars
  BY <1>1, <1>2, PTL DEF Editing!Spec
<1> QED BY <1>3 DEF EditsAreSaved, Editing!EditsAreSaved, IsSaved
=============================================================================
