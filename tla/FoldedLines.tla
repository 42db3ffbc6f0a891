----------------------------- MODULE FoldedLines -----------------------------
(***************************************************************************)
(* Folding in the code editor (editor_model.cpp): which lines are hidden,   *)
(* and the three walks over the folded ranges that say how many lines are   *)
(* visible, which the i-th of them is and which of them a line is.  They    *)
(* place the cursor, the clicks and the scroll bar.                         *)
(*                                                                         *)
(* The ranges that may be folded come from a language server or from the    *)
(* editor's own look at JSON, for one revision of the text; folds are of    *)
(* one revision too.  What is folded of another revision only counts as not *)
(* `current` here.  A loop over ranges is a function of how many of them it *)
(* has passed.                                                              *)
(***************************************************************************)
EXTENDS Integers, Sequences, FiniteSets, SequencesExt

CONSTANTS
  Outlines,         \* texts: how many lines, and which ranges of them can be folded
  Word              \* the numbers of a size_t; 2^64 in the code

\* Both sources of ranges keep those with more than one line only.
ASSUME OutlinesAssumption ==
  /\ Word \in Nat
  /\ \A o \in Outlines :
       /\ o.lines \in 1 .. Word - 1
       /\ o.ranges \in Seq([start : Nat, end : Nat])
       /\ \A i \in DOMAIN o.ranges : o.ranges[i].start < o.ranges[i].end

VARIABLES
  outline,          \* the text
  known,            \* its ranges are those of the bridge
  folded,           \* folded_ranges
  current,          \* folded_revision is the revision of the text
  cursor            \* the line of the cursor

vars == <<outline, known, folded, current, cursor>>

Lesser(m, n) == IF m < n THEN m ELSE n

lines == outline.lines
Lines == 0 .. lines - 1
FirstOf(S) == CHOOSE x \in S : \A y \in S : x <= y
LastOf(S) == CHOOSE x \in S : \A y \in S : y <= x

\* By the line where they start, then those that end later first.
Precedes(ranges, i, j) ==
  LET r == ranges[i]
      s == ranges[j]
  IN  \/ r.start < s.start
      \/ r.start = s.start /\ (r.end > s.end \/ (r.end = s.end /\ i < j))

\* The ranges of the indices in S, sorted: the n-th has n - 1 before it.
Sorted(ranges, S) ==
  LET Rank(i) == Cardinality({j \in S : Precedes(ranges, j, i)})
  IN  [n \in 1 .. Cardinality(S) |-> ranges[CHOOSE i \in S : Rank(i) = n - 1]]

FoldRangeValid(r) == r.start < r.end /\ r.end < lines
Folds == IF current THEN folded ELSE <<>>

\* editor_fold_from_lsp of every range of the text
Clamped ==
  [i \in DOMAIN outline.ranges |->
     [start |-> Lesser(outline.ranges[i].start, lines - 1),
      end   |-> Lesser(outline.ranges[i].end, lines - 1)]]

\* lsp_folding_ranges, those that editor_fold_from_lsp takes
KnownRanges ==
  IF known THEN Sorted(Clamped, {i \in DOMAIN Clamped : FoldRangeValid(Clamped[i])}) ELSE <<>>

\* fold_range_starting_at_line takes the first of them.
StartingAt(ranges, l) == {i \in DOMAIN ranges : ranges[i].start = l /\ FoldRangeValid(ranges[i])}

\* folded_header_for_line: back from the last fold that starts before the line, until
\* one of them ends before it.
HeaderIn(folds, l) ==
  LET before == {i \in DOMAIN folds : folds[i].start < l}
      over == {i \in before : FoldRangeValid(folds[i]) /\ l <= folds[i].end}
      ended == {i \in before : folds[i].end < l}
  IN  IF over = {} \/ \E i \in ended : i > LastOf(over) THEN l ELSE folds[LastOf(over)].start

Header(l) == HeaderIn(Folds, l)
LineHidden(l) == Header(l) # l
LineFolded(l) == StartingAt(Folds, l) # {}

-----------------------------------------------------------------------------
(* The walks *)

\* The lines up to the end of fold r are counted.
Counted(s, r) ==
  IF ~FoldRangeValid(r) \/ r.end < s.line THEN s
  ELSE [count |-> s.count + (IF r.start >= s.line THEN r.start - s.line + 1 ELSE 0),
        line  |-> r.end + 1]

\* editor_visible_line_count
VisibleLineCount ==
  LET walk[n \in 0 .. Len(Folds)] ==
        IF n = 0 THEN [count |-> 0, line |-> 0] ELSE Counted(walk[n - 1], Folds[n])
      s == walk[Len(Folds)]
      count == s.count + (IF s.line < lines THEN lines - s.line ELSE 0)
  IN  IF count = 0 THEN 1 ELSE count

\* The lines up to the end of fold r are passed, or the one sought is `found` there.
Passed(index, s, r) ==
  LET span == IF r.start > s.line THEN r.start - s.line ELSE 0
      Found(l) == [s EXCEPT !.found = TRUE, !.line = l]
  IN  CASE s.found \/ ~FoldRangeValid(r) \/ r.end < s.line -> s
        [] ~s.found /\ FoldRangeValid(r) /\ r.end >= s.line ->
             CASE index < s.visible + span -> Found(s.line + index - s.visible)
               [] index = s.visible + span -> Found(r.start)
               [] index > s.visible + span ->
                    [s EXCEPT !.visible = @ + span + 1, !.line = r.end + 1]

\* editor_visible_line_at
VisibleLineAt(index) ==
  LET walk[n \in 0 .. Len(Folds)] ==
        IF n = 0 THEN [found |-> FALSE, visible |-> 0, line |-> 0]
        ELSE Passed(index, walk[n - 1], Folds[n])
      s == walk[Len(Folds)]
  IN  IF s.found THEN s.line ELSE Lesser(s.line + index - s.visible, lines - 1)

\* editor_visible_line_index: less the lines of every fold that starts before.
VisibleLineIndex(l) ==
  LET header == Header(Lesser(l, lines - 1))
      left[n \in 0 .. Len(Folds)] ==
        IF n = 0 THEN header
        ELSE LET r == Folds[n]
             IN  IF FoldRangeValid(r) /\ r.start < header
                 THEN (left[n - 1] - (r.end - r.start)) % Word ELSE left[n - 1]
  IN  left[Len(Folds)]

\* editor_next_visible_line
NextVisibleLine(l) ==
  IF LineFolded(l) THEN Folds[FirstOf(StartingAt(Folds, l))].end + 1 ELSE l + 1

-----------------------------------------------------------------------------
(* Folding *)

\* add_fold_range is refused where another fold hides the line or starts at it.
Refused(r) == HeaderIn(Folds, r.start) # r.start \/ \E i \in DOMAIN Folds : Folds[i].start = r.start

\* Mutant: folds inside the new one stay.
BadAddFoldRange(r) ==
  /\ current' = TRUE
  /\ folded' = IF Refused(r) THEN Folds ELSE Sorted(Append(Folds, r), 1 .. Len(Folds) + 1)

\* add_fold_range: folds inside the new one go.
AddFoldRange(r) ==
  LET with == Append(Folds, r)
      inside == {i \in DOMAIN Folds : Folds[i].start > r.start /\ Folds[i].end <= r.end}
  IN  /\ current' = TRUE
      /\ folded' = IF Refused(r) THEN Folds ELSE Sorted(with, DOMAIN with \ inside)

\* remove_fold_at_line: the first fold with the header of the line.
RemoveFoldAtLine(l) ==
  LET at == {i \in DOMAIN Folds : Folds[i].start = Header(l)}
  IN  /\ current' = TRUE
      /\ folded' = IF at = {} THEN Folds ELSE RemoveAt(Folds, FirstOf(at))

\* One of the ranges is closed, or, where there is none, they are requested; see
\* RangesArrive.
CloseFirstOf(ranges, S) ==
  IF S # {} THEN AddFoldRange(ranges[FirstOf(S)]) ELSE UNCHANGED <<folded, current>>

\* current_fold_range without a fold at the cursor: the smallest known range with it.
SmallestAtCursor ==
  LET size(r) == r.end - r.start
      with == {i \in DOMAIN KnownRanges :
                 KnownRanges[i].start <= cursor /\ cursor <= KnownRanges[i].end}
  IN  {i \in with : \A j \in with : size(KnownRanges[i]) <= size(KnownRanges[j])}

CloseCurrentFold ==
  IF LineFolded(cursor) THEN CloseFirstOf(Folds, StartingAt(Folds, cursor))
  ELSE CloseFirstOf(KnownRanges, SmallestAtCursor)

OpenCurrentFold == RemoveFoldAtLine(cursor)

\* The folds of z M: ranges whose line is hidden by those before are left out.
AllClosed ==
  LET closed[n \in 0 .. Len(KnownRanges)] ==
        IF n = 0 THEN <<>>
        ELSE LET folds == closed[n - 1]
                 r == KnownRanges[n]
             IN  IF HeaderIn(folds, r.start) = r.start THEN Append(folds, r) ELSE folds
  IN  closed[Len(KnownRanges)]

-----------------------------------------------------------------------------
(* Steps *)

Init ==
  /\ outline \in Outlines
  /\ known = FALSE /\ folded = <<>> /\ current = FALSE /\ cursor = 0

Stays == UNCHANGED <<outline, known, cursor>>

\* z c, z o, z a, z M and z R
CloseKey == CloseCurrentFold /\ Stays
OpenKey == OpenCurrentFold /\ Stays
ToggleKey == (IF LineFolded(cursor) THEN OpenCurrentFold ELSE CloseCurrentFold) /\ Stays

CloseAllKey ==
  /\ IF known /\ outline.ranges # <<>> THEN folded' = AllClosed /\ current' = TRUE
     ELSE UNCHANGED <<folded, current>>
  /\ Stays

OpenAllKey == folded' = <<>> /\ current' = TRUE /\ Stays

\* A click on the marker of the i-th visible line: toggle_editor_fold_at_line.
ClickMarker(i) ==
  LET l == VisibleLineAt(i)
  IN  /\ i < VisibleLineCount
      /\ IF LineFolded(l) THEN RemoveFoldAtLine(l)
         ELSE CloseFirstOf(KnownRanges, StartingAt(KnownRanges, l))
      /\ Stays

\* move_vertical: one visible line, or half a page of them.
MoveVertical(delta) ==
  LET visible == VisibleLineIndex(cursor)
      to == IF delta < 0 THEN IF -delta < visible THEN visible + delta ELSE 0
            ELSE Lesser((visible + delta) % Word, VisibleLineCount - 1)
  IN  /\ cursor' = VisibleLineAt(to)
      /\ UNCHANGED <<outline, known, folded, current>>

\* The cursor goes to a line by other means: a search, a definition, a diagnostic.
MoveTo(l) == l \in Lines /\ cursor' = l /\ UNCHANGED <<outline, known, folded, current>>

\* An edit: another revision of the text, of which no range is known and none is folded.
Edit(o) ==
  /\ outline' = o
  /\ known' = FALSE /\ current' = FALSE
  /\ cursor' = Lesser(cursor, o.lines - 1)
  /\ UNCHANGED folded

\* The ranges of the text arrive (parse_folding_ranges_response, for its revision only).
RangesArrive == ~known /\ known' = TRUE /\ UNCHANGED <<outline, folded, current, cursor>>

Next ==
  \/ CloseKey \/ OpenKey \/ ToggleKey \/ CloseAllKey \/ OpenAllKey
  \/ \E i \in Lines : ClickMarker(i)
  \/ \E delta \in {-2, -1, 1, 2} : MoveVertical(delta)
  \/ \E l \in Lines : MoveTo(l)
  \/ \E o \in Outlines : Edit(o)
  \/ RangesArrive

Spec == Init /\ [][Next]_vars

-----------------------------------------------------------------------------
(* Correctness *)

\* Types; the ranges are lines of some revision.
TypeOK ==
  /\ outline \in Outlines
  /\ known \in BOOLEAN /\ current \in BOOLEAN
  /\ folded \in Seq([start : Nat, end : Nat])
  /\ cursor \in Lines

Hides(r, l) == r.start < l /\ l <= r.end

\* Two ranges have no line in common, or the second is below the first line of the first
\* and ends with it at the latest.
Within(r, s) == r.start < s.start /\ s.end <= r.end
Apart(r, s) == r.end < s.start \/ s.end < r.start

\* Scopes of one text, no two of which share a line unless one is within the other.
\* Where two do, in JSON "[{" and "}, {", folding both breaks the walks.
ScopesApart ==
  \A i, j \in DOMAIN Clamped :
    LET r == Clamped[i]
        s == Clamped[j]
    IN  i # j /\ FoldRangeValid(r) /\ FoldRangeValid(s)
          => Apart(r, s) \/ Within(r, s) \/ Within(s, r)

\* The lines that no fold hides.
Visible == {l \in Lines : \A i \in DOMAIN Folds : ~Hides(Folds[i], l)}

\* The walks over the folds agree with the set of hidden lines, and so with each other,
\* after any sequence of folding and unfolding, nested folds in any order included: they
\* count the visible lines; the header of a line is the visible line at or before it, its
\* index the number of visible lines before that one, the line with this index is the
\* header, and the next line is the next visible one (editor_model.cpp:2200-2347).
FoldsAgree ==
  ScopesApart =>
    /\ VisibleLineCount = Cardinality(Visible)
    /\ \A l \in Lines :
         LET upTo == {v \in Visible : v <= l}
             next == NextVisibleLine(l)
         IN  /\ Header(l) \in upTo /\ \A v \in upTo : v <= Header(l)
             /\ VisibleLineIndex(l) = Cardinality(upTo) - 1
             /\ VisibleLineAt(Cardinality(upTo) - 1) = Header(l)
             /\ l \in Visible => /\ next \in Visible \cup {lines}
                                 /\ \A v \in Visible : v <= l \/ next <= v

\* README.md:170 of the editor: "Nested folds hidden by a parent fold are skipped."
\* No fold is closed within another one that hides the line where it starts.
NestedAreSkipped ==
  \A i, j \in DOMAIN Folds :
    ~(Hides(Folds[i], Folds[j].start) /\ Folds[j].end <= Folds[i].end)
=============================================================================
