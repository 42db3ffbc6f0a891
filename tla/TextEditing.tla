----------------------------- MODULE TextEditing -----------------------------
(***************************************************************************)
(* Editing in the code editor (editor_model.cpp): a text, a primary cursor  *)
(* and extra ones, a selection at each, the modal keys that move, select    *)
(* and edit at all of them at once, and undo.                               *)
(*                                                                         *)
(* The text is a sequence (Texts); TextBuffer shows that the buffer is one. *)
(* A frame handles its keys one by one and then clamps the cursors; a key   *)
(* is a step here, with `last` when the frame ends with it.  Lines are      *)
(* unfolded, and std::sort keeps the order of equals, as its insertion sort *)
(* of few elements does.                                                    *)
(***************************************************************************)
EXTENDS Texts

CONSTANTS
  Files,          \* the texts that are opened
  Chars,          \* the characters that are typed
  Blanks, Words,  \* which characters indent a line, and which are part of words
  MaxKeys, MaxLength, MaxExtras

VARIABLES
  editor,         \* text, cursors, selection and mode
  undo, redo,     \* the stacks of snapshots, top first
  keys            \* how many keys were pressed

vars == <<editor, undo, redo, keys>>

Origin == At(0, 0)
Cursor(p) == [at |-> p, anchor |-> p, preferred |-> p.column]

\* An open file with its cursor at p.
Opened(t, p) ==
  [text |-> t, primary |-> Cursor(p), extras |-> <<>>, mode |-> "NONE",
   active |-> FALSE, insert |-> FALSE, pendingD |-> FALSE]

HasExtras(e) == e.extras # <<>>
LastLine(e) == LineCount(e.text) - 1
EndOf(e, l) == At(l, LineSize(e.text, l))

\* Any place, in a text or not.
Places == [line : Nat, column : Int]

-----------------------------------------------------------------------------
(* Positions *)

\* From a place q of the text.
PreviousFrom(t, q) ==
  CASE q.column # 0 -> At(q.line, q.column - 1)
    [] q.column = 0 /\ q.line # 0 -> At(q.line - 1, LineSize(t, q.line - 1))
    [] OTHER -> q

NextFrom(t, q, size) ==
  CASE q.column < size -> At(q.line, q.column + 1)
    [] q.column >= size /\ q.line + 1 < LineCount(t) -> At(q.line + 1, 0)
    [] OTHER -> q

\* A character, not the end of the last line.
CharacterFrom(t, q, size) ==
  IF q.column = size /\ size # 0 /\ q.line + 1 = LineCount(t) THEN At(q.line, q.column - 1) ELSE q

PreviousPosition(t, p) == PreviousFrom(t, Clamp(t, p))
NextPosition(t, p) == LET q == Clamp(t, p) IN NextFrom(t, q, LineSize(t, q.line))
CharacterPosition(t, p) == LET q == Clamp(t, p) IN CharacterFrom(t, q, LineSize(t, q.line))

\* text_editor_word_kind, of the byte at an offset: a newline is no part of a word.
WordAt(t, o) == o < Len(t) /\ t[o + 1] \in Words

\* previous_kind_run_start_position: the start of the run of word bytes before p.
PreviousWord(t, p) ==
  LET o == Offset(t, p)
      starts == {i \in 0 .. o - 1 : WordAt(t, i) /\ (i = 0 \/ ~WordAt(t, i - 1))}
  IN  Position(t, IF starts = {} THEN 0 ELSE CHOOSE i \in starts : \A j \in starts : j <= i)

\* next_kind_run_start_position: past the run at p, and then past what is no word.
NextWord(t, p) ==
  LET o == Offset(t, p)
      starts == {i \in o + 1 .. Len(t) - 1 : WordAt(t, i) /\ ~WordAt(t, i - 1)}
  IN  Position(t, IF starts = {} THEN Len(t) ELSE CHOOSE i \in starts : \A j \in starts : i <= j)

-----------------------------------------------------------------------------
(* Cursors and selections *)

Unselected(c) == [c EXCEPT !.anchor = c.at]

ClearSelection(e) ==
  [e EXCEPT !.primary = Unselected(@), !.extras = [i \in DOMAIN @ |-> Unselected(@[i])],
            !.mode = "NONE", !.active = FALSE]

ClearExtras(e) == [e EXCEPT !.extras = <<>>]

Clamped(t, c) ==
  LET p == Clamp(t, c.at)
  IN  [at |-> p, anchor |-> Clamp(t, c.anchor), preferred |-> Least(c.preferred, p.column)]

\* No two cursors are at one place, and the primary one stays.
Joined(cursors, c) ==
  IF \E i \in DOMAIN cursors : cursors[i].at = c.at THEN cursors ELSE Append(cursors, c)

WithCursors(e, cursors) ==
  LET primary == cursors[1]
  IN  [e EXCEPT !.primary = primary, !.extras = Tail(cursors),
                !.active = e.mode # "NONE" \/ (@ /\ primary.anchor # primary.at)]

\* clamp_cursor, with clamp_selection
ClampCursor(e) ==
  LET all == <<e.primary>> \o e.extras
      kept[n \in 0 .. Len(all)] ==
        IF n = 0 THEN <<>> ELSE Joined(kept[n - 1], Clamped(e.text, all[n]))
  IN  WithCursors(e, kept[Len(all)])

MovedTo(e, q, anchor) ==
  [e EXCEPT !.primary = [at |-> q, anchor |-> anchor, preferred |-> q.column],
            !.active = e.mode # "NONE" \/ anchor # q]

MoveCursorTo(e, p, select) ==
  LET moved == MovedTo(e, Clamp(e.text, p),
                       IF select /\ ~e.active THEN e.primary.at ELSE e.primary.anchor)
  IN  IF select THEN moved ELSE ClearSelection(moved)

SetCursor(e, p) == MoveCursorTo(e, p, FALSE)

NoSpan == [active |-> FALSE, full |-> FALSE, start |-> Origin, end |-> Origin]
Span(s, e, full) == [active |-> TRUE, full |-> full, start |-> s, end |-> e]

SpanOfLines(e, first, last) ==
  Span(At(first, 0), IF last < LastLine(e) THEN At(last + 1, 0) ELSE EndOf(e, last), TRUE)

SpanBetween(p, q) == Span(IF Before(p, q) THEN p ELSE q, IF Before(p, q) THEN q ELSE p, FALSE)

\* with the character at its end
SpanOfCharacters(t, span) == [span EXCEPT !.end = NextPosition(t, @)]

SpanOf(e, at, anchor) ==
  CASE ~e.active \/ (at = anchor /\ e.mode = "NONE") -> NoSpan
    [] e.active /\ e.mode = "LINE" ->
         SpanOfLines(e, Least(at.line, anchor.line), Most(at.line, anchor.line))
    [] e.active /\ e.mode = "CHARACTER" ->
         SpanOfCharacters(e.text, SpanBetween(CharacterPosition(e.text, at),
                                              CharacterPosition(e.text, anchor)))
    [] OTHER -> SpanBetween(at, anchor)

\* selection_range of a cursor
SelectionRange(e, c) == SpanOf(e, Clamp(e.text, c.at), Clamp(e.text, c.anchor))

Selection(e) == SelectionRange(e, e.primary)

\* selection_last_line
SelectionLastLine(e, r) ==
  Least(IF r.end.column = 0 /\ r.end.line > r.start.line THEN r.end.line - 1 ELSE r.end.line,
        LastLine(e))

-----------------------------------------------------------------------------
(* All cursors at once: as offsets *)

CursorEdit(t, c, primary) ==
  [offset |-> Offset(t, c.at), anchor |-> Offset(t, c.anchor), preferred |-> c.preferred,
   primary |-> primary]

\* A cursor at an offset where there is one already is left out.
Added(cs, edit) ==
  IF \E i \in DOMAIN cs : cs[i].offset = edit.offset THEN cs ELSE Append(cs, edit)

CollectCursors(e) ==
  LET cs[n \in 0 .. Len(e.extras)] ==
        IF n = 0 THEN <<CursorEdit(e.text, e.primary, TRUE)>>
        ELSE Added(cs[n - 1], CursorEdit(e.text, e.extras[n], FALSE))
  IN  cs[Len(e.extras)]

Ascending(cs) == InOrder(cs, DOMAIN cs, [i \in DOMAIN cs |-> cs[i].offset])
Descending(cs) == InOrder(cs, DOMAIN cs, [i \in DOMAIN cs |-> -cs[i].offset])

Stored(t, c) ==
  [at |-> Position(t, c.offset), anchor |-> Position(t, c.anchor), preferred |-> c.preferred]

\* The primary cursor is stored first, and no other at its place.
StoredInOrder(e, cs) ==
  LET first == IF \E i \in DOMAIN cs : cs[i].primary
               THEN CHOOSE i \in DOMAIN cs : cs[i].primary ELSE 1
      all == [i \in DOMAIN cs |-> Stored(e.text, cs[i])]
  IN  [e EXCEPT !.primary = all[first],
                !.extras = Those(all, {i \in DOMAIN cs : all[i].at # all[first].at}),
                !.active = e.mode # "NONE" \/ \E i \in DOMAIN cs : cs[i].offset # cs[i].anchor]

StoreCursors(e, cursors, clear) ==
  LET stored == StoredInOrder(e, Ascending(cursors))
  IN  IF clear THEN ClampCursor(ClearSelection(stored))
      ELSE [ClampCursor(stored) EXCEPT !.active = stored.active]

\* Moves of all cursors: `to` is where a cursor goes from a place.
MoveAllBy(e, to, select) ==
  LET cs == CollectCursors(e)
      Moved(c) ==
        LET q == to[Position(e.text, c.offset)]
        IN  [c EXCEPT !.offset = Offset(e.text, q), !.preferred = q.column]
  IN  StoreCursors(e, [i \in DOMAIN cs |-> Moved(cs[i])], ~select)

MoveAllVertical(e, delta, select) ==
  LET cs == CollectCursors(e)
      Moved(c) ==
        LET l == Least(Most(Position(e.text, c.offset).line + delta, 0), LastLine(e))
        IN  [c EXCEPT !.offset = Offset(e.text, InLine(e.text, l, c.preferred))]
  IN  StoreCursors(e, [i \in DOMAIN cs |-> Moved(cs[i])], ~select)

MoveAllLineStart(e, select) == MoveAllBy(e, [p \in Places |-> At(p.line, 0)], select)
MoveAllLineEnd(e, select) == MoveAllBy(e, [p \in Places |-> EndOf(e, p.line)], select)

-----------------------------------------------------------------------------
(* Moves of the cursor, or of all cursors when there are more *)

MoveBy(e, to, select) ==
  IF HasExtras(e) THEN MoveAllBy(e, to, select)
  ELSE MoveCursorTo(e, to[e.primary.at], select)

MoveVertical(e, delta, select) ==
  LET l == Least(Most(e.primary.at.line + delta, 0), LastLine(e))
      moved == MoveCursorTo(e, InLine(e.text, l, e.primary.preferred), select)
  IN  IF HasExtras(e) THEN MoveAllVertical(e, delta, select)
      ELSE [moved EXCEPT !.primary.preferred = e.primary.preferred]

MoveLineStart(e, select) ==
  IF HasExtras(e) THEN MoveAllLineStart(e, select)
  ELSE MoveCursorTo(e, At(e.primary.at.line, 0), select)

MoveLineEnd(e, select) ==
  IF HasExtras(e) THEN MoveAllLineEnd(e, select)
  ELSE MoveCursorTo(e, EndOf(e, e.primary.at.line), select)

\* add_cursor_line
AddCursorIn(e, cs, l, preferred) ==
  LET offset == Offset(e.text, InLine(e.text, l, preferred))
      new == [offset |-> offset, anchor |-> 0, preferred |-> preferred, primary |-> FALSE]
  IN  IF l < 0 \/ l > LastLine(e) THEN e
      ELSE IF \E i \in DOMAIN cs : cs[i].offset = offset THEN e
      ELSE StoreCursors(e, Append(cs, new), TRUE)

AddCursorBeside(e, cs, edge, direction) ==
  AddCursorIn(e, cs, Position(e.text, edge.offset).line + direction, edge.preferred)

AddCursorLine(e, direction) ==
  LET cs == Ascending(CollectCursors(e))
  IN  AddCursorBeside(e, cs, cs[IF direction > 0 THEN Len(cs) ELSE 1], direction)

\* set_visual_mode
SetVisualMode(e, mode) ==
  IF e.mode = mode THEN ClearSelection(e)
  ELSE [ClearSelection(e) EXCEPT !.mode = mode, !.active = TRUE]

SelectAll(e) ==
  LET end == EndOf(e, LastLine(e))
  IN  [ClearExtras(e) EXCEPT
         !.primary = [at |-> end, anchor |-> Origin, preferred |-> end.column],
         !.mode = "NONE", !.active = end # Origin]

EnterInsertAt(e, p) == SetCursor([e EXCEPT !.insert = TRUE, !.pendingD = FALSE], p)
EnterInsert(e) == EnterInsertAt(e, e.primary.at)

-----------------------------------------------------------------------------
(* Edits at all cursors: from the last to the first, moving those already done *)

\* The edits before the n-th are done: they move to their new places.
Adjusted(cs, n, field, places) ==
  [i \in DOMAIN cs |-> IF i < n THEN [cs[i] EXCEPT ![field] = places[i]] ELSE cs[i]]

\* Mutant: the cursors behind stay where they were.
BadInsertedAt(s, n, value, shift) ==
  LET o == s.cursors[n].offset
  IN  [text |-> Insert(s.text, o, value), cursors |-> [s.cursors EXCEPT ![n].offset = o + shift]]

\* adjust_inserted_offsets and the cursor's own place behind what it inserted; `shift` is
\* how far the cursor goes, which for an indented line is past what was there already.
InsertedAt(s, n, value, shift) ==
  LET o == s.cursors[n].offset
      Ahead(x) == IF x >= o THEN x + Len(value) ELSE x
      moved == Adjusted(s.cursors, n, "offset",
                        [i \in DOMAIN s.cursors |-> Ahead(s.cursors[i].offset)])
  IN  [text |-> Insert(s.text, o, value), cursors |-> [moved EXCEPT ![n].offset = o + shift]]

\* adjust_erased_offsets
ErasedAt(s, n, from, to) ==
  LET Back(x) == IF x > from THEN (IF x < to THEN from ELSE x - (to - from)) ELSE x
      moved == Adjusted(s.cursors, n, "offset",
                        [i \in DOMAIN s.cursors |-> Back(s.cursors[i].offset)])
  IN  IF from = to THEN s
      ELSE [text |-> Erase(s.text, from, to), cursors |-> [moved EXCEPT ![n].offset = from]]

\* The edits of all cursors begin with the last cursor.
Begun(e) == [text |-> e.text, cursors |-> Descending(CollectCursors(e))]

StoredWithText(e, done) == StoreCursors([e EXCEPT !.text = done.text], done.cursors, TRUE)

\* They end with refresh_cursor_columns, and the cursors are stored again.
Edited(e, done) ==
  LET placed(c) == [c EXCEPT !.preferred = Position(done.text, c.offset).column]
  IN  StoredWithText(e, [done EXCEPT !.cursors = [i \in DOMAIN @ |-> placed(@[i])]])

InsertAtAll(e, value) ==
  LET s == Begun(e)
      done[n \in 0 .. Len(s.cursors)] ==
        IF n = 0 THEN s ELSE InsertedAt(done[n - 1], n, value, Len(value))
  IN  Edited(e, done[Len(s.cursors)])

BackspacedAt(s, n) ==
  LET o == s.cursors[n].offset
  IN  ErasedAt(s, n, Offset(s.text, PreviousPosition(s.text, Position(s.text, o))), o)

BackspaceAtAll(e) ==
  LET s == Begun(e)
      done[n \in 0 .. Len(s.cursors)] == IF n = 0 THEN s ELSE BackspacedAt(done[n - 1], n)
  IN  Edited(e, done[Len(s.cursors)])

DeletedAt(s, n) ==
  LET o == s.cursors[n].offset
  IN  ErasedAt(s, n, o, Offset(s.text, NextPosition(s.text, Position(s.text, o))))

DeleteAtAll(e) ==
  LET s == Begun(e)
      done[n \in 0 .. Len(s.cursors)] == IF n = 0 THEN s ELSE DeletedAt(done[n - 1], n)
  IN  Edited(e, done[Len(s.cursors)])

\* line_indent, as its size and as what of it goes to a new line begun at p.
IndentSize(t, l) ==
  LET line == Line(t, l)
      others == {i \in DOMAIN line : line[i] \notin Blanks}
  IN  IF others = {} THEN Len(line) ELSE (CHOOSE i \in others : \A j \in others : i <= j) - 1

InsertedIndent(t, p) == SubSeq(Line(t, p.line), 1, Least(p.column, IndentSize(t, p.line)))

\* The newline is inserted before the indent, at one offset.
NewlineAt(s, n) ==
  LET p == Position(s.text, s.cursors[n].offset)
      size == IndentSize(s.text, p.line)
  IN  [InsertedAt(s, n, <<NL>> \o InsertedIndent(s.text, p), size + 1) EXCEPT
         !.cursors[n].preferred = size]

IndentedNewlineAtAll(e) ==
  LET s == Begun(e)
      done[n \in 0 .. Len(s.cursors)] == IF n = 0 THEN s ELSE NewlineAt(done[n - 1], n)
  IN  StoredWithText(e, done[Len(s.cursors)])

\* add_selection_edit, for each of the cursors.
SelectionEdits(e) ==
  LET cursors == <<e.primary>> \o e.extras
      ranges == [n \in DOMAIN cursors |-> SelectionRange(e, cursors[n])]
      Edit(r, n) ==
        [start |-> Offset(e.text, r.start), end |-> Offset(e.text, r.end), primary |-> n = 1]
  IN  Those([n \in DOMAIN cursors |-> Edit(ranges[n], n)],
            {n \in DOMAIN cursors : ranges[n].active})

FromLast(edits) == InOrder(edits, DOMAIN edits, [i \in DOMAIN edits |-> -edits[i].start])

\* A selection ends where the next one starts, at s.limit.
ReplacedAt(s, n, from, to, value) ==
  LET Moved(x) == (IF x > from THEN x - (to - from) ELSE x) + (IF x >= from THEN Len(value) ELSE 0)
      moved == Adjusted(s.edits, n, "start", [i \in DOMAIN s.edits |-> Moved(s.edits[i].start)])
  IN  [text  |-> Insert(Erase(s.text, from, to), from, value),
       edits |-> [moved EXCEPT ![n].start = from + Len(value)],
       limit |-> from]

SelectionReplaced(s, n, value) ==
  LET from == s.edits[n].start
  IN  ReplacedAt(s, n, from, Most(from, Least(s.edits[n].end, s.limit)), value)

EditsReplaced(e, edits, value) ==
  LET done[n \in 0 .. Len(edits)] ==
        IF n = 0 THEN [text |-> e.text, edits |-> edits, limit |-> Len(e.text)]
        ELSE SelectionReplaced(done[n - 1], n, value)
  IN  done[Len(edits)]

\* The cursors go behind what has been inserted.
PlacedBehind(e, done) ==
  LET Placed(d) == [offset |-> d.start, anchor |-> d.start,
                    preferred |-> Position(done.text, d.start).column, primary |-> d.primary]
  IN  StoreCursors([e EXCEPT !.text = done.text],
                   [i \in DOMAIN done.edits |-> Placed(done.edits[i])], TRUE)

\* replace_all_selections_with_text, from the last selection to the first.
ReplaceAllSelections(e, value) ==
  LET edits == FromLast(SelectionEdits(e))
  IN  IF edits = <<>> THEN e ELSE PlacedBehind(e, EditsReplaced(e, edits, value))

-----------------------------------------------------------------------------
(* Edits at the cursor *)

EraseRange(e, p, q) ==
  LET s == IF Before(q, p) THEN q ELSE p
      end == IF Before(q, p) THEN p ELSE q
  IN  IF p = q THEN e
      ELSE SetCursor([e EXCEPT !.text = Erase(@, Offset(@, s), Offset(@, end))], s)

\* delete_line_at: the last line goes with the newline before it.
DeleteLineAt(t, l) ==
  LET begin == LineStart(t, l)
      end == begin + LineSize(t, l)
  IN  CASE LineCount(t) = 1 -> <<>>
        [] l + 1 < LineCount(t) -> Erase(t, begin, end + 1)
        [] OTHER -> Erase(t, begin - 1, end)

\* The lines of a selection, one by one; a range that ends at column 0 ends above it.
EraseLines(e, r) ==
  LET first == r.start.line
      end == IF r.end.column = 0 /\ r.end.line > first THEN r.end.line ELSE r.end.line + 1
      count == Most(Least(end, LineCount(e.text)) - first, 0)
      left[n \in 0 .. count] ==
        IF n = 0 THEN e.text
        ELSE DeleteLineAt(left[n - 1], Least(first, LineCount(left[n - 1]) - 1))
      erased == [e EXCEPT !.text = left[count]]
  IN  SetCursor(erased, At(Least(first, LastLine(erased)), 0))

EraseSpan(e, r) ==
  CASE ~r.active -> e
    [] r.active /\ r.full -> EraseLines(ClearExtras(e), r)
    [] OTHER -> EraseRange(ClearExtras(e), r.start, r.end)

\* erase_selection
EraseSelection(e) ==
  IF HasExtras(e) /\ e.active THEN ReplaceAllSelections(e, <<>>) ELSE EraseSpan(e, Selection(e))

\* What erase_selection returns.
Erases(e) ==
  IF HasExtras(e) /\ e.active
  THEN \E c \in {e.primary} \cup {e.extras[i] : i \in DOMAIN e.extras} : SelectionRange(e, c).active
  ELSE Selection(e).active

Inserted(e, value) == [e EXCEPT !.text = Insert(@, Offset(@, e.primary.at), value)]

CharInserted(e, ch) ==
  ClearSelection([Inserted(e, <<ch>>) EXCEPT
                    !.primary = Cursor([e.primary.at EXCEPT !.column = @ + 1])])

NewlineInserted(e, indent, column) ==
  SetCursor(Inserted(e, <<NL>> \o indent), At(e.primary.at.line + 1, column))

InsertChar(e, ch) ==
  CASE HasExtras(e) /\ e.active -> ReplaceAllSelections(e, <<ch>>)
    [] HasExtras(e) /\ ~e.active -> InsertAtAll(e, <<ch>>)
    [] OTHER -> CharInserted(EraseSpan(e, Selection(e)), ch)

\* The indent is the one of the line where the selection starts.
NewlineOver(e, r, start) ==
  NewlineInserted(EraseSpan(e, r), InsertedIndent(e.text, start), IndentSize(e.text, start.line))

InsertIndentedNewline(e) ==
  LET r == Selection(e)
  IN  CASE HasExtras(e) /\ e.active -> ReplaceAllSelections(e, <<NL>>)
        [] HasExtras(e) /\ ~e.active -> IndentedNewlineAtAll(e)
        [] OTHER -> NewlineOver(e, r, IF r.active THEN r.start ELSE e.primary.at)

Backspace(e) ==
  CASE HasExtras(e) /\ ~e.active -> BackspaceAtAll(e)
    [] Erases(e) -> EraseSelection(e)
    [] OTHER -> EraseRange(e, PreviousPosition(e.text, e.primary.at), e.primary.at)

DeleteChar(e) ==
  LET p == e.primary.at
  IN  CASE HasExtras(e) /\ ~e.active -> DeleteAtAll(e)
        [] Erases(e) -> EraseSelection(e)
        [] OTHER ->
             LET to == NextPosition(e.text, p)
             IN  IF to = p THEN e
                 ELSE ClearSelection(ClampCursor([e EXCEPT
                        !.text = Erase(@, Offset(@, p), Offset(@, to))]))

BackspaceWord(e) ==
  LET single == ClearExtras(e)
  IN  IF Erases(single) THEN EraseSelection(single)
      ELSE EraseRange(single, PreviousWord(e.text, e.primary.at), e.primary.at)

DeleteWord(e) ==
  LET single == ClearExtras(e)
  IN  IF Erases(single) THEN EraseSelection(single)
      ELSE EraseRange(single, e.primary.at, NextWord(e.text, e.primary.at))

DeleteLine(e) ==
  ClearSelection(ClampCursor([ClearExtras(e) EXCEPT !.text = DeleteLineAt(@, e.primary.at.line)]))

\* insert_line: a new line l
LineInserted(e, l, indent) ==
  LET new == IF l < LineCount(e.text)
             THEN Insert(e.text, LineStart(e.text, l), indent \o <<NL>>)
             ELSE e.text \o <<NL>> \o indent
  IN  EnterInsertAt([ClearExtras(e) EXCEPT !.text = new], At(l, Len(indent)))

\* open_line: it has the indent of the line `like`, below it or above.
OpenLine(e, like, below) ==
  LineInserted(e, IF below THEN like + 1 ELSE like,
               SubSeq(Line(e.text, like), 1, IndentSize(e.text, like)))

-----------------------------------------------------------------------------
(* Undo *)

Snapshot(e) ==
  [text |-> e.text, primary |-> [e.primary EXCEPT !.preferred = e.primary.at.column],
   extras |-> e.extras, mode |-> e.mode, active |-> e.active]

\* save_editor_undo
SaveUndo == undo' = <<Snapshot(editor)>> \o undo /\ redo' = <<>>

\* restore_editor_snapshot: the text is loaded again.
Restored(e, s) ==
  ClampCursor([e EXCEPT !.text = Normal(s.text), !.extras = s.extras, !.mode = s.mode,
                        !.primary = s.primary, !.active = s.active, !.pendingD = FALSE])

\* can_backspace, can_delete_char, can_backspace_word, can_delete_word, can_delete_line
NotAllAt(e, p) == e.primary.at # p \/ \E i \in DOMAIN e.extras : e.extras[i].at # p

CanBackspace(e) == e.active \/ NotAllAt(e, Origin)

\* Mutant: only the primary cursor is asked.
BadCanDeleteChar(e) == e.active \/ e.primary.at # EndOf(e, LastLine(e))

CanDeleteChar(e) == e.active \/ NotAllAt(e, EndOf(e, LastLine(e)))
CanBackspaceWord(e) == e.active \/ PreviousWord(e.text, e.primary.at) # e.primary.at
CanDeleteWord(e) == e.active \/ NextWord(e.text, e.primary.at) # e.primary.at
CanDeleteLine(e) == LineCount(e.text) > 1 \/ LineSize(e.text, e.primary.at.line) # 0

-----------------------------------------------------------------------------
(* Keys *)

\* A file was opened and its text clicked somewhere.
Init ==
  /\ \E t \in Files : \E o \in 0 .. Len(Normal(t)) :
       editor = Opened(Normal(t), Position(Normal(t), o))
  /\ undo = <<>> /\ redo = <<>> /\ keys = 0

\* A key makes e of the editor; the last one of a frame ends with clamp_cursor.
Becomes(e, last) ==
  /\ keys < MaxKeys /\ Len(e.text) <= MaxLength /\ Len(e.extras) <= MaxExtras
  /\ keys' = keys + 1
  /\ editor' = IF last THEN ClampCursor(e) ELSE e

Moves(e, last) == Becomes(e, last) /\ UNCHANGED <<undo, redo>>

Edits(e, saves, last) ==
  /\ IF saves THEN SaveUndo ELSE UNCHANGED <<undo, redo>>
  /\ Becomes(e, last)

\* A character is typed in insert mode, or is a command.
Typing == editor.insert
Command == ~editor.insert /\ ~editor.pendingD

Type(ch, last) == Typing /\ Edits(InsertChar(editor, ch), TRUE, last)
Enter(last) == Typing /\ Edits(InsertIndentedNewline(editor), TRUE, last)
BackspaceKey(last) == Typing /\ Edits(Backspace(editor), CanBackspace(editor), last)
CtrlBackspace(last) == Typing /\ Edits(BackspaceWord(editor), CanBackspaceWord(editor), last)
\* Delete, or x as a command
DeleteKey(last) == Edits(DeleteChar(editor), CanDeleteChar(editor), last)
CtrlDelete(last) == Edits(DeleteWord(editor), CanDeleteWord(editor), last)

\* d: the selection, or the first of two.
D(last) ==
  /\ Command
  /\ IF Selection(editor).active THEN Edits(EraseSelection(editor), TRUE, last)
     ELSE Moves([editor EXCEPT !.pendingD = TRUE], last)

SecondD(last) ==
  /\ ~editor.insert /\ editor.pendingD
  /\ Edits([DeleteLine(editor) EXCEPT !.pendingD = FALSE], CanDeleteLine(editor), last)

OtherThanD(last) ==
  ~editor.insert /\ editor.pendingD /\ Moves([editor EXCEPT !.pendingD = FALSE], last)

Change(last) ==
  LET selected == Selection(editor).active
      less == IF selected THEN EraseSelection(editor)
              ELSE IF CanDeleteChar(editor) THEN DeleteChar(editor) ELSE editor
  IN  Command /\ Edits(EnterInsert(less), selected \/ CanDeleteChar(editor), last)

ReplaceChar(ch, last) ==
  LET selected == Selection(editor).active
      less == IF selected THEN EraseSelection(editor) ELSE DeleteChar(editor)
  IN  /\ Command
      /\ selected \/ CanDeleteChar(editor)
      /\ Edits(InsertChar(less, ch), TRUE, last)

\* o and O
Open(below, last) ==
  LET r == Selection(editor)
      like == CASE ~r.active -> editor.primary.at.line
                [] r.active /\ below -> SelectionLastLine(editor, r)
                [] OTHER -> r.start.line
  IN  Command /\ Edits(OpenLine(editor, like, below), TRUE, last)

\* i, I, a and A
InsertHere(last) ==
  LET r == Selection(editor)
  IN  Command /\ Moves(EnterInsertAt(editor, IF r.active THEN r.start ELSE editor.primary.at), last)

InsertAtLineStart(last) ==
  LET r == Selection(editor)
      all == MoveAllLineStart(editor, FALSE)
  IN  /\ Command
      /\ Moves(IF HasExtras(editor) /\ ~r.active THEN EnterInsert(all)
               ELSE EnterInsertAt(editor,
                      At(IF r.active THEN r.start.line ELSE editor.primary.at.line, 0)), last)

AppendHere(last) ==
  LET r == Selection(editor)
      all == MoveAllBy(editor, [p \in Places |-> NextPosition(editor.text, p)], FALSE)
      p == editor.primary.at
  IN  /\ Command
      /\ Moves(IF HasExtras(editor) /\ ~r.active THEN EnterInsert(all)
               ELSE EnterInsertAt(editor, IF r.active THEN r.end ELSE At(p.line, p.column + 1)), last)

AppendToLine(last) ==
  LET r == Selection(editor)
      all == MoveAllLineEnd(editor, FALSE)
      l == IF r.active THEN SelectionLastLine(editor, r) ELSE editor.primary.at.line
  IN  /\ Command
      /\ Moves(IF HasExtras(editor) /\ ~r.active THEN EnterInsert(all)
               ELSE EnterInsertAt(editor, EndOf(editor, l)), last)

Visual(mode, last) == Command /\ Moves(SetVisualMode(editor, mode), last)

Comma(last) == Command /\ Moves(ClearSelection(ClearExtras(editor)), last)

AddCursor(direction, last) == Moves(AddCursorLine(editor, direction), last)

SelectAllKey(last) == Moves(SelectAll(editor), last)

Escape(last) ==
  LET left == ClearSelection(ClampCursor([editor EXCEPT !.insert = FALSE, !.pendingD = FALSE]))
  IN  Moves(IF ~editor.insert /\ ~editor.active THEN ClearExtras(left) ELSE left, last)

\* The arrows: a selection that is not extended collapses to one of its ends.
Arrow(e, move, select) ==
  LET r == Selection(e)
  IN  IF ~select /\ r.active
      THEN SetCursor(e, IF move \in {"LEFT", "WORD_LEFT", "UP"} THEN r.start ELSE r.end)
      ELSE CASE move = "LEFT" -> MoveBy(e, [p \in Places |-> PreviousPosition(e.text, p)], select)
             [] move = "RIGHT" -> MoveBy(e, [p \in Places |-> NextPosition(e.text, p)], select)
             [] move = "WORD_LEFT" -> MoveBy(e, [p \in Places |-> PreviousWord(e.text, p)], select)
             [] move = "WORD_RIGHT" -> MoveBy(e, [p \in Places |-> NextWord(e.text, p)], select)
             [] move = "UP" -> MoveVertical(e, -1, select)
             [] move = "DOWN" -> MoveVertical(e, 1, select)

Arrows == {"LEFT", "RIGHT", "WORD_LEFT", "WORD_RIGHT", "UP", "DOWN"}

Selecting(shift) == shift \/ editor.mode # "NONE"

ArrowKey(move, shift, last) == Moves(Arrow(editor, move, Selecting(shift)), last)
Home(shift, last) == Moves(MoveLineStart(editor, Selecting(shift)), last)
End(shift, last) == Moves(MoveLineEnd(editor, Selecting(shift)), last)

\* restore_editor_stack: Ctrl+Z, u and U.
Undo(last) ==
  /\ undo # <<>>
  /\ Becomes(Restored(editor, Head(undo)), last)
  /\ undo' = Tail(undo) /\ redo' = <<Snapshot(editor)>> \o redo

Redo(last) ==
  /\ Command
  /\ redo # <<>>
  /\ Becomes(Restored(editor, Head(redo)), last)
  /\ redo' = Tail(redo) /\ undo' = <<Snapshot(editor)>> \o undo

Key(last) ==
  \/ \E ch \in Chars : Type(ch, last) \/ ReplaceChar(ch, last)
  \/ Enter(last) \/ BackspaceKey(last) \/ CtrlBackspace(last)
  \/ DeleteKey(last) \/ CtrlDelete(last)
  \/ D(last) \/ SecondD(last) \/ OtherThanD(last) \/ Change(last)
  \/ \E below \in BOOLEAN : Open(below, last)
  \/ InsertHere(last) \/ InsertAtLineStart(last) \/ AppendHere(last) \/ AppendToLine(last)
  \/ \E mode \in {"CHARACTER", "LINE"} : Visual(mode, last)
  \/ Comma(last) \/ SelectAllKey(last) \/ Escape(last)
  \/ \E direction \in {-1, 1} : AddCursor(direction, last)
  \/ \E shift \in BOOLEAN : \/ \E move \in Arrows : ArrowKey(move, shift, last)
                            \/ Home(shift, last) \/ End(shift, last)
  \/ Undo(last) \/ Redo(last)

Next == \E last \in BOOLEAN : Key(last)

Spec == Init /\ [][Next]_vars

-----------------------------------------------------------------------------
(* Correctness *)

\* What each cursor is about to replace: its active selection, or the bytes from its
\* offset minus `back` to its offset plus `ahead`.
Replaced(e, back, ahead) ==
  LET cursors == <<e.primary>> \o e.extras
      selected == SelectSeq([i \in DOMAIN cursors |-> SelectionRange(e, cursors[i])],
                            LAMBDA r : r.active)
      offsets == SetToSortSeq({Offset(e.text, cursors[i].at) : i \in DOMAIN cursors}, <)
      around(o) == [from |-> Most(o - back, 0), to |-> Least(o + ahead, Len(e.text))]
  IN  IF e.active
      THEN [i \in DOMAIN selected |-> [from |-> Offset(e.text, selected[i].start),
                                       to   |-> Offset(e.text, selected[i].end)]]
      ELSE [i \in DOMAIN offsets |-> around(offsets[i])]

\* No range ends inside another that begins before it, or with it.
NoneNested(rs) == \A i, j \in DOMAIN rs : i # j /\ rs[i].from <= rs[j].from => rs[i].to <= rs[j].to

\* The text with all ranges replaced at once, and where the cursor of a range is then.
Result(t, rs, value) ==
  LET covered(i) == \E n \in DOMAIN rs : rs[n].from < i /\ i <= rs[n].to
      copies(o) == FlattenSeq([n \in DOMAIN rs |-> IF rs[n].from = o THEN value ELSE <<>>])
  IN  FlattenSeq([i \in 1 .. Len(t) + 1 |->
                    copies(i - 1) \o (IF i <= Len(t) /\ ~covered(i) THEN <<t[i]>> ELSE <<>>)])

PlaceAfter(rs, r, value) ==
  r.from - Cardinality({i \in 1 .. r.from : \E n \in DOMAIN rs : rs[n].from < i /\ i <= rs[n].to})
         + Len(value) * Cardinality({n \in DOMAIN rs : rs[n].from <= r.from})

AllAt(e, offsets) ==
  offsets = {Offset(e.text, e.primary.at)}
              \cup {Offset(e.text, e.extras[i].at) : i \in DOMAIN e.extras}

RangesReplaced(rs, value) ==
  rs # <<>> /\ NoneNested(rs) /\ editor.mode # "LINE" =>
    /\ editor'.text = Result(editor.text, rs, value)
    /\ AllAt(editor', {PlaceAfter(rs, rs[n], value) : n \in DOMAIN rs})

EachReplaced(back, ahead, value) ==
  RangesReplaced(Replaced(editor, back, ahead), value)

\* What is typed or erased happens at every cursor and selection as if at once: an edit
\* does not move the place of another, none is done twice or left out, and every cursor
\* stays with its own (editor_model.cpp:3415-3625, the loops over the cursors from the
\* last to the first).  Selections of whole lines, and selections one of which ends
\* inside another, are left out.
EditsEverywhere ==
  [][\A last \in BOOLEAN :
       /\ \A ch \in Chars : Type(ch, last) => EachReplaced(0, 0, <<ch>>)
       /\ BackspaceKey(last) => EachReplaced(1, 0, <<>>)
       /\ DeleteKey(last) => EachReplaced(0, 1, <<>>)]_vars

\* No text is lost: whatever key changes the text, the text as it was is on top of one
\* of the stacks, and every undo gives back, but for what loading drops, the text that
\* the latest edit changed (save_editor_undo at each of the keys, behind conditions of
\* their own, and restore_editor_stack).
EditsAreSaved ==
  [][editor'.text # editor.text =>
       \/ Len(undo') = Len(undo) + 1 /\ Head(undo').text = editor.text
       \/ /\ Len(redo') = Len(redo) + 1 /\ Head(redo').text = editor.text
          /\ editor'.text = Normal(Head(undo).text)]_vars
=============================================================================
