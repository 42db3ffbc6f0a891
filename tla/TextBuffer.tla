------------------------------ MODULE TextBuffer ------------------------------
(***************************************************************************)
(* text_buffer.cpp: the text of an editor as a treap of pieces.  A piece is *)
(* a stretch of one of two arrays, the text as it was loaded and what was   *)
(* added since; every node keeps the bytes and the newlines of its subtree, *)
(* by which offsets and lines are found.                                    *)
(*                                                                         *)
(* A node belongs to one tree and is changed in place, so trees are values  *)
(* here: nested records.  The priority of a node is the hash of a counter   *)
(* that starts again with every load; Priorities is its order.              *)
(***************************************************************************)
EXTENDS Integers, Sequences, SequencesExt

CONSTANTS
  Loads, Values,  \* texts that are loaded; texts that are inserted
  Priorities,     \* next_priority: the n-th node's, as a rank
  MaxRevision

VARIABLES
  original, added,
  root,
  nodes,          \* node_seed: how many nodes have been made since the text was set
  revision,
  answers         \* what a reader is answered now

vars == <<original, added, root, nodes, revision, answers>>

T == INSTANCE Texts

Newlines(s) == T!NewlinesIn(s, Len(s))

-----------------------------------------------------------------------------
(* Pieces and nodes *)

Piece(source, start, s) ==
  [source |-> source, start |-> start, size |-> Len(s), newlines |-> Newlines(s)]

Nil == [total |-> 0, newlines |-> 0]

\* Mutant: the newlines to the right are not counted.
BadNode(piece, priority, left, right) ==
  [piece    |-> piece, priority |-> priority, left |-> left, right |-> right,
   total    |-> left.total + piece.size + right.total,
   newlines |-> left.newlines + piece.newlines]

\* A node with its totals up to date (refresh).
Node(piece, priority, left, right) ==
  [piece    |-> piece, priority |-> priority, left |-> left, right |-> right,
   total    |-> left.total + piece.size + right.total,
   newlines |-> left.newlines + piece.newlines + right.newlines]

WithLeft(node, left) == Node(node.piece, node.priority, left, node.right)
WithRight(node, right) == Node(node.piece, node.priority, node.left, right)

\* make_node: the n-th node since the text was set.
Leaf(piece, n) == IF piece.size = 0 THEN Nil ELSE Node(piece, Priorities[n], Nil, Nil)

\* piece_text, in the arrays a.
PieceText(a, piece) == SubSeq(a[piece.source], piece.start + 1, piece.start + piece.size)

-----------------------------------------------------------------------------
(* Putting trees together *)

RECURSIVE MergeRaw(_, _), PopLast(_), PopFirst(_)

MergeRaw(left, right) ==
  CASE left = Nil -> right
    [] right = Nil /\ left # Nil -> left
    [] OTHER -> IF left.priority >= right.priority
                THEN WithRight(left, MergeRaw(left.right, right))
                ELSE WithLeft(right, MergeRaw(left, right.left))

\* The last node, alone, and the tree without it.
PopLast(node) ==
  IF node.right = Nil
  THEN [out |-> WithLeft(node, Nil), rest |-> node.left]
  ELSE LET popped == PopLast(node.right)
       IN  [popped EXCEPT !.rest = WithRight(node, @)]

PopFirst(node) ==
  IF node.left = Nil
  THEN [out |-> WithRight(node, Nil), rest |-> node.right]
  ELSE LET popped == PopFirst(node.left)
       IN  [popped EXCEPT !.rest = WithLeft(node, @)]

CanCoalesce(p, q) == p.source = q.source /\ p.start + p.size = q.start

Concat(left, right) ==
  IF left = Nil THEN right
  ELSE IF right = Nil THEN left
  ELSE LET l == PopLast(left)
           f == PopFirst(right)
           p == l.out.piece
           q == f.out.piece
           both == [p EXCEPT !.size = @ + q.size, !.newlines = @ + q.newlines]
       IN  IF CanCoalesce(p, q)
           THEN MergeRaw(MergeRaw(l.rest, Node(both, l.out.priority, Nil, Nil)), f.rest)
           ELSE MergeRaw(MergeRaw(MergeRaw(l.rest, l.out), f.out), f.rest)

\* build_original_tree: a piece for every line, with its newline.
OriginalTree(t) ==
  LET ends == SetToSortSeq({i \in DOMAIN t : t[i] = T!NL \/ i = Len(t)}, <)
      start(n) == IF n = 1 THEN 0 ELSE ends[n - 1]
      Appended(tree, n) ==
        MergeRaw(tree, Leaf(Piece("ORIGINAL", start(n), SubSeq(t, start(n) + 1, ends[n])), n))
  IN  [tree |-> FoldLeftDomain(Appended, Nil, ends), nodes |-> Len(ends)]

-----------------------------------------------------------------------------
(* Taking a tree apart *)

RECURSIVE SplitTree(_, _, _, _)

\* split_tree, in the arrays a: cutting a piece makes node n + 1.
SplitTree(a, node, offset, n) ==
  IF node = Nil THEN [left |-> Nil, right |-> Nil, nodes |-> n]
  ELSE
  LET begin == node.left.total
      end == begin + node.piece.size
      text == PieceText(a, node.piece)
      cut == offset - begin
      inLeft == SplitTree(a, node.left, offset, n)
      inRight == SplitTree(a, node.right, offset - end, n)
      head == Piece(node.piece.source, node.piece.start, SubSeq(text, 1, cut))
      tail == Piece(node.piece.source, node.piece.start + cut, SubSeq(text, cut + 1, Len(text)))
  IN  CASE offset < begin -> [inLeft EXCEPT !.right = WithLeft(node, @)]
        [] offset > end -> [inRight EXCEPT !.left = WithRight(node, @)]
        [] offset = begin -> [left |-> node.left, right |-> WithLeft(node, Nil), nodes |-> n]
        [] offset = end -> [left |-> WithRight(node, Nil), right |-> node.right, nodes |-> n]
        [] OTHER -> [left  |-> MergeRaw(node.left, Node(head, node.priority, Nil, Nil)),
                     right |-> MergeRaw(Leaf(tail, n + 1), node.right),
                     nodes |-> n + 1]

-----------------------------------------------------------------------------
(* What readers are answered, in the arrays a *)

RECURSIVE CopyRange(_, _, _, _), FindNewline(_, _, _, _), DirectLine(_, _, _, _), Scan(_, _, _)

CopyRange(a, node, start, end) ==
  IF node = Nil \/ start = end THEN <<>>
  ELSE
  LET begin == node.left.total
      stop == begin + node.piece.size
      text == PieceText(a, node.piece)
  IN  (IF start < begin THEN CopyRange(a, node.left, start, T!Least(end, begin)) ELSE <<>>)
      \o (IF start < stop /\ end > begin
          THEN SubSeq(text, T!Most(start - begin, 0) + 1, T!Least(end, stop) - begin) ELSE <<>>)
      \o (IF end > stop THEN CopyRange(a, node.right, T!Most(start - stop, 0), end - stop) ELSE <<>>)

\* The offset of the newline that newline others come before.
FindNewline(a, node, newline, offset) ==
  LET here == newline - node.left.newlines
      text == PieceText(a, node.piece)
  IN  IF newline < node.left.newlines
      THEN FindNewline(a, node.left, newline, offset)
      ELSE IF here < node.piece.newlines
      THEN offset + node.left.total
           + (CHOOSE i \in DOMAIN text : text[i] = T!NL /\ T!NewlinesIn(text, i) = here + 1) - 1
      ELSE FindNewline(a, node.right, here - node.piece.newlines,
                       offset + node.left.total + node.piece.size)

Size(tree) == tree.total
LineCount(tree) == tree.newlines + 1

LineStart(a, tree, line) == IF line = 0 THEN 0 ELSE FindNewline(a, tree, line - 1, 0) + 1

\* line_range
LineSize(a, tree, line) ==
  (IF line + 1 < LineCount(tree) THEN LineStart(a, tree, line + 1) - 1 ELSE Size(tree))
  - LineStart(a, tree, line)

NoLine == "NO_LINE"

\* The line as part of a piece, if one piece holds it all.
DirectLine(a, node, start, size) ==
  IF node = Nil \/ size = 0 THEN NoLine
  ELSE
  LET begin == node.left.total
      stop == begin + node.piece.size
  IN  CASE start + size <= begin -> DirectLine(a, node.left, start, size)
        [] start >= stop -> DirectLine(a, node.right, start - stop, size)
        [] start >= begin /\ start + size <= stop ->
             SubSeq(PieceText(a, node.piece), start - begin + 1, start - begin + size)
        [] OTHER -> NoLine

\* text_buffer_line: direct, or copied to line_cache.
Line(a, tree, line) ==
  LET start == LineStart(a, tree, line)
      size == LineSize(a, tree, line)
      direct == DirectLine(a, tree, start, size)
  IN  CASE size = 0 -> <<>>
        [] direct # NoLine /\ size # 0 -> direct
        [] OTHER -> CopyRange(a, tree, start, start + size)

PositionToOffset(a, tree, p) ==
  LET l == T!Least(p.line, LineCount(tree) - 1)
  IN  LineStart(a, tree, l) + T!Least(p.column, LineSize(a, tree, l))

\* scan_position: s is what remains to be passed, and the position so far.
Scan(a, node, s) ==
  IF node = Nil \/ s.remaining = 0 THEN s
  ELSE
  LET passed == Scan(a, node.left, s)
      text == PieceText(a, node.piece)
      n == T!Least(passed.remaining, Len(text))
      at == T!Position(text, n)
  IN  IF passed.remaining = 0 THEN passed
      ELSE Scan(a, node.right,
                [remaining |-> passed.remaining - n,
                 line |-> passed.line + at.line,
                 column |-> IF at.line = 0 THEN passed.column + n ELSE at.column])

OffsetToPosition(a, tree, offset) ==
  LET s == Scan(a, tree, [remaining |-> T!Least(offset, Size(tree)), line |-> 0, column |-> 0])
  IN  T!At(s.line, s.column)

\* Every answer of the tree, to whoever asks.
Answers(a, tree) ==
  [text      |-> CopyRange(a, tree, 0, Size(tree)),
   lines     |-> [l \in 0 .. LineCount(tree) - 1 |-> Line(a, tree, l)],
   positions |-> [o \in 0 .. Size(tree) + 1 |-> OffsetToPosition(a, tree, o)],
   offsets   |-> [p \in [line : 0 .. LineCount(tree), column : 0 .. Size(tree) + 1] |->
                    PositionToOffset(a, tree, p)]]

-----------------------------------------------------------------------------
(* The operations *)

Arrays == [ORIGINAL |-> original, ADDED |-> added]

Init ==
  /\ original = <<>> /\ added = <<>> /\ root = Nil /\ nodes = 0 /\ revision = 0
  /\ answers = Answers(Arrays, Nil)

Becomes(a, tree, made) ==
  /\ revision < MaxRevision
  /\ original' = a.ORIGINAL /\ added' = a.ADDED
  /\ root' = tree /\ nodes' = made
  /\ revision' = revision + 1
  /\ answers' = Answers(a, tree)

\* text_buffer_set
Set(value) ==
  LET loaded == T!Normal(value)
      built == OriginalTree(loaded)
  IN  Becomes([ORIGINAL |-> loaded, ADDED |-> <<>>], built.tree, built.nodes)

\* text_buffer_insert
InsertText(offset, value) ==
  LET grown == [Arrays EXCEPT !.ADDED = @ \o value]
      inserted == Leaf(Piece("ADDED", Len(added), value), nodes + 1)
      split == SplitTree(grown, root, T!Least(offset, Size(root)), nodes + 1)
  IN  /\ value # <<>>
      /\ Becomes(grown, Concat(Concat(split.left, inserted), split.right), split.nodes)

\* text_buffer_erase
Erase(from, to) ==
  LET start == T!Least(T!Least(from, to), Size(root))
      end == T!Least(T!Most(from, to), Size(root))
      first == SplitTree(Arrays, root, start, nodes)
      second == SplitTree(Arrays, first.right, end - start, first.nodes)
  IN  /\ start # end
      /\ Becomes(Arrays, Concat(first.left, second.right), second.nodes)

Next ==
  \/ \E t \in Loads : Set(t)
  \/ \E offset \in 0 .. Size(root) + 1, v \in Values : InsertText(offset, v)
  \/ \E from, to \in 0 .. Size(root) + 1 : Erase(from, to)

Spec == Init /\ [][Next]_vars

-----------------------------------------------------------------------------
(* Correctness *)

\* The tree of pieces is the text: after any loads, insertions and removals, the copy of
\* the text, its lines, and every offset and position (text_buffer.cpp:502-586) are those
\* of the plain sequence of bytes that TextSequence describes.
Text == INSTANCE TextSequence WITH text <- answers.text
ImplementsText == Text!Spec
===============================================================================
