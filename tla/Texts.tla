-------------------------------- MODULE Texts --------------------------------
(***************************************************************************)
(* What a text is to the code editor: a sequence of bytes, in which lines, *)
(* offsets and positions (a line and a column) are found.  These operators  *)
(* say what text_buffer.cpp promises of a text, without its tree.           *)
(***************************************************************************)
EXTENDS Integers, Sequences, FiniteSets, SequencesExt

NL == "nl"        \* \n
CR == "cr"        \* \r

At(l, c) == [line |-> l, column |-> c]

Least(m, n) == IF m < n THEN m ELSE n
Most(m, n) == IF m < n THEN n ELSE m

Before(p, q) == p.line < q.line \/ (p.line = q.line /\ p.column < q.column)

\* How many of the first n bytes end a line.
NewlinesIn(t, n) == Cardinality({i \in 1 .. n : t[i] = NL})

LineCount(t) == NewlinesIn(t, Len(t)) + 1

LineStart(t, l) ==
  IF l = 0 THEN 0
  ELSE CHOOSE i \in DOMAIN t : t[i] = NL /\ NewlinesIn(t, i) = l

LineSize(t, l) ==
  (IF l + 1 < LineCount(t) THEN LineStart(t, l + 1) - 1 ELSE Len(t)) - LineStart(t, l)

Line(t, l) == SubSeq(t, LineStart(t, l) + 1, LineStart(t, l) + LineSize(t, l))

\* Positions past the end of a line, or past the last line, mean the end.
InLine(t, l, column) == At(l, Least(column, LineSize(t, l)))
Clamp(t, p) == InLine(t, Least(p.line, LineCount(t) - 1), p.column)

OffsetInLine(t, l, column) == LineStart(t, l) + Least(column, LineSize(t, l))
Offset(t, p) == OffsetInLine(t, Least(p.line, LineCount(t) - 1), p.column)

Position(t, o) ==
  LET n == Least(o, Len(t))
      l == NewlinesIn(t, n)
  IN  At(l, n - LineStart(t, l))

Insert(t, o, v) == SubSeq(t, 1, o) \o v \o SubSeq(t, o + 1, Len(t))

Erase(t, from, to) == SubSeq(t, 1, from) \o SubSeq(t, to + 1, Len(t))

\* The elements of s at the indices in S, in the order of their ranks, equals in theirs.
InOrder(s, S, ranks) ==
  LET place(i) == Cardinality({j \in S : ranks[j] < ranks[i] \/ (ranks[j] = ranks[i] /\ j < i)})
  IN  <<>> \o [n \in 1 .. Cardinality(S) |-> s[CHOOSE i \in S : place(i) = n - 1]]

Those(s, S) == InOrder(s, S, [i \in S |-> 0])

\* A text as it is loaded: "\r\n" ends a line too, and a newline at the end of the
\* text ends its last line and begins no other.
Normal(t) ==
  LET dropped(i) == \/ t[i] = NL /\ i = Len(t)
                    \/ t[i] = CR /\ i < Len(t) /\ t[i + 1] = NL
  IN  Those(t, {i \in DOMAIN t : ~dropped(i)})
=============================================================================
