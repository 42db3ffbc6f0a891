----------------------------- MODULE TextSequence -----------------------------
(***************************************************************************)
(* What a text buffer promises: it holds a text, counts its changes, and    *)
(* answers every question about lines and positions from that text alone.   *)
(***************************************************************************)
EXTENDS Texts

CONSTANTS Loads, Values   \* texts that are loaded; texts that are inserted

VARIABLES
  text,
  revision,
  answers         \* what the readers of the buffer are answered

vars == <<text, revision, answers>>

Answers(t) ==
  [text      |-> t,
   lines     |-> [l \in 0 .. LineCount(t) - 1 |-> Line(t, l)],
   positions |-> [o \in 0 .. Len(t) + 1 |-> Position(t, o)],
   offsets   |-> [p \in [line : 0 .. LineCount(t), column : 0 .. Len(t) + 1] |-> Offset(t, p)]]

Holds(t) == text' = t /\ answers' = Answers(t) /\ revision' = revision + 1

Init == text = <<>> /\ revision = 0 /\ answers = Answers(<<>>)

Set(t) == Holds(Normal(t))

InsertText(o, v) == v # <<>> /\ Holds(Insert(text, Least(o, Len(text)), v))

EraseBetween(from, to) ==
  LET s == Least(Least(from, to), Len(text))
      e == Least(Most(from, to), Len(text))
  IN  s # e /\ Holds(Erase(text, s, e))

Next ==
  \/ \E t \in Loads : Set(t)
  \/ \E o \in 0 .. Len(text), v \in Values : InsertText(o, v)
  \/ \E from, to \in 0 .. Len(text) : EraseBetween(from, to)

Spec == Init /\ [][Next]_vars
===============================================================================
