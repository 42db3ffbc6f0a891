------------------------------- MODULE MCEdits -------------------------------
(***************************************************************************)
(* What a user does with a text of the editor: editing it (Editing), and    *)
(* folding its lines (FoldedLines).  MCTexts adds the tree behind the text. *)
(*                                                                         *)
(* A file of three lines, for three cursors; the second line has nothing    *)
(* but its indentation.  Outlines with scopes in three levels and siblings, *)
(* one with scopes that share a line, and one without a scope.              *)
(***************************************************************************)
EXTENDS FoldedLines

CONSTANTS
  Files, Chars, Blanks, Words, MaxKeys, MaxLength, MaxExtras

\* A file is bytes, or what stands for them.
ASSUME FilesAssumption == \A t \in Files : t \in Seq(STRING)

MCFiles == {<<"a", "nl", "sp", "nl", "a">>}

MCRange(a, b) == [start |-> a, end |-> b]

\* The first has a scope whose end the text does not have; the third is of the JSON text
\*   [{          0
\*     "a": 1    1
\*   },          2
\*   {           3
\*     "a": 2    4
\*   }, {        5
\*   }]          6
MCOutlines ==
  {[lines |-> 8, ranges |-> <<MCRange(4, 6), MCRange(0, 8), MCRange(1, 3), MCRange(2, 3)>>],
   [lines |-> 6, ranges |-> <<MCRange(0, 1), MCRange(3, 5), MCRange(4, 5)>>],
   [lines |-> 8, ranges |-> <<MCRange(0, 6), MCRange(0, 2), MCRange(3, 5), MCRange(5, 6)>>],
   [lines |-> 2, ranges |-> <<>>]}

VARIABLES editor, undo, redo, keys

Editing == INSTANCE TextEditing

editing == <<editor, undo, redo, keys>>

\* Every edit can be undone (TextEditing).
EditsAreSaved == Editing!EditsAreSaved

\* An edit happens at every cursor as if at once (TextEditing).
EditsEverywhere == Editing!EditsEverywhere
=============================================================================
