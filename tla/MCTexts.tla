------------------------------- MODULE MCTexts -------------------------------
(***************************************************************************)
(* A text of the editor, in one run: editing and folding it (MCEdits), and  *)
(* the tree behind it (Buffer).  They share no variable, so each moves      *)
(* while the others are as they were at first.                              *)
(***************************************************************************)
EXTENDS MCEdits

CONSTANT MaxRevision

\* A text with lines of both kinds and an empty one at its end, and a short one.
MCLoads == {<<"a", "nl", "b", "cr", "nl", "nl">>, <<"a">>}
MCValues == {<<"nl">>, <<"x", "nl", "y">>}

\* The order of the first hashes of next_priority.
MCPriorities == <<8, 4, 16, 5, 15, 14, 10, 3, 13, 1, 7, 6, 9, 11, 2, 12>>

VARIABLES original, added, root, nodes, revision, answers

Buffer == INSTANCE TextBuffer
            WITH Loads <- MCLoads, Values <- MCValues, Priorities <- MCPriorities

buffer == <<original, added, root, nodes, revision, answers>>

BufferRests == revision = 0 /\ UNCHANGED buffer
EditingRests == keys = 0 /\ editor.primary = Editing!Cursor(Editing!Origin) /\ UNCHANGED editing
FoldingRests == Init /\ outline.lines = 2 /\ UNCHANGED vars

TextsInit == Buffer!Init /\ Editing!Init /\ Init

TextsNext ==
  \/ BufferRests /\ EditingRests /\ Next
  \/ BufferRests /\ FoldingRests /\ Editing!Next
  \/ EditingRests /\ FoldingRests /\ Buffer!Next

TextsSpec == TextsInit /\ [][TextsNext]_<<buffer, editing, vars>>

\* The tree of pieces is the text (TextBuffer).
ImplementsText == Buffer!ImplementsText
=============================================================================
