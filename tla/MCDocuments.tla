----------------------------- MODULE MCDocuments ------------------------------
(***************************************************************************)
(* What the editor shows, in one run: the documents of its panes           *)
(* (EditorPanes) and the results of a language server (LspResults).  They   *)
(* share no variable, so each moves while the other is as it was at first.  *)
(***************************************************************************)
EXTENDS EditorPanes, TLC

CONSTANTS Files,         \* files of the results
          JsonPaths, MaxRev, MaxRequests, MaxMoves

ASSUME ResultsAssumption == MaxRev \in Nat /\ MaxRequests \in Nat /\ MaxMoves \in Nat

VARIABLES bridge, client, asked, editor, sent, done, json, moves

Results == INSTANCE LspResults WITH Paths <- Files

results == <<bridge, client, asked, editor, sent, done, json, moves>>

PanesRest == Init /\ UNCHANGED vars
ResultsRest == Results!Init /\ UNCHANGED results

DocumentsInit == Init /\ Results!Init

DocumentsNext ==
    \/ Edit /\ ResultsRest
    \/ Undo /\ ResultsRest
    \/ Redo /\ ResultsRest
    \/ Save /\ ResultsRest
    \/ SaveAndClose /\ ResultsRest
    \/ CloseDeleted /\ ResultsRest
    \/ Overwrite /\ ResultsRest
    \/ Reload /\ ResultsRest
    \/ Split /\ ResultsRest
    \/ CloseSplit /\ ResultsRest
    \/ RequestClose /\ ResultsRest
    \/ ForceClose /\ ResultsRest
    \/ RequestCloseApp /\ ResultsRest
    \/ Discard /\ ResultsRest
    \/ SaveThenClose /\ ResultsRest
    \/ Notice /\ ResultsRest
    \/ \E f \in Paths : Open(f) /\ ResultsRest
    \/ \E f \in Paths : CloseTab(f) /\ ResultsRest
    \/ \E f \in Paths : SaveDeletedAs(f) /\ ResultsRest
    \/ \E f \in Paths : LspEdit(f) /\ ResultsRest
    \/ \E f \in Paths : DiskWrite(f) /\ ResultsRest
    \/ \E f \in Paths : DiskDelete(f) /\ ResultsRest
    \/ \E p \in PaneIds : FocusPane(p) /\ ResultsRest
    \/ Results!Idle /\ PanesRest
    \/ Results!Type /\ PanesRest
    \/ \E k \in Results!Kinds : Results!Ask(k) /\ PanesRest
    \/ Results!Accept /\ PanesRest
    \/ Results!Dismiss /\ PanesRest
    \/ Results!Move /\ PanesRest
    \/ Results!Restart /\ PanesRest
    \/ \E r \in asked : Results!Answer(r) /\ PanesRest

DocumentsSpec == DocumentsInit /\ [][DocumentsNext]_<<vars, results>>

\* Every result is acted on or still new to the editor, and none twice (LspResults).
AnswersActedOn == Results!AnswersActedOn

\* the files of the panes, and those of the results that are no JSON files
Symmetry == Permutations(Paths) \cup Permutations(Files \ JsonPaths)
================================================================================
