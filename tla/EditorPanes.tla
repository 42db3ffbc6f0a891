------------------------------ MODULE EditorPanes ------------------------------
(***************************************************************************)
(* Files, panes and buffers of the code editor (editor_model.cpp,          *)
(* editor_render.cpp).  The text of the focused pane lives in the editor   *)
(* itself (move_pane_to_editor takes it out of the pane); every other pane *)
(* holds a text of its own, and open_files holds a third copy of every     *)
(* file opened so far, refreshed only when the editor turns to another     *)
(* file.  Panes that show one file share it by cloning after the input of  *)
(* a frame.  The disk changes under the editor, which compares write       *)
(* stamps when the file watcher reports something.                         *)
(*                                                                         *)
(* A text is the moment it came to be: `clock` numbers edits and writes.   *)
(* Cursors, folds, views, the file tree's pane, scratch buffers and diffs  *)
(* are left out; a split tree is the set of its leaves.                    *)
(***************************************************************************)
EXTENDS Naturals, Sequences, FiniteSets, SequencesExt, FiniteSetsExt

CONSTANTS Paths,      \* files with a path
          NumPanes,   \* panes are numbered in the order they were made
          MaxClock,   \* bound: edits and writes
          Revisions,  \* revisions of a text wrap at this (2^64 in the code)
          Shut,       \* a pane that was closed, or not made yet
          Here,       \* the pane whose text the editor has taken
          NotOpen     \* a path without an entry in open_files

VARIABLES ed,         \* the document in the editor
          panes,      \* pane -> document, Here or Shut
          focus,      \* the focused pane
          opened,     \* open_files: path -> document or NotOpen
          recent,     \* open_files by last_used, the latest last
          intent,     \* close_intent
          closeReq,   \* CLOSE_APP_REQUESTED
          confirmed,  \* CLOSE_APP_CONFIRMED
          disk,       \* path -> its text and write stamp, 0 when deleted
          clock,
          unseen      \* paths that changed since the watcher was last heard
vars == <<ed, panes, focus, opened, recent, intent, closeReq, confirmed, disk,
          clock, unseen>>

PaneIds == 1..NumPanes
Texts == 1..(MaxClock + 1)
Doc == [file: Paths, text: Texts, saved: Texts, undo: Seq(Texts), redo: Seq(Texts),
        rev: 0..(Revisions - 1), stamp: 0..(MaxClock + 1), dirty: BOOLEAN, pending: BOOLEAN,
        deleted: BOOLEAN]

ASSUME PanesAssumption == /\ NumPanes \in Nat \ {0}
                          /\ MaxClock \in Nat \ {0}
                          /\ Revisions \in Nat \ {0, 1}
                          /\ Shut \notin Doc /\ Here \notin Doc \cup {Shut} /\ NotOpen \notin Doc

(* The editor's own state as one record, which the handlers transform. *)
App == [ed |-> ed, panes |-> panes, focus |-> focus, opened |-> opened,
        recent |-> recent, intent |-> intent, closeReq |-> closeReq,
        confirmed |-> confirmed]
Becomes(s) == /\ ed' = s.ed /\ panes' = s.panes /\ focus' = s.focus
              /\ opened' = s.opened /\ recent' = s.recent /\ intent' = s.intent
              /\ closeReq' = s.closeReq /\ confirmed' = s.confirmed

Back(s) == {p \in PaneIds \ {s.focus} : s.panes[p] # Shut}
Showing(s, f) == {p \in Back(s) : s.panes[p].file = f}
Listed(s) == {f \in Paths : s.opened[f] # NotOpen}
Exists(f) == disk[f].stamp # 0

Bump(rev) == (rev + 1) % Revisions

FromDisk(f, rev) ==
    [file |-> f, text |-> disk[f].text, saved |-> disk[f].text, undo |-> <<>>,
     redo |-> <<>>, rev |-> rev, stamp |-> disk[f].stamp, dirty |-> FALSE,
     pending |-> FALSE, deleted |-> FALSE]
MarkSaved(d) == [d EXCEPT !.saved = d.text, !.dirty = FALSE, !.pending = FALSE,
                          !.deleted = FALSE]
BadRefreshDirty(d) == [d EXCEPT !.dirty = d.text # 1]
RefreshDirty(d) == LET dirty == d.text # d.saved
                   IN [d EXCEPT !.dirty = dirty, !.pending = @ /\ dirty]

(***************************************************************************)
(* The handlers.                                                           *)
(***************************************************************************)
BadSyncShared(s) ==
    [s EXCEPT !.panes = [p \in PaneIds |->
        IF p \notin Showing(s, s.ed.file) THEN s.panes[p]
        ELSE [s.panes[p] EXCEPT !.text = s.ed.text, !.rev = s.ed.rev,
                                !.dirty = s.ed.dirty]]]

(* After input: every other pane that shows the file gets what differs; a  *)
(* text of the same revision is taken to be the same.                      *)
SyncShared(s) ==
    [s EXCEPT !.panes = [p \in PaneIds |->
        IF p \notin Showing(s, s.ed.file) THEN s.panes[p]
        ELSE IF s.panes[p].rev # s.ed.rev THEN s.ed
        ELSE [s.ed EXCEPT !.text = s.panes[p].text]]]

BadSyncMatching(s) == s

(* After a save, save-as or reload, whatever the revisions. *)
SyncMatching(s) ==
    [s EXCEPT !.panes = [p \in PaneIds |-> IF p \in Showing(s, s.ed.file)
                                           THEN s.ed ELSE s.panes[p]]]

BadStoreCurrent(s) ==
    [s EXCEPT !.opened[s.ed.file] = IF @ = NotOpen THEN [s.ed EXCEPT !.rev = 0] ELSE @]
StoreCurrent(s) == [s EXCEPT !.opened[s.ed.file] = [s.ed EXCEPT !.rev = 0]]
Touch(s, f) == [s EXCEPT !.recent = Append(RemoveFirst(@, f), f)]
Forget(s, f) == [s EXCEPT !.opened[f] = NotOpen, !.recent = RemoveFirst(@, f)]

(* load_shared_editor_buffer, load_open_file_buffer and the disk, in this  *)
(* order.  A new text in the editor ends a pending close.                  *)
OpenFile(s, f, store) ==
    LET a == IF store THEN StoreCurrent(s) ELSE s
        rev == Bump(a.ed.rev)
    IN  IF a.ed.file = f THEN Touch(a, f)
        ELSE IF Showing(a, f) # {}
             THEN Touch(StoreCurrent([a EXCEPT !.ed = a.panes[Min(Showing(a, f))]]), f)
        ELSE IF a.opened[f] # NotOpen
             THEN Touch([a EXCEPT !.ed = [a.opened[f] EXCEPT !.rev = rev],
                                  !.intent = "NONE"], f)
        ELSE IF Exists(f)
             THEN Touch(StoreCurrent([a EXCEPT !.ed = FromDisk(f, rev),
                                               !.intent = "NONE"]), f)
        ELSE a

(* The most recently used file follows the one that is closed.  Without    *)
(* any other file the program is asked to close.                           *)
CloseCurrent(s) ==
    LET a == Forget(s, s.ed.file)
    IN  IF Listed(a) = {} THEN [a EXCEPT !.closeReq = TRUE]
        ELSE OpenFile(a, IF a.recent # <<>> THEN Last(a.recent)
                         ELSE CHOOSE g \in Listed(a) : TRUE, FALSE)

FileDirty(s, f) == IF s.ed.file = f THEN s.ed.dirty
                   ELSE IF Showing(s, f) # {} THEN s.panes[Min(Showing(s, f))].dirty
                   ELSE s.opened[f].dirty

(* request_close_app: one question for a listed file with unsaved changes, *)
(* or the end of the program.                                              *)
AskOrClose(s) ==
    LET a == StoreCurrent([s EXCEPT !.closeReq = FALSE])
        dirty == {f \in Listed(a) : FileDirty(a, f)}
    IN  IF s.intent # "NONE" THEN {[s EXCEPT !.closeReq = FALSE]}
        ELSE IF dirty = {} THEN {[a EXCEPT !.confirmed = TRUE]}
        ELSE {[OpenFile(a, f, TRUE) EXCEPT !.intent = "APP"] : f \in dirty}

--------------------------------------------------------------------------------
(* The program starts with one pane, one file and nothing unsaved. *)
Init == \E f \in Paths :
            LET start == [file |-> f, text |-> 1, saved |-> 1, undo |-> <<>>,
                          redo |-> <<>>, rev |-> 0, stamp |-> 1, dirty |-> FALSE,
                          pending |-> FALSE, deleted |-> FALSE]
            IN  /\ ed = start
                /\ opened = [g \in Paths |-> IF g = f THEN start ELSE NotOpen]
                /\ recent = <<f>>
                /\ panes = [p \in PaneIds |-> IF p = 1 THEN Here ELSE Shut]
                /\ focus = 1
                /\ intent = "NONE"
                /\ closeReq = FALSE
                /\ confirmed = FALSE
                /\ disk = [g \in Paths |-> [text |-> 1, stamp |-> 1]]
                /\ clock = 1
                /\ unseen = {}

Running == ~confirmed
PopupOpen == ed.pending \/ ed.deleted \/ intent # "NONE"
CanType == Running /\ ~PopupOpen
Outside == <<disk, clock, unseen>>
Tick == /\ clock < MaxClock
        /\ clock' = clock + 1
\* the answer to a popup may follow the last edit or write
OneMoreTick == /\ clock <= MaxClock
               /\ clock' = clock + 1

(* Any key that changes the text. *)
Edit ==
    /\ CanType
    /\ Tick
    /\ Becomes(SyncShared([App EXCEPT
           !.ed = RefreshDirty([ed EXCEPT !.undo = Append(@, ed.text), !.redo = <<>>,
                                          !.text = clock', !.rev = Bump(@)])]))
    /\ UNCHANGED <<disk, unseen>>

Undo ==
    /\ CanType
    /\ ed.undo # <<>>
    /\ Becomes(SyncShared([App EXCEPT
           !.ed = RefreshDirty([ed EXCEPT !.undo = Front(@), !.text = Last(ed.undo),
                                          !.redo = Append(@, ed.text), !.rev = Bump(@)])]))
    /\ UNCHANGED Outside

Redo ==
    /\ CanType
    /\ ed.redo # <<>>
    /\ Becomes(SyncShared([App EXCEPT
           !.ed = RefreshDirty([ed EXCEPT !.redo = Front(@), !.text = Last(ed.redo),
                                          !.undo = Append(@, ed.text), !.rev = Bump(@)])]))
    /\ UNCHANGED Outside

(* overwrite_current_file_to_disk, and its first half. *)
WriteFile(f, text) ==
    /\ disk' = [disk EXCEPT ![f] = [text |-> text, stamp |-> clock']]
    /\ unseen' = unseen \ {f}
Written(s, f) ==
    StoreCurrent(SyncMatching([s EXCEPT
        !.ed = MarkSaved([s.ed EXCEPT !.stamp = disk'[f].stamp, !.file = f])]))

(* Ctrl+S; handled at the end of the frame. *)
Save == /\ CanType
        /\ Tick /\ WriteFile(ed.file, ed.text)
        /\ Becomes(Written(SyncShared(App), ed.file))

(* write-quit *)
SaveAndClose == /\ CanType
                /\ Tick /\ WriteFile(ed.file, ed.text)
                /\ Becomes(CloseCurrent(Written(SyncShared(App), ed.file)))

(* The popup of a deleted file: close it, or save it under a path that     *)
(* neither exists nor is listed for another file.                          *)
CloseDeleted == /\ Running /\ ed.deleted /\ intent = "NONE"
                /\ Becomes(CloseCurrent(App))
                /\ UNCHANGED Outside
SaveDeletedAs(f) ==
    /\ Running /\ ed.deleted /\ intent = "NONE"
    /\ ~Exists(f)
    /\ f = ed.file \/ opened[f] = NotOpen
    /\ Tick /\ WriteFile(f, ed.text)
    /\ LET renamed == [App EXCEPT !.opened[ed.file] = NotOpen,
                                  !.recent = ReplaceAll(@, ed.file, f)]
       IN  Becomes(Written(renamed, f))

(* The popup of a file that changed on disk under unsaved changes. *)
Overwrite == /\ Running /\ ed.pending /\ ~ed.deleted /\ intent = "NONE"
             /\ OneMoreTick /\ WriteFile(ed.file, ed.text)
             /\ Becomes(Written(App, ed.file))
Reload == /\ Running /\ ed.pending /\ ~ed.deleted /\ intent = "NONE"
          /\ Exists(ed.file)
          /\ Becomes(StoreCurrent(SyncMatching([App EXCEPT
                 !.ed = FromDisk(ed.file, Bump(ed.rev))])))
          /\ UNCHANGED Outside

(* A tab, a picker, a jump or a result of the language server. *)
Open(f) == /\ Running
           /\ Becomes(OpenFile(App, f, TRUE))
           /\ UNCHANGED Outside

(* A click into another pane. *)
FocusPane(p) ==
    /\ Running
    /\ p \in Back(App)
    /\ LET a == SyncShared(App)
       IN  Becomes([a EXCEPT !.panes = [@ EXCEPT ![focus] = a.ed, ![p] = Here],
                             !.ed = a.panes[p], !.focus = p])
    /\ UNCHANGED Outside

(* split_focused: the new pane is a clone and takes the focus. *)
Split ==
    /\ CanType
    /\ \E p \in PaneIds :
           /\ panes[p] = Shut
           /\ LET a == SyncShared([App EXCEPT
                           !.panes = [@ EXCEPT ![focus] = ed, ![p] = Here], !.focus = p])
              IN  Becomes(a)
    /\ UNCHANGED Outside

(* close_focused_split: the pane goes, with the text the editor holds.     *)
(* Closing the last one asks to close the program.                         *)
CloseSplit ==
    /\ CanType
    /\ IF Back(App) = {}
       THEN Becomes([App EXCEPT !.closeReq = TRUE])
       ELSE \E p \in Back(App) :
                LET a == SyncShared(App)
                IN  Becomes([a EXCEPT !.panes = [@ EXCEPT ![focus] = Shut, ![p] = Here],
                                      !.ed = a.panes[p], !.focus = p])
    /\ UNCHANGED Outside

(* Ctrl+W and the tab's cross ask before unsaved changes go; q! does not. *)
RequestClose == /\ CanType
                /\ Becomes(IF ed.dirty THEN [App EXCEPT !.intent = "BUFFER"]
                           ELSE CloseCurrent(App))
                /\ UNCHANGED Outside
CloseTab(f) == /\ Running
               /\ opened[f] # NotOpen
               /\ f # ed.file
               /\ LET gone == Forget(App, f)
                  IN  Becomes(IF FileDirty(App, f)
                              THEN [OpenFile(App, f, TRUE) EXCEPT !.intent = "BUFFER"]
                              ELSE IF Listed(gone) = {} THEN [gone EXCEPT !.closeReq = TRUE]
                              ELSE gone)
               /\ UNCHANGED Outside
ForceClose == /\ CanType
              /\ Becomes(CloseCurrent(App))
              /\ UNCHANGED Outside

(* The window's cross, or the request that another handler left; both end  *)
(* in the draw of the frame. *)
RequestCloseApp == /\ Running
                   /\ \E s \in AskOrClose(App) : Becomes(s)
                   /\ UNCHANGED Outside

(* The popup of unsaved changes: C and S. *)
Discard ==
    /\ Running /\ intent # "NONE"
    /\ LET a == CloseCurrent([App EXCEPT !.intent = "NONE"])
       IN  IF intent = "APP" THEN \E s \in AskOrClose(a) : Becomes(s) ELSE Becomes(a)
    /\ UNCHANGED Outside
SaveThenClose ==
    /\ Running /\ intent # "NONE"
    /\ Tick /\ WriteFile(ed.file, ed.text)
    /\ LET a == Written([App EXCEPT !.intent = "NONE"], ed.file)
       IN  IF intent = "APP" THEN \E s \in AskOrClose(a) : Becomes(s)
           ELSE Becomes(CloseCurrent(a))

(* Edits of the language server to a file other than the current one       *)
(* (apply_lsp_edits_to_file): the listed copy changes, or what the disk    *)
(* holds joins the list.                                                   *)
LspEdit(f) ==
    /\ Running /\ f # ed.file
    /\ Tick
    /\ \/ /\ opened[f] # NotOpen
          /\ opened' = [opened EXCEPT ![f].text = clock', ![f].dirty = TRUE]
       \/ /\ opened[f] = NotOpen /\ Exists(f)
          /\ opened' = [opened EXCEPT ![f] = [FromDisk(f, 0) EXCEPT
                            !.text = clock', !.dirty = TRUE, !.stamp = 0]]
    /\ UNCHANGED <<ed, panes, focus, recent, intent, closeReq, confirmed, disk,
                   unseen>>

--------------------------------------------------------------------------------
(* Other programs. *)
DiskWrite(f) == /\ Running /\ Tick
                /\ disk' = [disk EXCEPT ![f] = [text |-> clock', stamp |-> clock']]
                /\ unseen' = unseen \cup {f}
                /\ UNCHANGED <<ed, panes, focus, opened, recent, intent, closeReq, confirmed>>
DiskDelete(f) == /\ Running /\ Exists(f) /\ Tick
                 /\ disk' = [disk EXCEPT ![f].stamp = 0]
                 /\ unseen' = unseen \cup {f}
                 /\ UNCHANGED <<ed, panes, focus, opened, recent, intent, closeReq,
                                confirmed>>

(* One document against the disk, the same in the editor, in a pane and in *)
(* the list.                                                               *)
Noticed(d) ==
    LET now == disk[d.file].stamp
        seen == [d EXCEPT !.deleted = FALSE]
    IN  IF now = 0
        THEN IF d.stamp = 0 THEN d ELSE [d EXCEPT !.deleted = TRUE, !.pending = FALSE]
        ELSE IF d.stamp = 0 THEN [seen EXCEPT !.stamp = now]
        ELSE IF d.stamp = now THEN seen
        ELSE IF d.dirty THEN [seen EXCEPT !.stamp = now, !.pending = TRUE]
        ELSE FromDisk(d.file, Bump(d.rev))

(* A frame the file watcher reported something for.  A listed file that is *)
(* shown nowhere is compared with the disk too; of a shown one only the    *)
(* mark of deletion follows.                                               *)
Notice ==
    /\ Running
    /\ unseen # {}
    /\ LET now == Noticed(ed)
           reloaded == now.rev # ed.rev
           a == [App EXCEPT !.ed = now, !.intent = IF reloaded THEN "NONE" ELSE @]
           b == IF reloaded THEN StoreCurrent(SyncMatching(a)) ELSE a
           shown == {ed.file} \cup {panes[p].file : p \in Back(App)}
       IN  Becomes([b EXCEPT
               !.panes = [p \in PaneIds |-> IF p \in Back(b) THEN Noticed(b.panes[p])
                                            ELSE b.panes[p]],
               !.opened = [f \in Paths |->
                   IF b.opened[f] = NotOpen THEN NotOpen
                   ELSE IF f \in shown
                        THEN [b.opened[f] EXCEPT !.deleted =
                                  IF Exists(f) THEN FALSE
                                  ELSE @ \/ (\E d \in {ed} \cup {panes[p] : p \in Back(App)} :
                                                 d.file = f /\ d.stamp # 0)]
                   ELSE [Noticed(b.opened[f]) EXCEPT !.rev = 0]]])
    /\ unseen' = {}
    /\ UNCHANGED <<disk, clock>>

Next == \/ Edit \/ Undo \/ Redo \/ Save \/ SaveAndClose \/ CloseDeleted
        \/ Overwrite \/ Reload \/ Split \/ CloseSplit \/ RequestClose \/ ForceClose
        \/ RequestCloseApp \/ Discard \/ SaveThenClose \/ Notice
        \/ \E f \in Paths : \/ Open(f) \/ CloseTab(f) \/ SaveDeletedAs(f)
                            \/ LspEdit(f) \/ DiskWrite(f) \/ DiskDelete(f)
        \/ \E p \in PaneIds : FocusPane(p)
Spec == Init /\ [][Next]_vars

--------------------------------------------------------------------------------
Shown == {ed} \cup {panes[p] : p \in Back(App)}

(* Every document is well formed; only the focused pane lends its text. *)
TypeOK ==
    /\ ed \in Doc
    /\ focus \in PaneIds
    /\ \A p \in PaneIds : IF p = focus THEN panes[p] = Here
                          ELSE panes[p] = Shut \/ panes[p] \in Doc
    /\ \A f \in Paths : opened[f] = NotOpen \/ (opened[f] \in Doc /\ opened[f].file = f)
    /\ intent \in {"NONE", "BUFFER", "APP"}
    /\ clock \in Texts

(* Between frames the panes that show a file agree on its text, its        *)
(* history and its flags: sync_shared_panes, the loads, the saves and the  *)
(* watcher's reloads keep them so (editor_model.cpp 833-868).              *)
PanesAgree == \A d, e \in Shown : d.file = e.file => d = e

(* A document is marked unsaved exactly when its text is not what was      *)
(* saved or loaded: the popup, the close button and the reload rely on it. *)
DirtyIsTrue == \A d \in Shown \cup {opened[f] : f \in Listed(App)} :
                   d.dirty <=> d.text # d.saved

(* The listed copy of a file may be old, but never claims a newer state of *)
(* the disk than the pane that shows it (update_open_file_change skips     *)
(* files that are shown).                                                  *)
ListedNotAhead == \A f \in Listed(App), d \in Shown :
                      d.file = f => opened[f].stamp <= d.stamp \/ d.stamp = 0

(* Unsaved text that a pane shows goes only where the user said so: with   *)
(* the answer C, q!, the reload, the button of a deleted file - and with   *)
(* quit, and when a deleted file is saved under the path of a pane whose   *)
(* file is gone from the list.  Every other step leaves it in a pane, in   *)
(* the list, in a history or on the disk.                                  *)
Held(t) == \/ \E d \in Shown \cup {opened[f] : f \in Listed(App)} :
                  t = d.text \/ t \in Range(d.undo) \cup Range(d.redo)
           \/ \E f \in Paths : t = disk[f].text
UnsavedKept ==
    [][\/ \A t \in {d.text : d \in {e \in Shown : e.dirty}} : Held(t)'
       \/ Discard \/ ForceClose \/ Reload \/ CloseDeleted \/ CloseSplit
       \/ (\E f \in Paths : SaveDeletedAs(f) /\ opened[f] = NotOpen)]_vars
================================================================================
