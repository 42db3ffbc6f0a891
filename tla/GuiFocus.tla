-------------------------------- MODULE GuiFocus --------------------------------
(***************************************************************************)
(* Focus and mouse capture of the immediate-mode GUI (src/gui/src/gui.cpp). *)
(* begin_frame moves the focus for the Tab keys of the frame by the order   *)
(* of the frame before, the program appends its boxes one after the other,  *)
(* each with its signal, and end_frame moves the focus again from where it  *)
(* was when the order has turned out to be another.                         *)
(*                                                                          *)
(* Every box can take the focus and the mouse.  Fields are text boxes that  *)
(* are edited as soon as they have the focus (not edit_on_enter), Multiline *)
(* those that keep a Tab for themselves.  An input is at most one Tab key   *)
(* (BACK is one with shift), the mouse button and the box under the mouse;  *)
(* layout, scrolling, popups and other keys are left out.                   *)
(***************************************************************************)
EXTENDS Naturals, Sequences, SequencesExt

CONSTANTS Boxes, Fields, Multiline,
          None    \* no id

ASSUME FocusAssumption ==
    /\ Fields \subseteq Boxes /\ Multiline \subseteq Fields
    /\ None \notin Boxes

VARIABLES phase,      \* "idle", or "build" between begin_frame and end_frame
          focus,      \* focused_id
          visible,    \* focused_id_visible
          request,    \* focus_request_id
          order,      \* focus_order
          built,      \* the ids in boxes
          editing,    \* the fields with text_edit_active
          active,     \* active_id
          down        \* previous_input.mouse_down

(* What begin_frame sets anew and only this frame reads; end_frame is taken
   to forget it, the code leaves it behind. *)
VARIABLES input,      \* frame_desc.input, and hot_id
          start,      \* frame_start_focus_id and frame_start_focus_visible
          previous,   \* previous_focus_order
          predicted,  \* focus_keys_predicted
          cleared,    \* focus_cleared_this_frame
          touched,    \* history: something else than a key changed the focus
          clicked     \* history: the boxes that were clicked

(* History, for the properties. *)
VARIABLES pressed,  \* the box that was pressed since the button went down
          late      \* the box the keys of an end_frame left the focus on

lasting == <<request, order, built, editing, active, down>>
frame == <<input, start, previous, predicted, cleared, touched, clicked>>
vars == <<phase, focus, visible, lasting, frame, pressed, late>>

Keys == {"NONE", "TAB", "BACK"}
NoInput == [key |-> "NONE", down |-> FALSE, hot |-> None]
NoStart == [id |-> None, visible |-> FALSE]

Init ==
    /\ phase = "idle"
    /\ focus = None /\ visible = FALSE /\ request = None
    /\ order = <<>> /\ built = {} /\ editing = {}
    /\ active = None /\ down = FALSE
    /\ input = NoInput /\ start = NoStart /\ previous = <<>>
    /\ predicted = FALSE /\ cleared = FALSE /\ touched = FALSE /\ clicked = {}
    /\ pressed = None /\ late = None

-----------------------------------------------------------------------------
(* The Tab key *)
Position(ord, f) == CHOOSE i \in DOMAIN ord : ord[i] = f

\* move_focus: around the order, from an end of it when f is not there
MoveFocus(ord, f, key) ==
    LET at == IF f \in ToSet(ord) THEN Position(ord, f) ELSE 0
    IN IF key = "TAB" THEN ord[IF at = Len(ord) THEN 1 ELSE at + 1]
       ELSE ord[IF at \in {0, 1} THEN Len(ord) ELSE at - 1]

\* focused_box_captures_tab
Captures(f, key) == key = "TAB" /\ f \in built \cap Multiline \cap editing

\* process_focus_keys, and what it returns
Moves(f, key) == key # "NONE" /\ order # <<>> /\ ~Captures(f, key)
ProcessKeys(f, key) == IF Moves(f, key) THEN MoveFocus(order, f, key) ELSE f
Handled(f, key) == Moves(f, key) \/ Captures(f, key)

-----------------------------------------------------------------------------
Begin(in) ==
    /\ phase = "idle"
    /\ phase' = "build"
    /\ input' = in
    /\ start' = [id |-> focus, visible |-> visible]
    /\ previous' = order
    /\ predicted' = Handled(focus, in.key)
    /\ focus' = ProcessKeys(focus, in.key)
    /\ visible' = (visible \/ Moves(focus, in.key))
    /\ order' = <<>> /\ built' = {}
    /\ cleared' = FALSE
    /\ touched' = FALSE /\ clicked' = {}
    /\ pressed' = IF down THEN pressed ELSE None
    /\ UNCHANGED <<request, editing, active, down, late>>

\* add_focus_order of a disabled box; it has no signal
AppendDisabled(b) ==
    /\ phase = "build" /\ b \notin built
    /\ built' = built \cup {b}
    /\ focus' = IF focus = b THEN None ELSE focus
    /\ visible' = (visible /\ focus # b)
    /\ touched' = (touched \/ focus = b)
    /\ UNCHANGED <<phase, request, order, editing, active, down, input, start, previous,
                   predicted, cleared, clicked, pressed, late>>

\* the signal of a box (make_signal)
Pressed(b) == input.hot = b /\ input.down /\ ~down
Released(b) == down /\ ~input.down /\ active = b
BadGained(b, f) == f = b /\ (cleared \/ ~start.visible)
Gained(b, f) == f = b /\ (cleared \/ start.id # b \/ ~start.visible)
Lost(b, f) == f # b /\ start.visible /\ start.id = b

\* what a text field makes of it (apply_input_text_widget)
Edited(b, f) ==
    IF b \notin Fields THEN editing
    ELSE IF Gained(b, f) THEN editing \cup {b}
    ELSE IF Lost(b, f) THEN editing \ {b}
    ELSE editing

\* append_box of an enabled box, and its widget
AppendEnabled(b) ==
    /\ phase = "build" /\ b \notin built
    /\ built' = built \cup {b}
    /\ order' = Append(order, b)
    /\ LET takes == request = b \/ Pressed(b)
       IN /\ focus' = IF takes THEN b ELSE focus
          /\ visible' = (visible \/ takes)
          /\ touched' = (touched \/ takes)
    /\ request' = IF request = b THEN None ELSE request
    /\ editing' = Edited(b, focus')
    /\ active' = IF Pressed(b) THEN b ELSE IF Released(b) THEN None ELSE active
    /\ clicked' = IF Released(b) /\ input.hot = b THEN clicked \cup {b} ELSE clicked
    /\ pressed' = IF Pressed(b) THEN b ELSE pressed
    /\ UNCHANGED <<phase, down, input, start, previous, predicted, cleared, late>>

RequestFocus(b) ==
    /\ phase = "build" /\ request # b
    /\ request' = b
    /\ UNCHANGED <<phase, focus, visible, order, built, editing, active, down, frame, pressed,
                   late>>

ClearFocus ==
    /\ phase = "build"
    /\ focus' = None /\ visible' = FALSE /\ request' = None /\ cleared' = TRUE
    /\ touched' = TRUE
    /\ UNCHANGED <<phase, order, built, editing, active, down, input, start, previous,
                   predicted, clicked, pressed, late>>

\* end_frame processes the keys
BadAgain == input.key # "NONE" /\ ~predicted
Again == input.key # "NONE" /\ (~predicted \/ order # previous)

BadStillActive == active
StillActive == IF input.down THEN active ELSE None

End ==
    /\ phase = "build"
    /\ phase' = "idle"
    /\ focus' = IF Again THEN ProcessKeys(start.id, input.key) ELSE focus
    /\ visible' = (focus' \in built)
    /\ active' = StillActive
    /\ down' = input.down
    /\ late' = IF Again THEN focus' ELSE IF late = focus THEN late ELSE None
    /\ input' = NoInput /\ start' = NoStart /\ previous' = <<>>
    /\ predicted' = FALSE /\ cleared' = FALSE /\ touched' = FALSE /\ clicked' = {}
    /\ UNCHANGED <<request, order, built, editing, pressed>>

\* the box under the mouse is one of the last frame (compute_hot_id), and it matters when
\* the button goes down or up
Inputs ==
    {in \in [key : Keys, down : BOOLEAN, hot : ToSet(order) \cup {None}] :
        in.down = down => in.hot = None}

Next ==
    \/ \E in \in Inputs : Begin(in)
    \/ \E b \in Boxes : AppendDisabled(b) \/ AppendEnabled(b) \/ RequestFocus(b)
    \/ ClearFocus
    \/ End

Spec == Init /\ [][Next]_vars

-----------------------------------------------------------------------------
\* Type invariant.
TypeOK ==
    /\ phase \in {"idle", "build"}
    /\ focus \in Boxes \cup {None} /\ request \in Boxes \cup {None}
    /\ active \in Boxes \cup {None}
    /\ order \in Seq(Boxes) /\ previous \in Seq(Boxes) /\ built \subseteq Boxes
    /\ editing \subseteq Fields
    /\ input \in [key : Keys, down : BOOLEAN, hot : Boxes \cup {None}]
    /\ start \in [id : Boxes \cup {None}, visible : BOOLEAN]
    /\ visible \in BOOLEAN /\ down \in BOOLEAN
    /\ predicted \in BOOLEAN /\ cleared \in BOOLEAN /\ touched \in BOOLEAN
    /\ clicked \subseteq Boxes /\ pressed \in Boxes \cup {None} /\ late \in Boxes \cup {None}

\* The focus was on a box that was or is shown disabled.
OnDisabled == \/ start.visible /\ start.id \notin ToSet(previous)
              \/ start.id \in built \ ToSet(order)

\* A Tab moves the focus once, along the boxes that are shown (end_frame), however their
\* order has changed since the frame in which begin_frame moved it at first, unless the
\* program or the mouse moved it too.
TabMovesOnce ==
    [][End /\ input.key # "NONE" /\ ~touched /\ ~OnDisabled
         => focus' = ProcessKeys(start.id, input.key)]_vars

\* A click is the end of a press: the button went down on the box that is clicked and has
\* been down since (make_signal), whether or not the box was shown all the time.
ClickNeedsPress == clicked \subseteq {pressed}

\* A field that has the focus takes text (apply_input_text_widget), unless the keys of an
\* end_frame left the focus on it: then no frame tells it that the focus was gained.
FocusedFieldTakesText ==
    phase = "build" /\ focus \in built \cap Fields /\ focus # late => focus \in editing
================================================================================
