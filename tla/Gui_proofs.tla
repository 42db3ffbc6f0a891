------------------------------ MODULE Gui_proofs ------------------------------
(***************************************************************************)
(* Theorems about the focus and the hot reload of the gui, which share      *)
(* nothing.                                                                 *)
(*                                                                         *)
(* GuiFocus, for any boxes: its types, that a click is the end of a press,  *)
(* that a focused field takes text, and that a Tab moves the focus once     *)
(* though it is handled in two places of a frame.                           *)
(*                                                                         *)
(* HotReload, for any set of sources, any number of edits and any size of   *)
(* the pipes: its safety.  The invariant ReloadInv joins the properties     *)
(* with what makes them inductive: ProcessIsTracked, BuiltIsLinked,         *)
(* LateEditIsNoticed.  One lemma per action.                                *)
(***************************************************************************)
EXTENDS GuiFocus, MCHotReload, TLAPS

-----------------------------------------------------------------------------
(* Types *)

\* move_focus goes to a box of the order.
LEMMA MoveFocusType ==
    ASSUME NEW S, NEW ord \in Seq(S), ord # <<>>, NEW f, NEW key
    PROVE  MoveFocus(ord, f, key) \in S
<1> DEFINE at == IF f \in ToSet(ord) THEN Position(ord, f) ELSE 0
<1>1. Len(ord) \in Nat \ {0} /\ DOMAIN ord = 1..Len(ord)
  OBVIOUS
<1>2. at \in 0..Len(ord)
  <2>1. CASE f \in ToSet(ord)
    <3>1. PICK i \in DOMAIN ord : ord[i] = f
      BY <2>1 DEF ToSet
    <3>2. Position(ord, f) \in DOMAIN ord
      BY <3>1 DEF Position
    <3> QED BY <1>1, <2>1, <3>2
  <2>2. CASE f \notin ToSet(ord)
    BY <1>1, <2>2
  <2> QED BY <2>1, <2>2
<1>3. (IF at = Len(ord) THEN 1 ELSE at + 1) \in 1..Len(ord)
  BY <1>1, <1>2
<1>4. (IF at \in {0, 1} THEN Len(ord) ELSE at - 1) \in 1..Len(ord)
  BY <1>1, <1>2
<1>5. \A i \in 1..Len(ord) : ord[i] \in S
  OBVIOUS
<1> HIDE DEF at
<1>6. MoveFocus(ord, f, key) =
        IF key = "TAB" THEN ord[IF at = Len(ord) THEN 1 ELSE at + 1]
        ELSE ord[IF at \in {0, 1} THEN Len(ord) ELSE at - 1]
  BY DEF MoveFocus, at
<1> QED BY <1>3, <1>4, <1>5, <1>6

LEMMA ProcessKeysType ==
    ASSUME TypeOK, NEW f \in Boxes \cup {None}, NEW key
    PROVE  ProcessKeys(f, key) \in Boxes \cup {None}
BY MoveFocusType DEF ProcessKeys, Moves, TypeOK

LEMMA TypeInit == Init => TypeOK
<1> SUFFICES ASSUME Init
             PROVE  TypeOK
  OBVIOUS
<1>1. order = <<>> /\ previous = <<>> /\ built = {} /\ clicked = {} /\ editing = {}
  BY DEF Init
<1>2. order \in Seq(Boxes) /\ previous \in Seq(Boxes)
  BY <1>1
<1>3. input \in [key : Keys, down : BOOLEAN, hot : Boxes \cup {None}]
  BY DEF Init, NoInput, Keys
<1>4. start \in [id : Boxes \cup {None}, visible : BOOLEAN]
  BY DEF Init, NoStart
<1>5. /\ visible \in BOOLEAN /\ down \in BOOLEAN /\ predicted \in BOOLEAN
      /\ cleared \in BOOLEAN /\ touched \in BOOLEAN
  BY DEF Init
<1>6. /\ phase \in {"idle", "build"}
      /\ focus \in Boxes \cup {None} /\ request \in Boxes \cup {None}
      /\ active \in Boxes \cup {None} /\ pressed \in Boxes \cup {None}
      /\ late \in Boxes \cup {None}
  BY DEF Init
<1> QED BY <1>1, <1>2, <1>3, <1>4, <1>5, <1>6 DEF TypeOK

LEMMA TypeStep == TypeOK /\ [Next]_vars => TypeOK'
<1> SUFFICES ASSUME TypeOK, [Next]_vars
             PROVE  TypeOK'
  OBVIOUS
<1> USE FocusAssumption
<1>1. ASSUME NEW in \in Inputs, Begin(in)
      PROVE  TypeOK'
  <2>1. in \in [key : Keys, down : BOOLEAN, hot : Boxes \cup {None}]
    <3>1. ToSet(order) \subseteq Boxes
      BY DEF TypeOK, ToSet
    <3> QED BY <1>1, <3>1 DEF Inputs
  <2>2. focus' \in Boxes \cup {None}
    BY <1>1, ProcessKeysType DEF Begin, TypeOK
  <2>3. visible' \in BOOLEAN /\ predicted' \in BOOLEAN
    BY <1>1 DEF Begin, TypeOK, Handled, Moves, Captures
  <2>4. start' \in [id : Boxes \cup {None}, visible : BOOLEAN]
    BY <1>1 DEF Begin, TypeOK
  <2>5. order' \in Seq(Boxes) /\ previous' \in Seq(Boxes)
    BY <1>1 DEF Begin, TypeOK
  <2>6. /\ pressed' \in Boxes \cup {None} /\ late' \in Boxes \cup {None}
        /\ clicked' \subseteq Boxes /\ built' \subseteq Boxes
        /\ cleared' \in BOOLEAN /\ touched' \in BOOLEAN
        /\ phase' \in {"idle", "build"} /\ input' = in
    BY <1>1 DEF Begin, TypeOK
  <2>7. UNCHANGED <<request, editing, active, down>>
    BY <1>1 DEF Begin
  <2> QED BY <2>1, <2>2, <2>3, <2>4, <2>5, <2>6, <2>7 DEF TypeOK
<1>2. ASSUME NEW b \in Boxes, AppendDisabled(b)
      PROVE  TypeOK'
  BY <1>2 DEF AppendDisabled, TypeOK
<1>3. ASSUME NEW b \in Boxes, AppendEnabled(b)
      PROVE  TypeOK'
  <2>1. order' \in Seq(Boxes)
    BY <1>3 DEF AppendEnabled, TypeOK
  <2>2. editing' \subseteq Fields
    BY <1>3 DEF AppendEnabled, TypeOK, Edited
  <2>3. visible' \in BOOLEAN /\ touched' \in BOOLEAN
    BY <1>3 DEF AppendEnabled, TypeOK, Pressed
  <2>4. clicked' \subseteq Boxes /\ active' \in Boxes \cup {None} /\ focus' \in Boxes \cup {None}
    BY <1>3 DEF AppendEnabled, TypeOK
  <2> QED BY <1>3, <2>1, <2>2, <2>3, <2>4 DEF AppendEnabled, TypeOK
<1>4. ASSUME NEW b \in Boxes, RequestFocus(b)
      PROVE  TypeOK'
  BY <1>4 DEF RequestFocus, TypeOK, frame
<1>5. CASE ClearFocus
  BY <1>5 DEF ClearFocus, TypeOK
<1>6. CASE End
  <2>1. focus' \in Boxes \cup {None}
    BY <1>6, ProcessKeysType DEF End, TypeOK
  <2>2. visible' \in BOOLEAN
    BY <1>6 DEF End, TypeOK
  <2>3. active' \in Boxes \cup {None} /\ down' \in BOOLEAN
    BY <1>6 DEF End, TypeOK, StillActive
  <2>4. input' \in [key : Keys, down : BOOLEAN, hot : Boxes \cup {None}]
    BY <1>6 DEF End, NoInput, Keys
  <2>5. start' \in [id : Boxes \cup {None}, visible : BOOLEAN]
    BY <1>6 DEF End, NoStart
  <2>6. late' \in Boxes \cup {None}
    BY <1>6, <2>1 DEF End, TypeOK
  <2>7. UNCHANGED <<request, order, built, editing, pressed>>
    BY <1>6 DEF End
  <2>8. /\ previous' \in Seq(Boxes) /\ clicked' \subseteq Boxes /\ phase' \in {"idle", "build"}
        /\ predicted' \in BOOLEAN /\ cleared' \in BOOLEAN /\ touched' \in BOOLEAN
    <3>1. previous' = <<>> /\ clicked' = {} /\ phase' = "idle"
      BY <1>6 DEF End
    <3>2. predicted' = FALSE /\ cleared' = FALSE /\ touched' = FALSE
      BY <1>6 DEF End
    <3>3. previous' \in Seq(Boxes) /\ clicked' \subseteq Boxes /\ phase' \in {"idle", "build"}
      BY <3>1
    <3>4. predicted' \in BOOLEAN /\ cleared' \in BOOLEAN /\ touched' \in BOOLEAN
      BY <3>2
    <3> QED BY <3>3, <3>4
  <2> QED BY <2>1, <2>2, <2>3, <2>4, <2>5, <2>6, <2>7, <2>8 DEF TypeOK
<1>7. CASE UNCHANGED vars
  BY <1>7 DEF vars, lasting, frame, TypeOK
<1> QED BY <1>1, <1>2, <1>3, <1>4, <1>5, <1>6, <1>7 DEF Next

\* The variables keep their types, for any boxes.
THEOREM TypeCorrect == Spec => []TypeOK
BY TypeInit, TypeStep, PTL DEF Spec

-----------------------------------------------------------------------------
(* Clicks *)

\* What is active was pressed last, and nothing is active or clicked while the
\* button was up.
ClickInv ==
    /\ active # None => active = pressed
    /\ phase = "idle" /\ active # None => down
    /\ clicked # {} => down
    /\ ClickNeedsPress

LEMMA ClickInit == Init => ClickInv
BY DEF Init, ClickInv, ClickNeedsPress

LEMMA ClickStep == TypeOK /\ ClickInv /\ [Next]_vars => ClickInv'
<1> SUFFICES ASSUME TypeOK, ClickInv, [Next]_vars
             PROVE  ClickInv'
  OBVIOUS
<1> USE DEF ClickInv, ClickNeedsPress
<1>1. ASSUME NEW in \in Inputs, Begin(in)
      PROVE  ClickInv'
  BY <1>1 DEF Begin
<1>2. ASSUME NEW b \in Boxes, AppendDisabled(b)
      PROVE  ClickInv'
  BY <1>2 DEF AppendDisabled
<1>3. ASSUME NEW b \in Boxes, AppendEnabled(b)
      PROVE  ClickInv'
  <2>1. CASE Pressed(b)
    <3>1. ~down /\ clicked = {} /\ ~Released(b)
      BY <2>1 DEF Pressed, Released
    <3> QED BY <1>3, <2>1, <3>1 DEF AppendEnabled
  <2>2. CASE ~Pressed(b) /\ Released(b)
    <3>1. pressed = b /\ down
      BY <2>2, FocusAssumption DEF Released
    <3> QED BY <1>3, <2>2, <3>1 DEF AppendEnabled
  <2>3. CASE ~Pressed(b) /\ ~Released(b)
    BY <1>3, <2>3 DEF AppendEnabled
  <2> QED BY <2>1, <2>2, <2>3
<1>4. ASSUME NEW b \in Boxes, RequestFocus(b)
      PROVE  ClickInv'
  BY <1>4 DEF RequestFocus, frame
<1>5. CASE ClearFocus
  BY <1>5 DEF ClearFocus
<1>6. CASE End
  BY <1>6 DEF End, StillActive, TypeOK
<1>7. CASE UNCHANGED vars
  BY <1>7 DEF vars, lasting, frame
<1> QED BY <1>1, <1>2, <1>3, <1>4, <1>5, <1>6, <1>7 DEF Next

\* A click is the end of a press on the same box, for any boxes and any frames.
THEOREM ClicksNeedPresses == Spec => []ClickNeedsPress
<1>1. Init => TypeOK /\ ClickInv
  BY TypeInit, ClickInit
<1>2. TypeOK /\ ClickInv /\ [Next]_vars => (TypeOK /\ ClickInv)'
  BY TypeStep, ClickStep
<1>3. ClickInv => ClickNeedsPress
  BY DEF ClickInv
<1> QED BY <1>1, <1>2, <1>3, PTL DEF Spec

-----------------------------------------------------------------------------
(* Fields *)

\* A field takes text from the frame in which it gained the focus; until it is built
\* again it is known to have had the focus at the start of the frame.
FieldInv ==
    /\ FocusedFieldTakesText
    /\ phase = "idle" => visible = (focus \in built)
    /\ phase = "idle" /\ visible /\ focus \in Fields /\ focus # late => focus \in editing
    /\ phase = "build" /\ start.visible /\ start.id \in Fields \ built /\ start.id # late
         => start.id \in editing

LEMMA FieldInit == Init => FieldInv
<1> SUFFICES ASSUME Init
             PROVE  FieldInv
  OBVIOUS
<1>1. phase # "build" /\ built = {} /\ ~visible /\ visible = FALSE
  BY DEF Init
<1>2. visible = (focus \in built)
  <2>1. visible \in BOOLEAN /\ ~visible /\ focus \notin built
    BY <1>1
  <2> QED BY <2>1
<1>3. FocusedFieldTakesText
  BY <1>1 DEF FocusedFieldTakesText
<1> QED BY <1>1, <1>2, <1>3 DEF FieldInv

LEMMA FieldStep == TypeOK /\ FieldInv /\ [Next]_vars => FieldInv'
<1> SUFFICES ASSUME TypeOK, FieldInv, [Next]_vars
             PROVE  FieldInv'
  OBVIOUS
<1> USE FocusAssumption DEF FieldInv, FocusedFieldTakesText
<1>1. ASSUME NEW in \in Inputs, Begin(in)
      PROVE  FieldInv'
  BY <1>1 DEF Begin
<1>2. ASSUME NEW b \in Boxes, AppendDisabled(b)
      PROVE  FieldInv'
  BY <1>2 DEF AppendDisabled
<1>3. ASSUME NEW b \in Boxes, AppendEnabled(b)
      PROVE  FieldInv'
  <2>1. editing \ {b} \subseteq editing' /\ (focus' = focus \/ focus' = b)
    BY <1>3 DEF AppendEnabled, Edited
  <2>2. focus' = b /\ b \in Fields /\ b # late => b \in editing'
    BY <1>3 DEF AppendEnabled, Edited, Gained, Lost
  <2> QED BY <1>3, <2>1, <2>2 DEF AppendEnabled
<1>4. ASSUME NEW b \in Boxes, RequestFocus(b)
      PROVE  FieldInv'
  BY <1>4 DEF RequestFocus, frame
<1>5. CASE ClearFocus
  BY <1>5 DEF ClearFocus
<1>6. CASE End
  BY <1>6 DEF End
<1>7. CASE UNCHANGED vars
  BY <1>7 DEF vars, lasting, frame
<1> QED BY <1>1, <1>2, <1>3, <1>4, <1>5, <1>6, <1>7 DEF Next

\* A focused field takes text, unless end_frame put the focus on it, for any boxes.
THEOREM FocusedFieldsTakeText == Spec => []FocusedFieldTakesText
<1>1. Init => TypeOK /\ FieldInv
  BY TypeInit, FieldInit
<1>2. TypeOK /\ FieldInv /\ [Next]_vars => (TypeOK /\ FieldInv)'
  BY TypeStep, FieldStep
<1>3. FieldInv => FocusedFieldTakesText
  BY DEF FieldInv
<1> QED BY <1>1, <1>2, <1>3, PTL DEF Spec

-----------------------------------------------------------------------------
(* The Tab key *)

\* What the focus is after begin_frame has captured the Tab, or has moved the focus.
WasCaptured ==
    /\ focus = start.id /\ start.visible
    /\ input.key = "TAB" /\ start.id \in Multiline \cap editing
WasMoved ==
    /\ focus = MoveFocus(previous, start.id, input.key) /\ previous # <<>>
    /\ input.key = "TAB" /\ start.id \in ToSet(previous) \cap Multiline
         => start.visible /\ start.id \notin editing

TabInv ==
    /\ ToSet(order) \subseteq built
    /\ phase = "idle" => visible = (focus \in built)
    /\ phase = "build" /\ cleared => touched
    /\ phase = "build" /\ predicted /\ ~touched => WasCaptured \/ WasMoved

LEMMA TabInit == Init => TabInv
<1> SUFFICES ASSUME Init
             PROVE  TabInv
  OBVIOUS
<1>1. phase # "build" /\ built = {} /\ visible = FALSE /\ order = <<>>
  BY DEF Init
<1>2. ToSet(order) = {}
  BY <1>1 DEF ToSet
<1>3. visible = (focus \in built)
  <2>1. visible \in BOOLEAN /\ ~visible /\ focus \notin built
    BY <1>1
  <2> QED BY <2>1
<1> QED BY <1>1, <1>2, <1>3 DEF TabInv

LEMMA TabStep == TypeOK /\ TabInv /\ [Next]_vars => TabInv'
<1> SUFFICES ASSUME TypeOK, TabInv, [Next]_vars
             PROVE  TabInv'
  OBVIOUS
<1> USE FocusAssumption DEF TabInv
<1>1. ASSUME NEW in \in Inputs, Begin(in)
      PROVE  TabInv'
  <2>1. ToSet(order') = {}
    BY <1>1 DEF Begin, ToSet
  <2>2. CASE Captures(focus, in.key)
    <3>1. WasCaptured'
      BY <1>1, <2>2 DEF Begin, ProcessKeys, Moves, Captures, WasCaptured
    <3> QED BY <1>1, <2>1, <3>1 DEF Begin
  <2>3. CASE Moves(focus, in.key)
    <3>1. focus' = MoveFocus(previous', start'.id, input'.key) /\ previous' # <<>>
      BY <1>1, <2>3 DEF Begin, ProcessKeys, Moves
    <3>2. in.key = "TAB" /\ focus \in ToSet(order) \cap Multiline
            => visible /\ focus \notin editing
      BY <1>1, <2>3 DEF Begin, Moves, Captures
    <3>3. WasMoved'
      BY <1>1, <3>1, <3>2 DEF Begin, WasMoved
    <3> QED BY <1>1, <2>1, <3>3 DEF Begin
  <2>4. CASE ~Captures(focus, in.key) /\ ~Moves(focus, in.key)
    BY <1>1, <2>1, <2>4 DEF Begin, Handled
  <2> QED BY <2>2, <2>3, <2>4
<1>2. ASSUME NEW b \in Boxes, AppendDisabled(b)
      PROVE  TabInv'
  <2>1. ~touched' => focus' = focus
    BY <1>2 DEF AppendDisabled
  <2>2. ~touched' /\ WasCaptured => WasCaptured'
    BY <1>2, <2>1 DEF AppendDisabled, WasCaptured
  <2>3. ~touched' /\ WasMoved => WasMoved'
    BY <1>2, <2>1 DEF AppendDisabled, WasMoved
  <2> QED BY <1>2, <2>1, <2>2, <2>3 DEF AppendDisabled
<1>3. ASSUME NEW b \in Boxes, AppendEnabled(b)
      PROVE  TabInv'
  <2>1. ToSet(order') \subseteq built'
    BY <1>3 DEF AppendEnabled, ToSet, TypeOK
  <2>2. ~touched' => focus' = focus /\ ~touched /\ ~cleared
    BY <1>3 DEF AppendEnabled
  <2>3. editing' = Edited(b, focus') /\ UNCHANGED <<phase, input, start, previous, predicted, cleared>>
    BY <1>3 DEF AppendEnabled
  <2>4. ~touched' /\ WasCaptured => WasCaptured'
    BY <2>2, <2>3 DEF WasCaptured, Edited, Lost
  <2>5. ~touched' /\ WasMoved => WasMoved'
    BY <2>2, <2>3 DEF WasMoved, Edited, Gained
  <2> QED BY <1>3, <2>1, <2>2, <2>3, <2>4, <2>5 DEF AppendEnabled
<1>4. ASSUME NEW b \in Boxes, RequestFocus(b)
      PROVE  TabInv'
  BY <1>4 DEF RequestFocus, frame, WasCaptured, WasMoved
<1>5. CASE ClearFocus
  BY <1>5 DEF ClearFocus
<1>6. CASE End
  BY <1>6 DEF End
<1>7. CASE UNCHANGED vars
  BY <1>7 DEF vars, lasting, frame, WasCaptured, WasMoved
<1> QED BY <1>1, <1>2, <1>3, <1>4, <1>5, <1>6, <1>7 DEF Next

\* When the order is that of the frame before, what begin_frame did is what end_frame
\* would do.
LEMMA PredictionIsRight ==
    ASSUME TypeOK, TabInv, phase = "build", predicted, ~touched, ~OnDisabled,
           order = previous, input.key # "NONE"
    PROVE  focus = ProcessKeys(start.id, input.key)
<1>1. CASE WasCaptured
  <2>1. start.id \in built
    BY <1>1 DEF WasCaptured, OnDisabled, TabInv
  <2>2. Captures(start.id, input.key)
    BY <1>1, <2>1 DEF WasCaptured, Captures
  <2> QED BY <1>1, <2>2 DEF WasCaptured, ProcessKeys, Moves
<1>2. CASE WasMoved
  <2>1. ~Captures(start.id, input.key)
    BY <1>2 DEF WasMoved, Captures, OnDisabled
  <2>2. Moves(start.id, input.key)
    BY <1>2, <2>1 DEF WasMoved, Moves
  <2> QED BY <1>2, <2>2 DEF WasMoved, ProcessKeys
<1> QED BY <1>1, <1>2 DEF TabInv

\* A Tab moves the focus once, by the order that is shown, for any boxes and orders.
THEOREM TabsMoveOnce == Spec => TabMovesOnce
<1>1. Init => TypeOK /\ TabInv
  BY TypeInit, TabInit
<1>2. TypeOK /\ TabInv /\ [Next]_vars => (TypeOK /\ TabInv)'
  BY TypeStep, TabStep
<1>3. TypeOK /\ TabInv /\ [Next]_vars =>
        [End /\ input.key # "NONE" /\ ~touched /\ ~OnDisabled
           => focus' = ProcessKeys(start.id, input.key)]_vars
  <2> SUFFICES ASSUME TypeOK, TabInv, End, input.key # "NONE", ~touched, ~OnDisabled
               PROVE  focus' = ProcessKeys(start.id, input.key)
    OBVIOUS
  <2>1. CASE Again
    BY <2>1 DEF End
  <2>2. CASE ~Again
    BY <2>2, PredictionIsRight DEF End, Again
  <2> QED BY <2>1, <2>2
<1> QED BY <1>1, <1>2, <1>3, PTL DEF Spec, TabMovesOnce

-----------------------------------------------------------------------------
(* Hot reload *)

ReloadInv ==
  /\ Reload!TypeOK /\ Reload!RuntimeIsAlive /\ Reload!ProcessIsTracked /\ Reload!BuiltIsLinked
  /\ Reload!LateEditIsNoticed /\ Reload!NoEditIsForgotten

\* The records the model writes have the fields TypeOK says.
Processes == [at: {"none", "working", "built", "broken"},
              read: [Files -> Nat \cup {Reload!Unread}], output: 0..PipeSize]

-----------------------------------------------------------------------------
(* Effects of the helpers *)

\* A new process has read nothing, and no process has read anything.
LEMMA FreshProcesses ==
  ASSUME NEW at \in {"none", "working"}
  PROVE  LET p == [at |-> at, read |-> Reload!NothingRead, output |-> 0]
         IN  p \in Processes /\ \A f \in Files : p.read[f] = Reload!Unread
BY ReloadAssumption DEF Processes, Reload!NothingRead, Reload!Unread

\* activate_module leaves the module file loaded, alone, with its runtime in
\* the storage that is active.
LEMMA ActivateEffect ==
  ASSUME Reload!TypeOK, Reload!RuntimeIsAlive, Reload!Activate
  PROVE  /\ module' \in [time: Nat, files: Reload!Versions]
         /\ valid' = TRUE /\ activeStorage' \in {0, 1}
         /\ storage' \in [{0, 1} -> Nat] /\ copies' \subseteq Nat
         /\ module'.files = dll.files
         /\ copies' = {module'.time}
         /\ \A s \in {0, 1} : storage'[s] = IF s = activeStorage' THEN module'.time ELSE 0
<1>1. /\ module' = [time |-> dll.time, files |-> dll.files]
      /\ dll.time \in Nat /\ dll.files \in Reload!Versions
  BY DEF Reload!TypeOK, Reload!Activate
<1>2. copies' = {dll.time}
  BY DEF Reload!TypeOK, Reload!Activate, Reload!RuntimeIsAlive
<1>3. /\ activeStorage' = 1 - activeStorage /\ activeStorage \in {0, 1}
      /\ 1 - activeStorage \in {0, 1} /\ activeStorage # 1 - activeStorage
  BY DEF Reload!TypeOK, Reload!Activate
<1>4. /\ storage' \in [{0, 1} -> Nat]
      /\ \A s \in {0, 1} : storage'[s] = IF s = 1 - activeStorage THEN dll.time ELSE 0
  <2>1. storage \in [{0, 1} -> Nat] /\ valid \in BOOLEAN
    BY DEF Reload!TypeOK
  <2>2. storage' = [storage EXCEPT ![1 - activeStorage] = dll.time,
                                   ![activeStorage] = IF valid THEN 0 ELSE @]
    BY DEF Reload!Activate
  <2>3. ~valid => storage[activeStorage] = 0
    BY <1>3 DEF Reload!RuntimeIsAlive
  <2>. QED
    BY <1>1, <1>3, <2>1, <2>2, <2>3
<1>. QED
  BY <1>1, <1>2, <1>3, <1>4 DEF Reload!Activate

\* What does not touch the module keeps the runtime.
LEMMA RuntimeFrame ==
  ASSUME Reload!RuntimeIsAlive, UNCHANGED Reload!moduleVars, Reload!InLoop' => Reload!InLoop
  PROVE  Reload!RuntimeIsAlive'
BY DEF Reload!RuntimeIsAlive, Reload!moduleVars

\* start_rebuild, called with no build running, from a state in which the
\* watched times were just refreshed.
LEMMA StartEffect ==
  ASSUME Reload!StartRebuild
  PROVE  /\ running' = TRUE /\ requested' = FALSE /\ rebuild' = "compiling"
         /\ process' \in Processes /\ process'.at = "working"
         /\ \A f \in Files : process'.read[f] = Reload!Unread
         /\ missed' = {}
BY FreshProcesses DEF Reload!StartRebuild

\* A build that ended is forgotten.
LEMMA CloseEffect ==
  ASSUME Reload!CloseProcess
  PROVE  /\ running' = FALSE /\ process' \in Processes /\ process'.at = "none"
BY FreshProcesses DEF Reload!CloseProcess, Reload!NoProcess

\* After finish_rebuild with exit code 0 a file that is not in missed was
\* read as it is, unless another build was asked for.
LEMMA FinishedReadsAll ==
  ASSUME Reload!TypeOK, Reload!LateEditIsNoticed, Reload!BuildFinished, running, ~requested,
         UNCHANGED disk, NEW f \in Files, f \notin missed',
         process.read[f] # Reload!Unread
  PROVE  process.read[f] = disk[f]
BY DEF Reload!LateEditIsNoticed, Reload!BuildFinished, Reload!Differs

-----------------------------------------------------------------------------
(* Each action keeps ReloadInv *)

LEMMA ReloadInitInv == Reload!Init => ReloadInv
<1>. SUFFICES ASSUME Reload!Init PROVE ReloadInv
  OBVIOUS
<1>1. Reload!NoProcess \in Processes /\ Reload!NoProcess.at = "none"
  BY FreshProcesses DEF Reload!NoProcess
<1>2. Reload!NoContents \in Reload!Versions /\ [f \in Files |-> 1] \in Reload!Versions
  BY DEF Reload!NoContents, Reload!Versions
<1>3. dll \in [exists: BOOLEAN, time: Nat, files: Reload!Versions]
  BY DEF Reload!Init, Reload!Versions
<1>4. Reload!TypeOK
  BY <1>1, <1>2, <1>3 DEF Reload!Init, Reload!TypeOK, Reload!NoModule, Processes
<1>5. Reload!RuntimeIsAlive /\ Reload!ProcessIsTracked /\ Reload!BuiltIsLinked /\
      Reload!NoEditIsForgotten
  BY <1>1 DEF Reload!Init, Reload!RuntimeIsAlive, Reload!ProcessIsTracked,
    Reload!BuiltIsLinked, Reload!NoEditIsForgotten, Reload!InLoop
<1>6. Reload!LateEditIsNoticed
  <2>1. ~running /\ \A f \in Files : seen[f] = 0 /\ disk[f] = 1
    BY DEF Reload!Init, Reload!NoContents
  <2>2. \A f \in Files : seen[f] <= disk[f]
    <3>1. 0 <= 1
      OBVIOUS
    <3>. QED
      BY <2>1, <3>1, Zenon
  <2>. QED
    BY <2>1, <2>2, Zenon DEF Reload!LateEditIsNoticed
<1>. QED
  BY <1>4, <1>5, <1>6 DEF ReloadInv

\* load_hot_reload_module with a module file that loads.
LEMMA LoadExistingInv == ReloadInv /\ Reload!LoadExisting => ReloadInv'
<1>. SUFFICES ASSUME ReloadInv, Reload!LoadExisting PROVE ReloadInv'
  OBVIOUS
<1>. USE DEF ReloadInv
<1>1. /\ Reload!Activate /\ seen' = disk /\ host' = "frame"
      /\ missed' = Reload!Differs(dll.files, disk)
      /\ UNCHANGED <<disk, running, requested, rebuild, process, dll>>
  BY DEF Reload!LoadExisting, Reload!rebuildVars
<1>2. ~running
  BY DEF Reload!LoadExisting, Reload!ProcessIsTracked
<1>3. Reload!TypeOK'
  BY <1>1, ActivateEffect DEF Reload!TypeOK, Reload!Differs
<1>4. Reload!RuntimeIsAlive'
  BY <1>1, ActivateEffect DEF Reload!RuntimeIsAlive
<1>5. Reload!ProcessIsTracked' /\ Reload!BuiltIsLinked'
  BY <1>1 DEF Reload!ProcessIsTracked, Reload!BuiltIsLinked
<1>6. Reload!LateEditIsNoticed'
  BY <1>1, <1>2 DEF Reload!LateEditIsNoticed, Reload!TypeOK, Reload!Versions
<1>7. Reload!NoEditIsForgotten'
  BY <1>1, ActivateEffect DEF Reload!NoEditIsForgotten, Reload!Differs
<1>. QED
  BY <1>3, <1>4, <1>5, <1>6, <1>7

\* load_hot_reload_module that has to build first, or cannot.
LEMMA LoadBuildsInv == ReloadInv /\ Reload!LoadBuilds => ReloadInv'
<1>. SUFFICES ASSUME ReloadInv, Reload!LoadBuilds PROVE ReloadInv'
  OBVIOUS
<1>. USE DEF ReloadInv
<1>1. /\ seen' = disk /\ ~Reload!InLoop' /\ ~running /\ ~valid
      /\ UNCHANGED <<disk, dll, Reload!moduleVars>>
  BY DEF Reload!LoadBuilds, Reload!Refuse, Reload!ProcessIsTracked, Reload!InLoop
<1>2. Reload!LateEditIsNoticed' /\ Reload!TypeOK' /\ Reload!ProcessIsTracked' /\
      Reload!BuiltIsLinked'
  <2>1. CASE Reload!StartRebuild /\ host' = "loading"
    BY <1>1, <2>1, StartEffect
       DEF Reload!TypeOK, Reload!moduleVars, Processes, Reload!LateEditIsNoticed,
         Reload!ProcessIsTracked, Reload!BuiltIsLinked, Reload!Versions
  <2>2. CASE Reload!StartRebuildFails /\ host' = "stopped"
    BY <1>1, <2>2
       DEF Reload!StartRebuildFails, Reload!TypeOK, Reload!moduleVars,
         Reload!LateEditIsNoticed, Reload!ProcessIsTracked, Reload!BuiltIsLinked, Reload!Versions
  <2>. QED
    BY <2>1, <2>2 DEF Reload!LoadBuilds
<1>3. Reload!RuntimeIsAlive' /\ Reload!NoEditIsForgotten'
  BY <1>1, RuntimeFrame DEF Reload!NoEditIsForgotten
<1>. QED
  BY <1>2, <1>3

\* Reading the output of a build changes nothing else.
LEMMA DrainInv ==
  ASSUME ReloadInv, Reload!Drain, host' \in {host, "polling"},
         host' = "polling" => host \in {"frame", "polling"},
         UNCHANGED <<disk, Reload!watchVars, Reload!rebuildVars, dll, Reload!moduleVars>>
  PROVE  ReloadInv'
<1>. USE DEF ReloadInv
<1>1. /\ UNCHANGED <<disk, seen, missed, running, requested, rebuild, dll, module, valid,
                     activeStorage, storage, copies>>
      /\ process' \in Processes /\ process'.at = process.at /\ process'.read = process.read
  BY ReloadAssumption DEF Reload!Drain, Reload!watchVars, Reload!rebuildVars,
    Reload!moduleVars, Reload!TypeOK, Processes
<1>2. Reload!TypeOK'
  BY <1>1 DEF Reload!TypeOK, Processes
<1>3. Reload!RuntimeIsAlive'
  BY RuntimeFrame DEF Reload!InLoop
<1>4. Reload!ProcessIsTracked' /\ Reload!BuiltIsLinked' /\ Reload!LateEditIsNoticed'
  BY <1>1 DEF Reload!ProcessIsTracked, Reload!BuiltIsLinked, Reload!LateEditIsNoticed
<1>5. Reload!NoEditIsForgotten'
  BY <1>1 DEF Reload!NoEditIsForgotten, Reload!WillBeBuilt, Reload!InLoop
<1>. QED
  BY <1>2, <1>3, <1>4, <1>5

\* finish_rebuild with a module that loads: it is current, but for missed.
LEMMA ReloadedIsCurrent ==
  ASSUME ReloadInv, running, process.at = "built", Reload!BuildFinished, Reload!Activate,
    UNCHANGED disk,
         NEW f \in Files
  PROVE  module'.files[f] = disk[f] \/ requested \/ f \in missed'
<1>1. dll.files = process.read /\ dll.files \in Reload!Versions
  BY DEF ReloadInv, Reload!BuiltIsLinked, Reload!TypeOK
<1>2. process.read[f] # Reload!Unread
  BY <1>1 DEF Reload!Versions, Reload!Unread
<1>3. module'.files = process.read
  BY <1>1, ActivateEffect DEF ReloadInv
<1>. QED
  BY <1>2, <1>3, FinishedReadsAll DEF ReloadInv

\* A build that ended, from either place: the variables of the rebuild.
LEMMA FinishedInv ==
  ASSUME ReloadInv, running, Reload!CloseProcess, UNCHANGED <<disk, dll, requested>>,
         Reload!BuildFailed \/ (Reload!BuildFinished /\ rebuild' \in {"complete", "failed"})
  PROVE  /\ Reload!LateEditIsNoticed' /\ Reload!BuiltIsLinked'
         /\ seen' \in Reload!Versions /\ missed' \subseteq Files /\ running' = FALSE
         /\ rebuild' \in {"complete", "failed"} /\ process' \in Processes /\ process'.at = "none"
<1>1. running' = FALSE /\ process' \in Processes /\ process'.at = "none"
  BY CloseEffect
<1>2. Reload!BuiltIsLinked'
  BY <1>1 DEF Reload!BuiltIsLinked
<1>3. seen' \in Reload!Versions /\ missed' \subseteq Files /\ seen' \in {seen, disk}
  BY DEF ReloadInv, Reload!TypeOK, Reload!BuildFailed, Reload!BuildFinished, Reload!Differs,
    Reload!watchVars
<1>4. rebuild' \in {"complete", "failed"}
  BY DEF Reload!BuildFailed
<1>5. Reload!LateEditIsNoticed'
  <2>1. \A f \in Files : seen'[f] <= disk'[f]
    BY <1>3 DEF ReloadInv, Reload!LateEditIsNoticed, Reload!TypeOK, Reload!Versions
  <2>. QED
    BY <1>1, <2>1 DEF Reload!LateEditIsNoticed
<1>. QED
  BY <1>1, <1>2, <1>3, <1>4, <1>5

\* rebuild_module_now ends: the host starts, or stops.
LEMMA LoadFinishesInv == ReloadInv /\ Reload!LoadFinishes => ReloadInv'
<1>. SUFFICES ASSUME ReloadInv, Reload!LoadFinishes PROVE ReloadInv'
  OBVIOUS
<1>. USE DEF ReloadInv
<1>1. /\ Reload!CloseProcess /\ UNCHANGED <<disk, requested, dll>>
      /\ running /\ ~valid /\ host = "loading"
  BY DEF Reload!LoadFinishes, Reload!ProcessIsTracked
<1>2. CASE (Reload!BuildFailed \/ (Reload!BuildFinished /\ rebuild' = "failed")) /\
           Reload!Refuse /\ host' = "stopped"
  <2>1. /\ Reload!LateEditIsNoticed' /\ Reload!BuiltIsLinked'
        /\ seen' \in Reload!Versions /\ missed' \subseteq Files /\ running' = FALSE
        /\ rebuild' \in {"complete", "failed"} /\ process' \in Processes /\ process'.at = "none"
    BY <1>1, <1>2, FinishedInv
  <2>2. Reload!TypeOK'
    BY <1>1, <1>2, <2>1 DEF Reload!TypeOK, Reload!Refuse, Reload!moduleVars, Processes
  <2>3. Reload!RuntimeIsAlive'
    BY <1>2, RuntimeFrame DEF Reload!Refuse, Reload!InLoop
  <2>4. Reload!ProcessIsTracked' /\ Reload!NoEditIsForgotten'
    BY <1>1, <1>2, <2>1 DEF Reload!ProcessIsTracked, Reload!NoEditIsForgotten, Reload!InLoop,
      Reload!Refuse, Reload!moduleVars
  <2>. QED
    BY <2>1, <2>2, <2>3, <2>4
<1>3. CASE /\ process.at = "built" /\ Reload!BuildFinished
           /\ Reload!Activate /\ rebuild' = "complete" /\ host' = "frame"
  <2>1. /\ Reload!LateEditIsNoticed' /\ Reload!BuiltIsLinked'
        /\ seen' \in Reload!Versions /\ missed' \subseteq Files /\ running' = FALSE
        /\ process' \in Processes /\ process'.at = "none"
    BY <1>1, <1>3, FinishedInv
  <2>2. Reload!TypeOK'
    BY <1>1, <1>3, <2>1, ActivateEffect DEF Reload!TypeOK, Processes
  <2>3. Reload!RuntimeIsAlive'
    BY ActivateEffect, <1>3 DEF Reload!RuntimeIsAlive
  <2>4. Reload!ProcessIsTracked'
    BY <1>3, <2>1 DEF Reload!ProcessIsTracked
  <2>5. Reload!NoEditIsForgotten'
    BY <1>1, <1>3, ReloadedIsCurrent DEF Reload!NoEditIsForgotten, Reload!WillBeBuilt
  <2>. QED
    BY <2>1, <2>2, <2>3, <2>4, <2>5
<1>. QED
  BY <1>2, <1>3 DEF Reload!LoadFinishes

\* update while nothing is built, or the build goes on.
LEMMA UpdateWaitsInv == ReloadInv /\ Reload!UpdateWaits => ReloadInv'
<1>. SUFFICES ASSUME ReloadInv, Reload!UpdateWaits PROVE ReloadInv'
  OBVIOUS
<1>1. CASE running
  BY <1>1, DrainInv DEF Reload!UpdateWaits
<1>2. CASE ~running
  <2>. USE DEF ReloadInv
  <2>1. /\ host = "frame" /\ host' = "polling"
        /\ UNCHANGED <<disk, seen, missed, running, requested, rebuild, process, dll,
          Reload!moduleVars>>
    BY <1>2 DEF Reload!UpdateWaits, Reload!watchVars, Reload!rebuildVars
  <2>2. Reload!TypeOK'
    BY <2>1 DEF Reload!TypeOK, Reload!moduleVars
  <2>3. Reload!RuntimeIsAlive'
    BY <2>1, RuntimeFrame DEF Reload!InLoop
  <2>4. Reload!ProcessIsTracked' /\ Reload!BuiltIsLinked' /\ Reload!LateEditIsNoticed'
    BY <2>1 DEF Reload!ProcessIsTracked, Reload!BuiltIsLinked, Reload!LateEditIsNoticed
  <2>5. Reload!NoEditIsForgotten'
    BY <2>1 DEF Reload!NoEditIsForgotten, Reload!WillBeBuilt, Reload!InLoop, Reload!moduleVars
  <2>. QED
    BY <2>2, <2>3, <2>4, <2>5
<1>. QED
  BY <1>1, <1>2 DEF ReloadInv, Reload!TypeOK

\* update at the end of a build.
LEMMA UpdateEndsInv == ReloadInv /\ (Reload!UpdateFails \/ Reload!UpdateReloads) => ReloadInv'
<1>. SUFFICES ASSUME ReloadInv, Reload!UpdateFails \/ Reload!UpdateReloads PROVE ReloadInv'
  OBVIOUS
<1>. USE DEF ReloadInv
<1>1. /\ Reload!CloseProcess /\ UNCHANGED <<disk, requested, dll>>
      /\ running /\ host = "frame" /\ host' = "polling"
  BY DEF Reload!UpdateFails, Reload!UpdateReloads
<1>2. CASE (Reload!BuildFailed \/ (Reload!BuildFinished /\ rebuild' = "failed")) /\
           UNCHANGED Reload!moduleVars
  <2>1. /\ Reload!LateEditIsNoticed' /\ Reload!BuiltIsLinked'
        /\ seen' \in Reload!Versions /\ missed' \subseteq Files /\ running' = FALSE
        /\ rebuild' = "failed" /\ process' \in Processes /\ process'.at = "none"
    BY <1>1, <1>2, FinishedInv DEF Reload!BuildFailed
  <2>2. Reload!TypeOK'
    BY <1>1, <1>2, <2>1 DEF Reload!TypeOK, Reload!moduleVars, Processes
  <2>3. Reload!RuntimeIsAlive'
    BY <1>1, <1>2, RuntimeFrame DEF Reload!InLoop
  <2>4. Reload!ProcessIsTracked' /\ Reload!NoEditIsForgotten'
    BY <1>1, <2>1 DEF Reload!ProcessIsTracked, Reload!NoEditIsForgotten
  <2>. QED
    BY <2>1, <2>2, <2>3, <2>4
<1>3. CASE process.at = "built" /\ Reload!BuildFinished /\ Reload!Activate /\ rebuild' = "complete"
  <2>1. /\ Reload!LateEditIsNoticed' /\ Reload!BuiltIsLinked'
        /\ seen' \in Reload!Versions /\ missed' \subseteq Files /\ running' = FALSE
        /\ process' \in Processes /\ process'.at = "none"
    BY <1>1, <1>3, FinishedInv
  <2>2. Reload!TypeOK'
    BY <1>1, <1>3, <2>1, ActivateEffect DEF Reload!TypeOK, Processes
  <2>3. Reload!RuntimeIsAlive'
    BY ActivateEffect, <1>3 DEF Reload!RuntimeIsAlive
  <2>4. Reload!ProcessIsTracked'
    BY <1>1, <2>1 DEF Reload!ProcessIsTracked
  <2>5. Reload!NoEditIsForgotten'
    BY <1>1, <1>3, ReloadedIsCurrent DEF Reload!NoEditIsForgotten, Reload!WillBeBuilt
  <2>. QED
    BY <2>1, <2>2, <2>3, <2>4, <2>5
<1>. QED
  BY <1>2, <1>3 DEF Reload!UpdateFails, Reload!UpdateReloads, Reload!Refuse

\* update, second half.
LEMMA PollInv == ReloadInv /\
                 (Reload!PollRequests \/ Reload!PollRebuilds \/ Reload!PollSeesNothing) =>
                 ReloadInv'
<1>. SUFFICES ASSUME ReloadInv,
                     Reload!PollRequests \/ Reload!PollRebuilds \/ Reload!PollSeesNothing
                     PROVE ReloadInv'
  OBVIOUS
<1>. USE DEF ReloadInv
<1>1. /\ host = "polling" /\ host' = "frame" /\ seen' = disk /\ seen' \in Reload!Versions
      /\ UNCHANGED <<disk, dll, Reload!moduleVars>>
      /\ \A f \in Files : seen'[f] <= disk'[f]
  BY DEF Reload!PollRequests, Reload!PollRebuilds, Reload!PollSeesNothing, Reload!watchVars,
    Reload!TypeOK, Reload!Versions
<1>2. Reload!RuntimeIsAlive'
  BY <1>1, RuntimeFrame DEF Reload!InLoop
<1>3. CASE Reload!PollRequests
  <2>1. running /\ requested' = TRUE /\ UNCHANGED <<missed, running, rebuild, process>>
    BY <1>3 DEF Reload!PollRequests
  <2>2. Reload!TypeOK'
    BY <1>1, <2>1 DEF Reload!TypeOK, Reload!moduleVars
  <2>3. Reload!ProcessIsTracked' /\ Reload!BuiltIsLinked' /\ Reload!LateEditIsNoticed' /\
        Reload!NoEditIsForgotten'
    BY <1>1, <2>1
       DEF Reload!ProcessIsTracked, Reload!BuiltIsLinked, Reload!LateEditIsNoticed,
         Reload!NoEditIsForgotten, Reload!WillBeBuilt
  <2>. QED
    BY <1>2, <2>2, <2>3
<1>4. CASE Reload!PollRebuilds /\ Reload!StartRebuild
  <2>1. Reload!TypeOK'
    BY <1>1, <1>4, StartEffect DEF Reload!TypeOK, Reload!moduleVars, Processes
  <2>2. Reload!ProcessIsTracked' /\ Reload!BuiltIsLinked' /\ Reload!LateEditIsNoticed' /\
        Reload!NoEditIsForgotten'
    BY <1>1, <1>4, StartEffect
       DEF Reload!ProcessIsTracked, Reload!BuiltIsLinked, Reload!LateEditIsNoticed,
         Reload!NoEditIsForgotten, Reload!WillBeBuilt
  <2>. QED
    BY <1>2, <2>1, <2>2
<1>5. CASE Reload!PollRebuilds /\ Reload!StartRebuildFails
  <2>1. ~running /\ rebuild' = "failed" /\ UNCHANGED <<running, requested, process, missed>>
    BY <1>5 DEF Reload!PollRebuilds, Reload!StartRebuildFails
  <2>2. Reload!TypeOK'
    BY <1>1, <2>1 DEF Reload!TypeOK, Reload!moduleVars
  <2>3. Reload!ProcessIsTracked' /\ Reload!BuiltIsLinked' /\ Reload!LateEditIsNoticed' /\
        Reload!NoEditIsForgotten'
    BY <1>1, <2>1 DEF Reload!ProcessIsTracked, Reload!BuiltIsLinked, Reload!LateEditIsNoticed,
      Reload!NoEditIsForgotten
  <2>. QED
    BY <1>2, <2>2, <2>3
<1>6. CASE Reload!PollSeesNothing
  <2>1. UNCHANGED <<seen, missed, running, requested, rebuild, process>>
    BY <1>6 DEF Reload!PollSeesNothing, Reload!watchVars, Reload!rebuildVars
  <2>2. Reload!TypeOK'
    BY <1>1, <2>1 DEF Reload!TypeOK, Reload!moduleVars
  <2>3. Reload!ProcessIsTracked' /\ Reload!BuiltIsLinked' /\ Reload!LateEditIsNoticed'
    BY <1>1, <2>1 DEF Reload!ProcessIsTracked, Reload!BuiltIsLinked, Reload!LateEditIsNoticed
  <2>4. Reload!NoEditIsForgotten'
    BY <1>1, <2>1 DEF Reload!NoEditIsForgotten, Reload!WillBeBuilt, Reload!InLoop, Reload!moduleVars
  <2>. QED
    BY <1>2, <2>2, <2>3, <2>4
<1>. QED
  BY <1>3, <1>4, <1>5, <1>6 DEF Reload!PollRebuilds

\* destroy_hot_reload_module is called.
LEMMA DestroyInv == ReloadInv /\ Reload!Destroy => ReloadInv'
<1>. SUFFICES ASSUME ReloadInv, Reload!Destroy PROVE ReloadInv'
  OBVIOUS
<1>. USE DEF ReloadInv
<1>1. /\ host' = "closing" /\ ~Reload!InLoop'
      /\ UNCHANGED <<disk, seen, missed, running, requested, rebuild, process, dll,
        Reload!moduleVars>>
  BY DEF Reload!Destroy, Reload!watchVars, Reload!rebuildVars, Reload!InLoop
<1>2. Reload!TypeOK'
  BY <1>1 DEF Reload!TypeOK, Reload!moduleVars
<1>3. Reload!RuntimeIsAlive' /\ Reload!NoEditIsForgotten'
  BY <1>1, RuntimeFrame DEF Reload!NoEditIsForgotten
<1>4. Reload!ProcessIsTracked' /\ Reload!BuiltIsLinked' /\ Reload!LateEditIsNoticed'
  BY <1>1 DEF Reload!ProcessIsTracked, Reload!BuiltIsLinked, Reload!LateEditIsNoticed
<1>. QED
  BY <1>2, <1>3, <1>4

\* The process ended: the runtime is destroyed and its copy unloaded.
LEMMA DestroyFinishesInv == ReloadInv /\ Reload!DestroyFinishes => ReloadInv'
<1>. SUFFICES ASSUME ReloadInv, Reload!DestroyFinishes PROVE ReloadInv'
  OBVIOUS
<1>. USE DEF ReloadInv
<1>1. /\ running' = FALSE /\ process' \in Processes /\ process'.at = "none"
      /\ host' \in {"unloaded", "stopped"} /\ ~Reload!InLoop' /\ valid' = FALSE
      /\ UNCHANGED <<disk, seen, missed, requested, rebuild, dll, activeStorage>>
  BY CloseEffect DEF Reload!DestroyFinishes, Reload!watchVars, Reload!InLoop
<1>2. Reload!NoModule \in [time: Nat, files: Reload!Versions]
  BY DEF Reload!NoModule, Reload!NoContents, Reload!Versions
<1>3. /\ storage' \in [{0, 1} -> Nat] /\ \A s \in {0, 1} : storage'[s] = 0
      /\ copies' = {}
  BY DEF Reload!DestroyFinishes, Reload!RuntimeIsAlive, Reload!TypeOK
<1>4. Reload!TypeOK'
  BY <1>1, <1>2, <1>3 DEF Reload!TypeOK, Reload!DestroyFinishes, Processes
<1>5. Reload!RuntimeIsAlive' /\ Reload!NoEditIsForgotten'
  BY <1>1, <1>3 DEF Reload!RuntimeIsAlive, Reload!NoEditIsForgotten
<1>6. Reload!ProcessIsTracked' /\ Reload!BuiltIsLinked' /\ Reload!LateEditIsNoticed'
  BY <1>1 DEF Reload!ProcessIsTracked, Reload!BuiltIsLinked, Reload!LateEditIsNoticed
<1>. QED
  BY <1>4, <1>5, <1>6

\* The compiler reads one source.
LEMMA BuildReadsInv == ASSUME NEW f \in Files PROVE ReloadInv /\ Reload!BuildReads(f) => ReloadInv'
<1>. SUFFICES ASSUME ReloadInv, Reload!BuildReads(f) PROVE ReloadInv'
  OBVIOUS
<1>. USE DEF ReloadInv
<1>1. UNCHANGED <<host, disk, seen, missed, running, requested, rebuild, dll, Reload!moduleVars>>
  BY DEF Reload!BuildReads, Reload!watchVars, Reload!rebuildVars
<1>2. /\ process' \in Processes /\ process.at = "working" /\ process'.at = "working"
      /\ process'.read[f] = disk[f]
      /\ \A g \in Files \ {f} : process'.read[g] = process.read[g]
  <2>1. process' = [at |-> process.at, read |-> [process.read EXCEPT ![f] = disk[f]],
                    output |-> process.output + 1]
    BY DEF Reload!BuildReads, Reload!TypeOK, Processes
  <2>2. process.output + 1 \in 0..PipeSize /\ disk[f] \in Nat
    BY ReloadAssumption DEF Reload!BuildReads, Reload!Prints, Reload!TypeOK, Reload!Versions
  <2>3. process.read \in [Files -> Nat \cup {Reload!Unread}] /\ process.at = "working"
    BY DEF Reload!BuildReads, Reload!TypeOK
  <2>4. [process.read EXCEPT ![f] = disk[f]] \in [Files -> Nat \cup {Reload!Unread}]
    BY <2>2, <2>3
  <2>5. process' \in Processes /\ process'.at = "working"
    BY <2>1, <2>2, <2>3, <2>4 DEF Processes
  <2>6. process'.read = [process.read EXCEPT ![f] = disk[f]]
    BY <2>1
  <2>. QED
    BY <2>3, <2>5, <2>6
<1>3. Reload!TypeOK'
  BY <1>1, <1>2 DEF Reload!TypeOK, Reload!moduleVars, Processes
<1>4. Reload!RuntimeIsAlive'
  BY <1>1, RuntimeFrame DEF Reload!InLoop
<1>5. Reload!ProcessIsTracked' /\ Reload!BuiltIsLinked'
  BY <1>1, <1>2 DEF Reload!ProcessIsTracked, Reload!BuiltIsLinked, Reload!moduleVars
<1>6. Reload!LateEditIsNoticed'
  BY <1>1, <1>2 DEF Reload!LateEditIsNoticed
<1>7. Reload!NoEditIsForgotten'
  BY <1>1, <1>2 DEF Reload!NoEditIsForgotten, Reload!WillBeBuilt, Reload!InLoop, Reload!moduleVars
<1>. QED
  BY <1>3, <1>4, <1>5, <1>6, <1>7

\* The build process ends.
LEMMA BuildEndsInv == ReloadInv /\ (Reload!BuildSucceeds \/ Reload!BuildBreaks) => ReloadInv'
<1>. SUFFICES ASSUME ReloadInv, Reload!BuildSucceeds \/ Reload!BuildBreaks PROVE ReloadInv'
  OBVIOUS
<1>. USE DEF ReloadInv
<1>1. /\ UNCHANGED <<host, disk, seen, missed, running, requested, rebuild, Reload!moduleVars>>
      /\ process.at = "working"
  BY DEF Reload!BuildSucceeds, Reload!BuildBreaks, Reload!watchVars, Reload!rebuildVars
<1>2. /\ process' \in Processes /\ process'.at \in {"built", "broken"}
      /\ process'.read = process.read
      /\ Reload!BuildBreaks => process'.at = "broken"
      /\ Reload!BuildSucceeds => process'.at = "built"
  <2>1. process.output + 1 \in 0..PipeSize /\ process.read \in [Files -> Nat \cup {Reload!Unread}]
    BY ReloadAssumption DEF Reload!BuildSucceeds, Reload!BuildBreaks, Reload!TypeOK, Reload!Prints
  <2>2. CASE Reload!BuildSucceeds
    <3>1. process' = [at |-> "built", read |-> process.read, output |-> process.output + 1]
      BY <2>2 DEF Reload!BuildSucceeds, Reload!TypeOK
    <3>. QED
      BY <2>1, <2>2, <3>1 DEF Processes, Reload!BuildBreaks, Reload!TypeOK
  <2>3. CASE Reload!BuildBreaks
    <3>1. process' = [at |-> "broken", read |-> process.read, output |-> process.output + 1]
      BY <2>3 DEF Reload!BuildBreaks, Reload!TypeOK
    <3>. QED
      BY <2>1, <2>3, <3>1 DEF Processes, Reload!BuildSucceeds, Reload!TypeOK
  <2>. QED
    BY <2>2, <2>3
<1>3. dll' \in [exists: BOOLEAN, time: Nat, files: Reload!Versions] /\ Reload!BuiltIsLinked'
  <2>1. CASE Reload!BuildSucceeds
    <3>1. \A f \in Files : process.read[f] \in Nat
      BY <2>1 DEF Reload!BuildSucceeds, Reload!TypeOK
    <3>2. process.read \in Reload!Versions
      BY <3>1 DEF Reload!TypeOK, Reload!Versions
    <3>3. CASE dll.exists /\ dll.files = process.read
      BY <2>1, <3>3, <1>2 DEF Reload!BuildSucceeds, Reload!TypeOK, Reload!BuiltIsLinked
    <3>4. CASE ~(dll.exists /\ dll.files = process.read)
      <4>1. dll' = [exists |-> TRUE, time |-> dll.time + 1, files |-> process.read]
        BY <2>1, <3>4 DEF Reload!BuildSucceeds
      <4>. QED
        BY <4>1, <3>2, <1>2 DEF Reload!TypeOK, Reload!BuiltIsLinked
    <3>. QED
      BY <3>3, <3>4
  <2>2. CASE Reload!BuildBreaks
    <3>1. dll' \in [exists: BOOLEAN, time: Nat, files: Reload!Versions]
      <4>1. PICK e \in BOOLEAN : dll' = [dll EXCEPT !.exists = @ /\ e]
        BY <2>2 DEF Reload!BuildBreaks
      <4>2. dll' = [exists |-> (dll.exists /\ e), time |-> dll.time, files |-> dll.files]
        BY <4>1, Zenon DEF Reload!TypeOK
      <4>3. dll.time \in Nat /\ dll.files \in Reload!Versions
        BY DEF Reload!TypeOK
      <4>4. (dll.exists /\ e) \in BOOLEAN
        OBVIOUS
      <4>. QED
        BY <4>2, <4>3, <4>4, Zenon
    <3>. QED
      BY <3>1, <2>2, <1>2 DEF Reload!BuiltIsLinked
  <2>. QED
    BY <2>1, <2>2
<1>4. Reload!TypeOK'
  BY <1>1, <1>2, <1>3 DEF Reload!TypeOK, Reload!moduleVars, Processes
<1>5. Reload!RuntimeIsAlive'
  BY <1>1, RuntimeFrame DEF Reload!InLoop
<1>6. Reload!ProcessIsTracked' /\ Reload!LateEditIsNoticed'
  BY <1>1, <1>2 DEF Reload!ProcessIsTracked, Reload!LateEditIsNoticed, Reload!moduleVars
<1>7. Reload!NoEditIsForgotten'
  BY <1>1, <1>2 DEF Reload!NoEditIsForgotten, Reload!WillBeBuilt, Reload!InLoop, Reload!moduleVars
<1>. QED
  BY <1>3, <1>4, <1>5, <1>6, <1>7

\* A source is written.
LEMMA EditInv == ASSUME NEW f \in Files PROVE ReloadInv /\ Reload!Edit(f) => ReloadInv'
<1>. SUFFICES ASSUME ReloadInv, Reload!Edit(f) PROVE ReloadInv'
  OBVIOUS
<1>. USE DEF ReloadInv
<1>1. UNCHANGED <<host, seen, missed, running, requested, rebuild, process, dll, Reload!moduleVars>>
  BY DEF Reload!Edit, Reload!watchVars, Reload!rebuildVars
<1>2. /\ disk \in Reload!Versions /\ disk' = [disk EXCEPT ![f] = @ + 1]
      /\ disk' \in Reload!Versions
      /\ disk'[f] = disk[f] + 1 /\ \A g \in Files \ {f} : disk'[g] = disk[g]
  BY DEF Reload!Edit, Reload!TypeOK, Reload!Versions
<1>3. seen[f] # disk'[f] /\ \A g \in Files : seen[g] <= disk'[g]
  BY <1>2 DEF Reload!LateEditIsNoticed, Reload!TypeOK, Reload!Versions
<1>4. Reload!TypeOK'
  BY <1>1, <1>2 DEF Reload!TypeOK, Reload!moduleVars
<1>5. Reload!RuntimeIsAlive'
  BY <1>1, RuntimeFrame DEF Reload!InLoop
<1>6. Reload!ProcessIsTracked' /\ Reload!BuiltIsLinked'
  BY <1>1 DEF Reload!ProcessIsTracked, Reload!BuiltIsLinked, Reload!moduleVars
<1>7. Reload!LateEditIsNoticed'
  BY <1>1, <1>2, <1>3 DEF Reload!LateEditIsNoticed
<1>8. Reload!NoEditIsForgotten'
  BY <1>1, <1>2, <1>3 DEF Reload!NoEditIsForgotten, Reload!WillBeBuilt, Reload!InLoop,
    Reload!moduleVars
<1>. QED
  BY <1>4, <1>5, <1>6, <1>7, <1>8

\* The waits of rebuild_module_now and destroy.
LEMMA WaitsInv == ReloadInv /\ (Reload!LoadWaits \/ Reload!DestroyWaits) => ReloadInv'
BY DrainInv DEF Reload!LoadWaits, Reload!DestroyWaits

LEMMA StutterInv == ReloadInv /\ UNCHANGED Reload!vars => ReloadInv'
<1>. SUFFICES ASSUME ReloadInv, UNCHANGED Reload!vars PROVE ReloadInv'
  OBVIOUS
<1>. USE DEF ReloadInv, Reload!vars, Reload!watchVars, Reload!rebuildVars, Reload!moduleVars
<1>1. Reload!TypeOK'
  BY DEF Reload!TypeOK
<1>2. Reload!RuntimeIsAlive' /\ Reload!ProcessIsTracked' /\ Reload!BuiltIsLinked'
  BY DEF Reload!RuntimeIsAlive, Reload!ProcessIsTracked, Reload!BuiltIsLinked, Reload!InLoop
<1>3. Reload!LateEditIsNoticed' /\ Reload!NoEditIsForgotten'
  BY DEF Reload!LateEditIsNoticed, Reload!NoEditIsForgotten, Reload!WillBeBuilt, Reload!InLoop
<1>. QED
  BY <1>1, <1>2, <1>3

-----------------------------------------------------------------------------
(* Theorems *)

\* ReloadInv holds in every reachable state.
THEOREM ReloadInvariance == ReloadSpec => []ReloadInv
<1>1. ReloadInv /\ [Reload!Next]_Reload!vars => ReloadInv'
  <2>. SUFFICES ASSUME ReloadInv, [Reload!Next]_Reload!vars PROVE ReloadInv'
    OBVIOUS
  <2>1. CASE Reload!Load
    BY <2>1, LoadExistingInv, LoadBuildsInv, WaitsInv, LoadFinishesInv DEF Reload!Load
  <2>2. CASE Reload!Update
    BY <2>2, UpdateWaitsInv, UpdateEndsInv, PollInv DEF Reload!Update
  <2>3. CASE Reload!Destroy
    BY <2>3, DestroyInv
  <2>4. CASE Reload!Close
    BY <2>4, WaitsInv, DestroyFinishesInv DEF Reload!Close
  <2>5. CASE Reload!Build
    BY <2>5, BuildReadsInv, BuildEndsInv DEF Reload!Build
  <2>6. CASE \E f \in Files : Reload!Edit(f)
    BY <2>6, EditInv
  <2>7. CASE UNCHANGED Reload!vars
    BY <2>7, StutterInv
  <2>. QED
    BY <2>1, <2>2, <2>3, <2>4, <2>5, <2>6, <2>7 DEF Reload!Next
<1>. QED
  BY <1>1, ReloadInitInv, PTL DEF ReloadSpec, Reload!Spec

\* Every variable keeps its type, for any sources, versions and pipe size.
THEOREM ReloadTyped == ReloadSpec => []Reload!TypeOK
<1>1. ReloadInv => Reload!TypeOK
  BY DEF ReloadInv
<1>. QED
  BY <1>1, ReloadInvariance, PTL

\* The frame is always rendered by a live runtime whose code is loaded, and
\* no runtime or copy is left behind, through failed builds, refused modules
\* and restarts (activate_module, unload_module_dll, destroy).
THEOREM RuntimeStaysAlive == ReloadSpec => []RuntimeIsAlive
<1>1. ReloadInv => RuntimeIsAlive
  BY DEF ReloadInv, RuntimeIsAlive
<1>. QED
  BY <1>1, ReloadInvariance, PTL

\* An edit that a build read too early is noticed by the next poll, or
\* another build was asked for (rebuild_requested).
THEOREM LateEditsAreNoticed == ReloadSpec => []Reload!LateEditIsNoticed
<1>1. ReloadInv => Reload!LateEditIsNoticed
  BY DEF ReloadInv
<1>. QED
  BY <1>1, ReloadInvariance, PTL

\* An edit is shown, on its way, told to have failed, or one of those the
\* refresh of the watched times swallowed: there is no other way to lose it.
THEOREM EditsAreNotForgotten == ReloadSpec => []NoEditIsForgotten
<1>1. ReloadInv => NoEditIsForgotten
  BY DEF ReloadInv, NoEditIsForgotten
<1>. QED
  BY <1>1, ReloadInvariance, PTL
=============================================================================
