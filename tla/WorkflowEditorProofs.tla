------------------------ MODULE WorkflowEditorProofs ------------------------
(***************************************************************************)
(* The editor and its autosave for any workflows and any number of edits   *)
(* and failures.                                                           *)
(***************************************************************************)
EXTENDS WorkflowEditor, TLAPS

USE EditorAssumption

----------------------------------------------------------------------------
(* The inductive invariant *)

\* The canvas shows the current workflow, and a save stores a workflow's own content.
Home ==
    ~crossed =>
        /\ \A w \in Workflows : stored[w] = Nothing \/ stored[w].of = w
        /\ canvas # Nothing /\ currentId # Nothing => canvas.of = currentId
        /\ canvas # Nothing /\ saving # Nothing => canvas.of = saving.target
        /\ saving # Nothing => saving.content.of = saving.target

\* What a save in flight holds: the canvas, unless it has been edited since; and from the
\* reply on it is on the server.
InFlight ==
    /\ saving # Nothing /\ canvas # Nothing => saving.content = canvas \/ hurried \/ crossed
    /\ saving # Nothing /\ saving.phase # "sent" => stored[saving.target] = saving.content

\* An unsaved edit without a cause is waiting for the timer or a save; for a save, when
\* somebody is about to leave.
Pending ==
    canvas # Nothing /\ Unsaved /\ opening = Nothing =>
        \/ hurried \/ failed \/ crossed
        \/ saving # Nothing
        \/ timer /\ leaving = "no"

EInv == TypeOK /\ Home /\ InFlight /\ Pending

LEMMA InitEInv == Init => EInv
<1> SUFFICES ASSUME Init PROVE EInv
  OBVIOUS
<1>1. PICK w \in Workflows \ Existing : canvas = Untouched(w)
  BY DEF Init
<1>2. \A v \in Workflows : Untouched(v) \in Content /\ Untouched(v).of = v
  BY DEF Untouched, Content
<1>3. TypeOK
  <2>1. stored \in [Workflows -> Content \cup {Nothing}]
    BY <1>2 DEF Init
  <2>2. canvas \in Content /\ saved \in Content
    BY <1>1, <1>2 DEF Init
  <2>3. edits \in 0..MaxEdits /\ failures \in 0..MaxFailures
    BY DEF Init
  <2> QED
    BY <2>1, <2>2, <2>3 DEF Init, TypeOK
<1>4. Home
  BY <1>2 DEF Init, Home
<1>5. InFlight /\ Pending
  BY DEF Init, InFlight, Pending, Unsaved, Dirty
<1> QED
  BY <1>3, <1>4, <1>5 DEF EInv

\* The id and the snapshot of a new save.
LEMMA SendStep ==
    ASSUME EInv, canvas # Nothing, saving = Nothing, SendSave
    PROVE  /\ saving' \in Saving /\ saving' # Nothing
           /\ saving'.phase = "sent" /\ saving'.content = canvas
           /\ ~crossed => saving'.target = canvas.of
<1>1. canvas \in Content /\ canvas.of \in Workflows
  BY DEF EInv, TypeOK, Content
<1>2. currentId \in Workflows \cup {Nothing}
  BY DEF EInv, TypeOK
<1>3. saving' \in Saving
  BY <1>1, <1>2 DEF SendSave, Saving
<1>4. saving'.target = IF currentId = Nothing THEN canvas.of ELSE currentId
  BY DEF SendSave
<1>5. ~crossed => saving'.target = canvas.of
  BY <1>4 DEF EInv, Home
<1> QED
  BY <1>3, <1>5 DEF SendSave

\* What flushAutosave does, whoever calls it.
LEMMA FlushStep ==
    ASSUME EInv, canvas # Nothing, FlushAutosave,
           UNCHANGED <<stored, editor, opening, bounds, hurried, crossed>>,
           leaving' \in Reasons \cup {"no"}
    PROVE  EInv'
<1> USE DEF EInv
<1>1. CASE opening = Nothing /\ Dirty /\ saving = Nothing
  <2>1. /\ saving' \in Saving /\ saving' # Nothing
        /\ saving'.phase = "sent" /\ saving'.content = canvas
        /\ ~crossed => saving'.target = canvas.of
    BY <1>1, SendStep DEF FlushAutosave
  <2>2. TypeOK'
    BY <1>1, <2>1 DEF FlushAutosave, TypeOK, editor, bounds
  <2>3. Home'
    BY <2>1 DEF Home, editor
  <2>4. InFlight'
    BY <2>1 DEF InFlight, editor
  <2>5. Pending'
    BY <2>1 DEF Pending
  <2> QED
    BY <2>2, <2>3, <2>4, <2>5
<1>2. CASE ~(opening = Nothing /\ Dirty /\ saving = Nothing)
  <2>1. UNCHANGED <<saving, failed>> /\ timer' = FALSE
    BY <1>2 DEF FlushAutosave
  <2>2. TypeOK'
    BY <2>1 DEF TypeOK, editor, bounds
  <2>3. Home' /\ InFlight'
    BY <2>1 DEF Home, InFlight, editor
  <2>4. Pending'
    BY <1>2, <2>1 DEF Pending, Unsaved, Dirty, editor
  <2> QED
    BY <2>2, <2>3, <2>4
<1> QED
  BY <1>1, <1>2

LEMMA EditStep == EInv /\ Edit => EInv'
<1> SUFFICES ASSUME EInv, Edit PROVE EInv'
  OBVIOUS
<1> USE DEF EInv
<1>1. /\ canvas # Nothing /\ canvas \in Content
      /\ edits \in Nat /\ edits < MaxEdits /\ edits' = edits + 1
      /\ canvas' = [canvas EXCEPT !.edit = edits + 1]
      /\ timer' = (timer \/ opening = Nothing)
      /\ hurried' = (saving # Nothing \/ opening # Nothing)
      /\ leaving # "no" => saving # Nothing
      /\ failed' = FALSE
      /\ UNCHANGED <<stored, currentId, saved, saving, opening, leaving, failures, crossed>>
  BY DEF Edit, Listening, TypeOK
<1>2. canvas' \in Content /\ canvas'.of = canvas.of /\ edits' \in 0..MaxEdits
  BY <1>1 DEF Content
<1>3. TypeOK'
  BY <1>1, <1>2 DEF TypeOK
<1>4. Home'
  BY <1>1, <1>2 DEF Home
<1>5. InFlight'
  BY <1>1 DEF InFlight
<1>6. Pending'
  BY <1>1 DEF Pending
<1> QED
  BY <1>3, <1>4, <1>5, <1>6

LEMMA HandleSaveStep == EInv /\ HandleSave => EInv'
<1> SUFFICES ASSUME EInv, HandleSave PROVE EInv'
  OBVIOUS
<1> USE DEF EInv
<1>1. /\ saving \in Saving /\ saving # Nothing
      /\ stored' = [stored EXCEPT ![saving.target] = saving.content]
      /\ saving' = [saving EXCEPT !.phase = "stored"]
      /\ UNCHANGED <<editor, timer, opening, leaving, bounds, ghosts>>
  BY DEF HandleSave, TypeOK
<1>2. /\ saving' \in Saving /\ saving' # Nothing
      /\ saving'.target = saving.target /\ saving'.content = saving.content
      /\ saving.target \in Workflows /\ saving.content \in Content
  BY <1>1 DEF Saving
<1>3. stored' \in [Workflows -> Content \cup {Nothing}] /\ stored'[saving.target] = saving.content
  BY <1>1, <1>2 DEF TypeOK
<1>4. TypeOK'
  BY <1>1, <1>2, <1>3 DEF TypeOK, editor, bounds, ghosts
<1>5. Home'
  <2> SUFFICES ASSUME ~crossed PROVE Home'
    BY <1>1 DEF Home, ghosts
  <2>1. \A w \in Workflows : stored'[w] = Nothing \/ stored'[w].of = w
    BY <1>1, <1>2, <1>3 DEF Home, TypeOK
  <2> QED
    BY <1>1, <1>2, <2>1 DEF Home, editor
<1>6. InFlight'
  BY <1>1, <1>2, <1>3 DEF InFlight, editor, ghosts
<1>7. Pending'
  BY <1>2 DEF Pending
<1> QED
  BY <1>4, <1>5, <1>6, <1>7

LEMMA SaveReplyStep == EInv /\ SaveReply => EInv'
<1> SUFFICES ASSUME EInv, SaveReply PROVE EInv'
  OBVIOUS
<1> USE DEF EInv
<1>1. /\ saving \in Saving /\ saving # Nothing /\ saving.phase = "stored"
      /\ currentId' = saving.target
      /\ saved' = saving.content
      /\ saving' = [saving EXCEPT !.phase = "routing"]
      /\ UNCHANGED <<stored, canvas, timer, opening, leaving, bounds, ghosts>>
  BY DEF SaveReply, TypeOK
<1>2. /\ saving' \in Saving /\ saving' # Nothing
      /\ saving'.target = saving.target /\ saving'.content = saving.content
      /\ saving.target \in Workflows /\ saving.content \in Content
  BY <1>1 DEF Saving
<1>3. TypeOK'
  BY <1>1, <1>2 DEF TypeOK, bounds, ghosts
<1>4. Home'
  BY <1>1, <1>2 DEF Home, ghosts
<1>5. InFlight'
  BY <1>1, <1>2 DEF InFlight, ghosts
<1>6. Pending'
  BY <1>2 DEF Pending
<1> QED
  BY <1>3, <1>4, <1>5, <1>6

LEMMA SaveEndsStep == EInv /\ SaveEnds => EInv'
<1> SUFFICES ASSUME EInv, SaveEnds PROVE EInv'
  OBVIOUS
<1> USE DEF EInv
<1>1. /\ saving \in Saving /\ saving # Nothing /\ saving.phase = "routing"
      /\ saving' = Nothing
      /\ UNCHANGED <<stored, editor, timer, opening, leaving, bounds, ghosts>>
  BY DEF SaveEnds, TypeOK
<1>2. TypeOK' /\ Home' /\ InFlight'
  BY <1>1 DEF TypeOK, Home, InFlight, editor, bounds, ghosts
<1>3. saving.target \in Workflows /\ stored[saving.target] = saving.content
  BY <1>1 DEF Saving, InFlight
<1>4. canvas = Nothing \/ hurried \/ crossed \/ ~Unsaved
  BY <1>1, <1>3 DEF InFlight, Unsaved
<1>5. Pending'
  BY <1>1, <1>4 DEF Pending, Unsaved, Dirty, editor, ghosts
<1> QED
  BY <1>2, <1>5

LEMMA SaveFailsStep == EInv /\ SaveFails => EInv'
<1> SUFFICES ASSUME EInv, SaveFails PROVE EInv'
  OBVIOUS
<1> USE DEF EInv
<1>1. /\ failures' = failures + 1 /\ failures < MaxFailures
      /\ saving' = Nothing /\ failed' = TRUE
      /\ UNCHANGED <<stored, editor, timer, opening, leaving, edits, hurried, crossed>>
  BY DEF SaveFails
<1>2. TypeOK'
  BY <1>1 DEF TypeOK, editor
<1>3. Home' /\ InFlight' /\ Pending'
  BY <1>1 DEF Home, InFlight, Pending, editor
<1> QED
  BY <1>2, <1>3

LEMMA OpenStep == ASSUME EInv, NEW w \in Workflows, Open(w) PROVE EInv'
<1> USE DEF EInv
<1> DEFINE o == [target |-> w, reply |-> Nothing]
<1>1. /\ opening' = o /\ timer' = FALSE
      /\ UNCHANGED <<stored, editor, saving, leaving, bounds, ghosts>>
  BY DEF Open
<1>2. o \in Opening /\ o # Nothing
  BY DEF Opening
<1>3. TypeOK'
  BY <1>1, <1>2 DEF TypeOK, editor, bounds, ghosts
<1>4. Home' /\ InFlight' /\ Pending'
  BY <1>1, <1>2 DEF Home, InFlight, Pending, editor, ghosts
<1> QED
  BY <1>3, <1>4

LEMMA HandleOpenStep == EInv /\ HandleOpen => EInv'
<1> SUFFICES ASSUME EInv, HandleOpen PROVE EInv'
  OBVIOUS
<1> USE DEF EInv
<1>1. /\ opening \in Opening /\ opening # Nothing
      /\ opening' = [opening EXCEPT !.reply = stored[opening.target]]
      /\ UNCHANGED <<stored, editor, timer, saving, leaving, bounds, ghosts>>
  BY DEF HandleOpen, TypeOK
<1>2. opening' \in Opening /\ opening' # Nothing
  BY <1>1 DEF Opening, TypeOK
<1>3. TypeOK'
  BY <1>1, <1>2 DEF TypeOK, editor, bounds, ghosts
<1>4. Home' /\ InFlight' /\ Pending'
  BY <1>1, <1>2 DEF Home, InFlight, Pending, editor, ghosts
<1> QED
  BY <1>3, <1>4

LEMMA OpenedStep == EInv /\ Opened => EInv'
<1> SUFFICES ASSUME EInv, Opened PROVE EInv'
  OBVIOUS
<1> USE DEF EInv
<1>1. /\ opening \in Opening /\ opening.reply # Nothing
      /\ canvas' = [opening.reply EXCEPT !.of = opening.target]
      /\ saved' = canvas' /\ currentId' = opening.target /\ opening' = Nothing
      /\ crossed' = (crossed \/ saving # Nothing)
      /\ hurried' = FALSE /\ failed' = FALSE
      /\ UNCHANGED <<stored, timer, saving, leaving, bounds>>
  BY DEF Opened, TypeOK
<1>2. opening.target \in Workflows /\ opening.reply \in Content
  BY <1>1 DEF Opening
<1>3. canvas' \in Content /\ canvas'.of = opening.target
  BY <1>1, <1>2 DEF Content
<1>4. TypeOK'
  BY <1>1, <1>2, <1>3 DEF TypeOK, bounds
<1>5. Home' /\ InFlight'
  BY <1>1, <1>3 DEF Home, InFlight
<1>6. Pending'
  BY <1>1 DEF Pending, Unsaved, Dirty
<1> QED
  BY <1>4, <1>5, <1>6

LEMMA OpenFailsStep == EInv /\ OpenFails => EInv'
<1> SUFFICES ASSUME EInv, OpenFails PROVE EInv'
  OBVIOUS
<1> USE DEF EInv
<1>1. /\ failures' = failures + 1 /\ failures < MaxFailures
      /\ opening' = Nothing /\ failed' = TRUE
      /\ UNCHANGED <<stored, editor, timer, saving, leaving, edits, hurried, crossed>>
  BY DEF OpenFails
<1>2. TypeOK'
  BY <1>1 DEF TypeOK, editor
<1>3. Home' /\ InFlight' /\ Pending'
  BY <1>1 DEF Home, InFlight, Pending, editor
<1> QED
  BY <1>2, <1>3

LEMMA PageLeftStep == EInv /\ PageLeft => EInv'
<1> SUFFICES ASSUME EInv, PageLeft PROVE EInv'
  OBVIOUS
<1> USE DEF EInv
<1>1. /\ canvas' = Nothing /\ timer' = FALSE /\ opening' = Nothing /\ leaving' = "no"
      /\ UNCHANGED <<stored, currentId, saved, saving, bounds, ghosts>>
  BY DEF PageLeft
<1>2. TypeOK'
  BY <1>1 DEF TypeOK, bounds, ghosts
<1>3. Home' /\ InFlight' /\ Pending'
  BY <1>1 DEF Home, InFlight, Pending, ghosts
<1> QED
  BY <1>2, <1>3

LEMMA NewCanvasStep == ASSUME EInv, NEW w \in Workflows, NewCanvas(w) PROVE EInv'
<1> USE DEF EInv
<1>1. /\ canvas' = Untouched(w) /\ saved' = Untouched(w) /\ currentId' = Nothing
      /\ leaving' = "no" /\ saving = Nothing
      /\ hurried' = FALSE /\ failed' = FALSE
      /\ UNCHANGED <<stored, timer, saving, opening, bounds, crossed>>
  BY DEF NewCanvas
<1>2. Untouched(w) \in Content
  BY DEF Untouched, Content
<1>3. TypeOK'
  BY <1>1, <1>2 DEF TypeOK, bounds
<1>4. Home' /\ InFlight' /\ Pending'
  BY <1>1 DEF Home, InFlight, Pending, Unsaved, Dirty
<1> QED
  BY <1>3, <1>4

\* Every step, action by action.
LEMMA NextEInv == EInv /\ [Next]_vars => EInv'
<1> SUFFICES ASSUME EInv, [Next]_vars PROVE EInv'
  OBVIOUS
<1>1. CASE UNCHANGED vars
  BY <1>1 DEF vars, editor, control, bounds, ghosts, EInv, TypeOK, Home, InFlight, Pending,
              Unsaved, Dirty
<1>2. CASE TimerFires
  BY <1>2, FlushStep DEF TimerFires, Listening, EInv, TypeOK
<1>3. ASSUME NEW reason \in Reasons, Leave(reason) PROVE EInv'
  BY <1>3, FlushStep DEF Leave, Listening
<1>4. CASE BackResumes
  BY <1>4, FlushStep DEF BackResumes, Reasons
<1> QED
  BY <1>1, <1>2, <1>3, <1>4, EditStep, HandleSaveStep, SaveReplyStep, SaveEndsStep,
     SaveFailsStep, OpenStep, HandleOpenStep, OpenedStep, OpenFailsStep, PageLeftStep,
     NewCanvasStep DEF Next

\* Every reachable state satisfies the inductive invariant.
THEOREM EditorInvariant == Spec => []EInv
<1> QED
  BY InitEInv, NextEInv, PTL DEF Spec

----------------------------------------------------------------------------
(* What follows from it *)

\* The editor's state has its types.
THEOREM EditorTypeCorrect == Spec => []TypeOK
<1>1. EInv => TypeOK
  BY DEF EInv
<1> QED
  BY <1>1, EditorInvariant, PTL

\* While openings do not overtake saves, no workflow is stored under another one's id.
THEOREM WorkflowsDoNotMix == Spec => []ContentStaysHome
<1>1. EInv => ContentStaysHome
  BY DEF EInv, Home, ContentStaysHome
<1> QED
  BY <1>1, EditorInvariant, PTL

\* An edit is left behind, without a timer or a save, for one of three causes only.
THEOREM NoForgottenEdit == Spec => []UnsavedHasACause
<1>1. EInv => UnsavedHasACause
  BY DEF EInv, Pending, UnsavedHasACause, control
<1> QED
  BY <1>1, EditorInvariant, PTL

\* A new canvas, the back button and leaving the page lose no edit without one of them.
THEOREM NoSilentLoss == Spec => LossHasACause
<1> DEFINE Lost == canvas' # canvas /\ edits' = edits /\ Unsaved
           Cause == opening # Nothing \/ hurried \/ failed \/ crossed
<1>1. ASSUME EInv, [Next]_vars, Lost PROVE Cause
  <2>1. Next
    BY <1>1 DEF vars, editor
  <2>2. CASE Edit
    <3>1. edits \in Nat /\ edits' = edits + 1
      BY <1>1, <2>2 DEF Edit, EInv, TypeOK
    <3> QED
      BY <1>1, <3>1
  <2>3. CASE Opened
    BY <2>3 DEF Opened
  <2>4. CASE PageLeft \/ \E w \in Workflows : NewCanvas(w)
    <3>1. canvas # Nothing /\ leaving # "no" /\ saving = Nothing
      BY <2>4 DEF PageLeft, NewCanvas
    <3> QED
      BY <1>1, <3>1 DEF EInv, Pending
  <2> QED
    BY <1>1, <2>1, <2>2, <2>3, <2>4
       DEF Next, TimerFires, HandleSave, SaveReply, SaveEnds, SaveFails, HandleOpen, OpenFails,
           Open, Leave, BackResumes, editor
<1>2. EInv /\ [Next]_vars => [Lost => Cause]_vars
  BY <1>1
<1> QED
  BY <1>2, EditorInvariant, PTL DEF Spec, LossHasACause
=============================================================================
