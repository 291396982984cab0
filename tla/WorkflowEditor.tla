--------------------------- MODULE WorkflowEditor ---------------------------
(***************************************************************************)
(* The canvas of the workflow editor and its autosave: edits start a       *)
(* timer, the timer saves, and opening another workflow, starting a new    *)
(* one or leaving the page goes through the same flushAutosave.            *)
(*                                                                         *)
(* One tab is modelled; the server keeps the current draft of each         *)
(* workflow (its versions are the subject of WorkflowVersions).  Events    *)
(* are the timer, edits, clicks and replies of the server; what a promise  *)
(* resumes runs before the next event.  A node that finishes its           *)
(* generation edits the canvas too, so that the blocking overlay stops     *)
(* clicks and no edits.  A new canvas bears the id that the server will    *)
(* give to it.                                                             *)
(***************************************************************************)
EXTENDS Naturals

CONSTANTS
    Workflows,    \* ids, of which
    Existing,     \* these are on the server from the start
    Nothing,      \* no workflow, no content, no request
    MaxEdits,     \* bound: edits
    MaxFailures   \* bound: requests that fail

Content == [of : Workflows, edit : 0..MaxEdits]
Saving  == [phase : {"sent", "stored", "routing"}, target : Workflows, content : Content]
Opening == [target : Workflows, reply : Content \cup {Nothing}]
Reasons == {"new", "back", "leave"}

ASSUME EditorAssumption ==
    /\ Existing \subseteq Workflows
    /\ Existing # Workflows
    /\ Nothing \notin Workflows \cup Content \cup Saving \cup Opening
    /\ MaxEdits \in Nat
    /\ MaxFailures \in Nat

VARIABLES
    stored,      \* server: the draft of each workflow
    canvas,      \* whose content the canvas shows, and the last edit in it
    currentId,   \* currentWorkflowId
    saved,       \* what isCanvasDirty compares the canvas with
    timer,       \* autosaveTimer is set
    saving,      \* autosaveInFlight: where it is, and what it saves
    opening,     \* workflowLoadingByRoute: the workflow being opened and the reply
    leaving,     \* the click or navigation that waits for flushAutosave
    edits, failures,
    hurried,     \* ghost: the last edit was made during a save or an opening
    failed,      \* ghost: a request has failed since the last edit or attempt to save
    crossed      \* ghost: the opening of a workflow has overtaken a save

editor  == <<canvas, currentId, saved>>
control == <<timer, saving, opening, leaving>>
bounds  == <<edits, failures>>
ghosts  == <<hurried, failed, crossed>>
vars    == <<stored, editor, control, bounds, ghosts>>

TypeOK ==
    /\ stored \in [Workflows -> Content \cup {Nothing}]
    /\ canvas \in Content \cup {Nothing}
    /\ currentId \in Workflows \cup {Nothing}
    /\ saved \in Content
    /\ timer \in BOOLEAN
    /\ saving \in Saving \cup {Nothing}
    /\ opening \in Opening \cup {Nothing}
    /\ leaving \in Reasons \cup {"no"}
    /\ edits \in 0..MaxEdits
    /\ failures \in 0..MaxFailures
    /\ hurried \in BOOLEAN /\ failed \in BOOLEAN /\ crossed \in BOOLEAN

Dirty    == canvas # saved
Unsaved  == Dirty /\ \A w \in Workflows : stored[w] # canvas

\* The editor is mounted, and no promise is about to resume.
Listening == canvas # Nothing /\ ~(leaving # "no" /\ saving = Nothing)

Untouched(w) == [of |-> w, edit |-> 0]

\* An id that a new canvas may bear.
Unused(w) == stored[w] = Nothing /\ (saving # Nothing => saving.target # w)

Init ==
    /\ stored = [w \in Workflows |-> IF w \in Existing THEN Untouched(w) ELSE Nothing]
    /\ \E w \in Workflows \ Existing : canvas = Untouched(w)
    /\ saved = canvas
    /\ currentId = Nothing
    /\ timer = FALSE /\ saving = Nothing /\ opening = Nothing /\ leaving = "no"
    /\ edits = 0 /\ failures = 0
    /\ hurried = FALSE /\ failed = FALSE /\ crossed = FALSE

-----------------------------------------------------------------------------
(* Edits, the timer and flushAutosave.                                      *)

\* Mutant: a canvas without a workflow is not watched.
Edit_OnlyOpened ==
    /\ Listening
    /\ edits < MaxEdits
    /\ edits' = edits + 1
    /\ canvas' = [canvas EXCEPT !.edit = edits + 1]
    /\ timer' = (timer \/ (opening = Nothing /\ currentId # Nothing))
    /\ hurried' = (saving # Nothing \/ opening # Nothing)
    /\ failed' = FALSE
    /\ UNCHANGED <<stored, currentId, saved, saving, opening, leaving, failures, crossed>>

\* The watcher of the canvas schedules an autosave, except while a workflow is opened.
Edit ==
    /\ Listening
    /\ edits < MaxEdits
    /\ edits' = edits + 1
    /\ canvas' = [canvas EXCEPT !.edit = edits + 1]
    /\ timer' = (timer \/ opening = Nothing)
    /\ hurried' = (saving # Nothing \/ opening # Nothing)
    /\ failed' = FALSE
    /\ UNCHANGED <<stored, currentId, saved, saving, opening, leaving, failures, crossed>>

\* Mutant: the snapshot is the one last saved.
SendSave_Stale ==
    saving' = [phase |-> "sent", content |-> saved,
               target |-> IF currentId = Nothing THEN canvas.of ELSE currentId]

\* performAutosave: the snapshot and the id are taken at once.
SendSave ==
    saving' = [phase |-> "sent", content |-> canvas,
               target |-> IF currentId = Nothing THEN canvas.of ELSE currentId]

\* flushAutosave: nothing is sent while a workflow is opened, when the canvas is clean, and
\* when a save is in flight, which is awaited instead.
FlushAutosave ==
    /\ timer' = FALSE
    /\ IF opening = Nothing /\ Dirty /\ saving = Nothing
       THEN SendSave /\ failed' = FALSE
       ELSE UNCHANGED <<saving, failed>>

TimerFires ==
    /\ Listening
    /\ timer
    /\ FlushAutosave
    /\ UNCHANGED <<stored, editor, opening, leaving, bounds, hurried, crossed>>

-----------------------------------------------------------------------------
(* The save: the request, the detail read back, the new route.              *)

HandleSave ==
    /\ saving # Nothing /\ saving.phase = "sent"
    /\ stored' = [stored EXCEPT ![saving.target] = saving.content]
    /\ saving' = [saving EXCEPT !.phase = "stored"]
    /\ UNCHANGED <<editor, timer, opening, leaving, bounds, ghosts>>

\* The reply decides which workflow is the current one, whatever was opened meanwhile.
SaveReply ==
    /\ saving # Nothing /\ saving.phase = "stored"
    /\ currentId' = saving.target
    /\ saved' = saving.content
    /\ saving' = [saving EXCEPT !.phase = "routing"]
    /\ UNCHANGED <<stored, canvas, timer, opening, leaving, bounds, ghosts>>

SaveEnds ==
    /\ saving # Nothing /\ saving.phase = "routing"
    /\ saving' = Nothing
    /\ UNCHANGED <<stored, editor, timer, opening, leaving, bounds, ghosts>>

\* The request fails, or the reading back of the detail after it; the reply to a creation,
\* which holds the detail, is assumed to arrive.
SaveFails ==
    /\ saving # Nothing
    /\ saving.phase = "sent" \/ (saving.phase = "stored" /\ currentId # Nothing)
    /\ failures < MaxFailures
    /\ failures' = failures + 1
    /\ saving' = Nothing
    /\ failed' = TRUE
    /\ UNCHANGED <<stored, editor, timer, opening, leaving, edits, hurried, crossed>>

-----------------------------------------------------------------------------
(* tryLoadWorkflowByRoute.                                                  *)

\* workflowLoadingByRoute is set before flushAutosave is called: the timer is cleared and
\* nothing is saved.
Open(w) ==
    /\ Listening
    /\ leaving = "no" /\ opening = Nothing
    /\ stored[w] # Nothing /\ w # currentId
    /\ opening' = [target |-> w, reply |-> Nothing]
    /\ timer' = FALSE
    /\ UNCHANGED <<stored, editor, saving, leaving, bounds, ghosts>>

HandleOpen ==
    /\ opening # Nothing /\ opening.reply = Nothing
    /\ opening' = [opening EXCEPT !.reply = stored[opening.target]]
    /\ UNCHANGED <<stored, editor, timer, saving, leaving, bounds, ghosts>>

\* loadWorkflowDetail and applyWorkflowVersionToCanvas.
Opened ==
    /\ Listening
    /\ opening # Nothing /\ opening.reply # Nothing
    /\ canvas' = [opening.reply EXCEPT !.of = opening.target]
    /\ saved' = canvas'
    /\ currentId' = opening.target
    /\ opening' = Nothing
    /\ crossed' = (crossed \/ saving # Nothing)
    /\ hurried' = FALSE /\ failed' = FALSE
    /\ UNCHANGED <<stored, timer, saving, leaving, bounds>>

OpenFails ==
    /\ Listening
    /\ opening # Nothing
    /\ failures < MaxFailures
    /\ failures' = failures + 1
    /\ opening' = Nothing
    /\ failed' = TRUE
    /\ UNCHANGED <<stored, editor, timer, saving, leaving, edits, hurried, crossed>>

-----------------------------------------------------------------------------
(* Leaving the canvas: handleCreateWorkflow, goBack, onBeforeRouteLeave.    *)

\* Mutant: the timer is cleared and nothing is saved.
Leave_NoFlush(reason) ==
    /\ Listening
    /\ leaving = "no"
    /\ reason # "leave" => opening = Nothing
    /\ reason = "new" => \E w \in Workflows : Unused(w) /\ w # canvas.of
    /\ timer' = FALSE
    /\ leaving' = reason
    /\ UNCHANGED <<stored, editor, saving, opening, bounds, ghosts>>

\* The overlay keeps clicks away while a workflow is opened; the browser's own back button
\* works at any time.
Leave(reason) ==
    /\ Listening
    /\ leaving = "no"
    /\ reason # "leave" => opening = Nothing
    /\ reason = "new" => \E w \in Workflows : Unused(w) /\ w # canvas.of
    /\ FlushAutosave
    /\ leaving' = reason
    /\ UNCHANGED <<stored, editor, opening, bounds, hurried, crossed>>

\* goBack has flushed; the navigation runs onBeforeRouteLeave, which flushes again.
BackResumes ==
    /\ canvas # Nothing
    /\ leaving = "back" /\ saving = Nothing
    /\ FlushAutosave
    /\ leaving' = "leave"
    /\ UNCHANGED <<stored, editor, opening, bounds, hurried, crossed>>

\* The page is unmounted; a timer set meanwhile is cleared.
PageLeft ==
    /\ canvas # Nothing
    /\ leaving = "leave" /\ saving = Nothing
    /\ canvas' = Nothing
    /\ timer' = FALSE
    /\ opening' = Nothing
    /\ leaving' = "no"
    /\ UNCHANGED <<stored, currentId, saved, saving, bounds, ghosts>>

\* Mutant: resetCurrentWorkflowState is not called.
NewCanvas_KeepsId(w) ==
    /\ canvas # Nothing
    /\ leaving = "new" /\ saving = Nothing
    /\ Unused(w)
    /\ canvas' = Untouched(w)
    /\ saved' = Untouched(w)
    /\ leaving' = "no"
    /\ hurried' = FALSE /\ failed' = FALSE
    /\ UNCHANGED <<stored, currentId, timer, saving, opening, bounds, crossed>>

NewCanvas(w) ==
    /\ canvas # Nothing
    /\ leaving = "new" /\ saving = Nothing
    /\ Unused(w)
    /\ canvas' = Untouched(w)
    /\ saved' = Untouched(w)
    /\ currentId' = Nothing
    /\ leaving' = "no"
    /\ hurried' = FALSE /\ failed' = FALSE
    /\ UNCHANGED <<stored, timer, saving, opening, bounds, crossed>>

Next ==
    \/ Edit \/ TimerFires
    \/ HandleSave \/ SaveReply \/ SaveEnds \/ SaveFails
    \/ HandleOpen \/ Opened \/ OpenFails
    \/ \E w \in Workflows : Open(w) \/ NewCanvas(w)
    \/ \E reason \in Reasons : Leave(reason)
    \/ BackResumes \/ PageLeft

Spec == Init /\ [][Next]_vars

\* The timer fires; the server answers; promises resume.
FairSpec ==
    /\ Spec
    /\ WF_vars(TimerFires)
    /\ WF_vars(HandleSave) /\ WF_vars(SaveReply) /\ WF_vars(SaveEnds)
    /\ WF_vars(HandleOpen) /\ WF_vars(Opened)
    /\ WF_vars(BackResumes) /\ WF_vars(PageLeft)
    /\ WF_vars(\E w \in Workflows : NewCanvas(w))

-----------------------------------------------------------------------------
(* Properties.                                                              *)

\* Unless the opening of a workflow overtakes a save, what is stored under a workflow's id is
\* always an edit of that workflow.
ContentStaysHome ==
    crossed \/ \A w \in Workflows : stored[w] = Nothing \/ stored[w].of = w

\* An edit that is neither saved nor about to be saved has a cause: it was made while a save
\* or an opening was under way, or a request has failed.
UnsavedHasACause ==
    canvas # Nothing /\ Unsaved /\ control = <<FALSE, Nothing, Nothing, "no">>
        => hurried \/ failed \/ crossed

\* The canvas is given up with an unsaved edit in it only by opening a workflow, or for one
\* of these causes: a new canvas and leaving the page save first.
LossHasACause ==
    [][canvas' # canvas /\ edits' = edits /\ Unsaved
           => opening # Nothing \/ hurried \/ failed \/ crossed]_vars

\* Every edit made in peace is stored in the end, unless a request fails, a workflow is
\* opened or a later edit takes its place.
EditsAreStored ==
    \A n \in 1..MaxEdits :
        (canvas # Nothing /\ canvas.edit = n /\ edits = n /\ ~hurried)
            ~> \/ \E w \in Workflows : stored[w] # Nothing /\ stored[w].edit = n
               \/ failed \/ opening # Nothing \/ edits > n
=============================================================================
