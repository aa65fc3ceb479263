-------------------------- MODULE DefinitionEditor --------------------------
(***************************************************************************)
(* The editor of an agent definition (AgentDefinitionEditorController).    *)
(* Its content is the set of the user's edits it holds.  updateDefinition  *)
(* takes an edit of any field and restarts the autosave timer, which keeps *)
(* the content it was given; saveNow saves what is shown and leaves the    *)
(* timer alone.  Both write six fields of the content only: name,          *)
(* description, agentFrameworkConfig, aiApiConfig, agentTools, heartbeat.  *)
(* Loads and saves are calls that answer later, saves in any order.  The   *)
(* listener's flags are kept apart from the state: the flag an emit        *)
(* carries is not stored in it.                                            *)
(***************************************************************************)
EXTENDS Naturals, FiniteSets

CONSTANTS
    Definitions, Edits,
    SavedEdits,     \* edits of the fields a save writes
    SaveSlots,      \* bound: saves under way
    LoadSlots,      \* bound: loads under way
    MaxLoads,       \* bound: loads
    MaxSaveFailures,\* bound: calls that fail
    Nothing

ASSUME EditorAssumption ==
    LET Contents == [id : Definitions, edits : SUBSET Edits]
    IN  /\ SavedEdits \subseteq Edits
        /\ Nothing \notin Contents
        /\ Nothing \notin [of : Contents, by : {"button", "timer"}]
        /\ Nothing \notin [id : Definitions, got : Contents \union {Nothing},
                           preview : BOOLEAN \union {Nothing}]

VARIABLES
    repository,     \* Definitions -> the edits the stored definition holds
    editor,         \* agentDefinition: [id |->, edits |->] or Nothing
    preview,        \* previewAgentId is set
    timer,          \* what the autosave timer will write, or Nothing
    saves,          \* slot -> [of |-> what is written, by |->] under way, or Nothing
    loads,          \* slot -> [id |->, got |->, preview |->] under way, or Nothing
    shown,          \* the flags the listener was told: [loading |->, saving |->]
    editorCalls,    \* [loads |->, failures |->]
    edited,         \* ghost: Definitions -> the edits the user made
    disturbed       \* ghost: definitions whose edits something else displaced

editorState == <<editor, preview>>
editorVars == <<repository, editorState, timer, saves, loads, shown, editorCalls,
                edited, disturbed>>

EditorInit ==
    /\ repository = [d \in Definitions |-> {}]
    /\ editor = Nothing /\ preview = FALSE /\ timer = Nothing
    /\ saves = [s \in SaveSlots |-> Nothing] /\ loads = [s \in LoadSlots |-> Nothing]
    /\ shown = [loading |-> FALSE, saving |-> FALSE]
    /\ editorCalls = [loads |-> 0, failures |-> 0]
    /\ edited = [d \in Definitions |-> {}] /\ disturbed = {}

MayFail == editorCalls.failures < MaxSaveFailures
CountFailure == editorCalls' = [editorCalls EXCEPT !.failures = @ + 1]

\* loadDefinition: two calls at once, the second creates a preview agent (nobody deletes it).
LoadDefinition(s, d) ==
    /\ loads[s] = Nothing /\ s = CHOOSE t \in LoadSlots : loads[t] = Nothing
    /\ editorCalls.loads < MaxLoads
    /\ loads' = [loads EXCEPT ![s] = [id |-> d, got |-> Nothing, preview |-> Nothing]]
    /\ shown' = [shown EXCEPT !.loading = TRUE]
    /\ editorCalls' = [editorCalls EXCEPT !.loads = @ + 1]
    /\ UNCHANGED <<repository, editorState, timer, saves, edited, disturbed>>

ReadDefinition(s) ==
    /\ loads[s] # Nothing /\ loads[s].got = Nothing
    /\ loads' = [loads EXCEPT ![s].got = [id |-> loads[s].id, edits |-> repository[loads[s].id]]]
    /\ UNCHANGED <<repository, editorState, timer, saves, shown, editorCalls,
                   edited, disturbed>>

FindOrCreatePreviewAgent(s) ==
    /\ loads[s] # Nothing /\ loads[s].preview = Nothing
    /\ \/ /\ loads' = [loads EXCEPT ![s].preview = TRUE]
          /\ UNCHANGED editorCalls
       \/ /\ MayFail /\ CountFailure
          /\ loads' = [loads EXCEPT ![s].preview = FALSE]
    /\ UNCHANGED <<repository, editorState, timer, saves, shown, edited, disturbed>>

\* Mutant: the flag is left when another load is under way.
ShowOnly(s) ==
    /\ loads[s] # Nothing /\ loads[s].got # Nothing /\ loads[s].preview # Nothing
    /\ editor' = loads[s].got /\ preview' = loads[s].preview
    /\ loads' = [loads EXCEPT ![s] = Nothing]
    /\ disturbed' = disturbed \union {loads[s].id}
    /\ UNCHANGED <<repository, timer, saves, shown, editorCalls, edited>>

\* Both answered (the schema was asked for, or not): the state is replaced.
ShowDefinition(s) ==
    /\ loads[s] # Nothing /\ loads[s].got # Nothing /\ loads[s].preview # Nothing
    /\ editor' = loads[s].got /\ preview' = loads[s].preview
    /\ shown' = [loading |-> FALSE, saving |-> FALSE]
    /\ loads' = [loads EXCEPT ![s] = Nothing]
    /\ disturbed' = IF edited[loads[s].id] \intersect SavedEdits \subseteq loads[s].got.edits
                    THEN disturbed ELSE disturbed \union {loads[s].id}
    /\ UNCHANGED <<repository, timer, saves, editorCalls, edited>>

LoadFails(s) ==
    /\ loads[s] # Nothing /\ loads[s].got = Nothing /\ MayFail /\ CountFailure
    /\ loads' = [loads EXCEPT ![s] = Nothing]
    /\ shown' = [shown EXCEPT !.loading = FALSE]
    /\ UNCHANGED <<repository, editorState, timer, saves, edited, disturbed>>

\* Mutant: a timer that is set is kept, with the content it was given.
KeepTimer(definition) ==
    /\ timer' = IF timer = Nothing THEN definition ELSE timer
    /\ UNCHANGED disturbed

\* scheduleAutosave drops the timer that is set, whichever definition it is for.
ScheduleAutosave(definition) ==
    /\ timer' = definition
    /\ disturbed' = IF timer # Nothing /\ timer.id # definition.id
                    THEN disturbed \union {timer.id} ELSE disturbed

UpdateDefinition(e) ==
    /\ editor # Nothing
    /\ LET IsNew(f) == /\ \A d \in Definitions : f \notin edited[d]
                       /\ (f \in SavedEdits) <=> (e \in SavedEdits)
       IN IsNew(e) /\ e = CHOOSE f \in Edits : IsNew(f)
    /\ editor' = [editor EXCEPT !.edits = @ \union {e}]
    /\ edited' = [edited EXCEPT ![editor.id] = @ \union {e}]
    /\ ScheduleAutosave(editor')
    /\ UNCHANGED <<repository, preview, saves, loads, shown, editorCalls>>

\* What a save writes of a content.
Written(definition) == [definition EXCEPT !.edits = @ \intersect SavedEdits]

StartSave(s, definition, by) ==
    /\ saves[s] = Nothing /\ s = CHOOSE t \in SaveSlots : saves[t] = Nothing
    /\ saves' = [saves EXCEPT ![s] = [of |-> Written(definition), by |-> by]]

SaveNow(s) ==
    /\ editor # Nothing /\ StartSave(s, editor, "button")
    /\ shown' = [shown EXCEPT !.saving = TRUE]
    /\ UNCHANGED <<repository, editorState, timer, loads, editorCalls, edited, disturbed>>

Autosave(s) ==
    /\ timer # Nothing /\ StartSave(s, timer, "timer")
    /\ timer' = Nothing
    /\ UNCHANGED <<repository, editorState, loads, shown, editorCalls, edited, disturbed>>

\* The call is answered: only saveNow tells the listener.
SaveSettles(s) ==
    /\ saves' = [saves EXCEPT ![s] = Nothing]
    /\ shown' = IF saves[s].by = "button" THEN [shown EXCEPT !.saving = FALSE] ELSE shown
    /\ UNCHANGED <<editorState, timer, loads, edited>>

SaveLands(s) ==
    /\ saves[s] # Nothing /\ SaveSettles(s)
    /\ LET saved == saves[s].of
       IN /\ repository' = [repository EXCEPT ![saved.id] = saved.edits]
          /\ disturbed' = IF repository[saved.id] \subseteq saved.edits
                          THEN disturbed ELSE disturbed \union {saved.id}
    /\ UNCHANGED editorCalls

SaveFails(s) ==
    /\ saves[s] # Nothing /\ SaveSettles(s) /\ MayFail /\ CountFailure
    /\ disturbed' = disturbed \union {saves[s].of.id}
    /\ UNCHANGED repository

EditorNext ==
    \/ \E s \in LoadSlots :
         \/ \E d \in Definitions : LoadDefinition(s, d)
         \/ ReadDefinition(s) \/ FindOrCreatePreviewAgent(s) \/ ShowDefinition(s) \/ LoadFails(s)
    \/ \E e \in Edits : UpdateDefinition(e)
    \/ \E s \in SaveSlots : SaveNow(s) \/ Autosave(s) \/ SaveLands(s) \/ SaveFails(s)

-----------------------------------------------------------------------------
(***************************************************************************)
(* When nothing is waiting, the stored definition holds every edit the     *)
(* user made to a field that is saved, and no other, unless a save failed, *)
(* two saves landed in the wrong order, another definition's edit took the *)
(* timer or a load put older content back; an edit of any other field is   *)
(* shown and never stored (updateDefinition, scheduleAutosave, saveNow).   *)
(***************************************************************************)
EditsAreSaved ==
    timer = Nothing /\ (\A s \in SaveSlots : saves[s] = Nothing)
        => \A d \in Definitions \ disturbed : repository[d] = edited[d] \intersect SavedEdits

(***************************************************************************)
(* With no call under way the listener was told of neither loading nor     *)
(* saving (loadDefinition, saveNow: an early return or a failure).         *)
(***************************************************************************)
EditorSettles ==
    /\ (\A s \in LoadSlots : loads[s] = Nothing) => ~shown.loading
    /\ (\A s \in SaveSlots : saves[s] = Nothing) => ~shown.saving
=============================================================================
