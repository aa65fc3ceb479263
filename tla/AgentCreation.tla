---------------------------- MODULE AgentCreation ----------------------------
(***************************************************************************)
(* The wizard that creates an agent (AgentCreationController) and the      *)
(* dialog that previews its prompt (PromptPreviewController).  A           *)
(* definition is the set of the user's changes it holds.  Every call       *)
(* answers later, or fails; nothing keeps the user from calling again.     *)
(* An answer is merged into the state as it is by then.                    *)
(***************************************************************************)
EXTENDS Naturals, FiniteSets

CONSTANTS
    Stored,             \* changes of the temporary definition a tab restores
    Changes,            \* changes the user makes in the wizard
    WizardCalls,        \* bound: calls, by name
    Generations,        \* bound: previews generated, by name
    Absent

ASSUME CreationAssumption ==
    /\ Absent \notin WizardCalls
    /\ Absent \notin [op : {"start", "preview", "finalize", "cleanup"},
                      phase : {"called", "template", "stored", "deleted", "ended"},
                      with : (SUBSET (Stored \union Changes)) \union WizardCalls \union {Absent}]

VARIABLES
    wizard,     \* [step, temporary, template, preview, loading]
    calls,      \* call -> [op |->, phase |->, with |->], Absent before it is made
    agents,     \* agents that exist: [call |-> who created it, of |-> content]
    created,    \* definitions the wizard stored, by the call that did
    clicked,    \* ghost: finalize call -> the definition shown at the click
    leaked,     \* ghost: previews no longer remembered
    dialog,     \* [open, loading, result]
    generating, \* generations under way
    generated   \* generations that were started

wizardVars == <<wizard, calls, agents, created, clicked, leaked, dialog, generating, generated>>
dialogVars == <<dialog, generating, generated>>

CreationInit ==
    /\ wizard = [step |-> 0, temporary |-> Absent, template |-> FALSE, preview |-> Absent,
                 loading |-> FALSE]
    /\ calls = [c \in WizardCalls |-> Absent]
    /\ agents = {} /\ created = {} /\ clicked = {} /\ leaked = {}
    /\ dialog = [open |-> FALSE, loading |-> FALSE, result |-> Absent]
    /\ generating = {} /\ generated = {}

-----------------------------------------------------------------------------
(* The wizard *)

Call(c, op, with) ==
    /\ calls[c] = Absent
    /\ calls' = [calls EXCEPT ![c] = [op |-> op, phase |-> "called", with |-> with]]

Answer(c, op, phase) == calls[c] # Absent /\ calls[c].op = op /\ calls[c].phase = phase
GoOn(c, phase) == calls' = [calls EXCEPT ![c].phase = phase]
End(c) == GoOn(c, "ended")

\* start with a saved tab: its definition, then its template if it has one.
StartWizard(c) ==
    /\ Call(c, "start", Absent)
    /\ wizard' = [wizard EXCEPT !.loading = TRUE]
    /\ UNCHANGED <<agents, created, clicked, leaked, dialogVars>>

Restored(c) ==
    /\ Answer(c, "start", "called")
    /\ \/ /\ wizard' = [wizard EXCEPT !.temporary = Stored, !.loading = FALSE]
          /\ GoOn(c, "template")
       \/ wizard' = [wizard EXCEPT !.loading = FALSE] /\ End(c)
    /\ UNCHANGED <<agents, created, clicked, leaked, dialogVars>>

TemplateLoaded(c) ==
    /\ Answer(c, "start", "template") /\ End(c)
    /\ wizard' \in {wizard, [wizard EXCEPT !.template = TRUE], [wizard EXCEPT !.loading = FALSE]}
    /\ UNCHANGED <<agents, created, clicked, leaked, dialogVars>>

\* nextStep, previousStep and setStep stay within the three steps.
GoToStep ==
    /\ wizard' \in {[wizard EXCEPT !.step = s] :
                      s \in {IF wizard.step < 2 THEN wizard.step + 1 ELSE 2,
                             IF wizard.step > 0 THEN wizard.step - 1 ELSE 0}}
    /\ UNCHANGED <<calls, agents, created, clicked, leaked, dialogVars>>

SelectTemplate ==
    /\ wizard' = [wizard EXCEPT !.template = TRUE]
    /\ UNCHANGED <<calls, agents, created, clicked, leaked, dialogVars>>

UpdateTemporaryDefinition(e) ==
    /\ wizard.temporary # Absent
    /\ wizard' = [wizard EXCEPT !.temporary = @ \union {e}]
    /\ UNCHANGED <<calls, agents, created, clicked, leaked, dialogVars>>

CreatePreviewAgent(c) ==
    /\ Call(c, "preview", Absent)
    /\ wizard' = [wizard EXCEPT !.loading = TRUE]
    /\ UNCHANGED <<agents, created, clicked, leaked, dialogVars>>

PreviewCreated(c) ==
    /\ Answer(c, "preview", "called") /\ End(c)
    /\ \/ /\ agents' = agents \union {[call |-> c, of |-> Absent]}
          /\ leaked' = IF wizard.preview = Absent THEN leaked ELSE leaked \union {wizard.preview}
          /\ wizard' = [wizard EXCEPT !.preview = c, !.loading = FALSE]
       \/ /\ wizard' = [wizard EXCEPT !.loading = FALSE] /\ UNCHANGED <<agents, leaked>>
    /\ UNCHANGED <<created, clicked, dialogVars>>

\* finalize stores the definition, then creates the agent; either call may fail.
Finalize(c) ==
    /\ wizard.temporary # Absent
    /\ Call(c, "finalize", wizard.temporary)
    /\ clicked' = clicked \union {<<c, wizard.temporary>>}
    /\ UNCHANGED <<wizard, agents, created, leaked, dialogVars>>

\* Mutant: what the wizard shows by now is stored.
LatestStored(c) ==
    /\ Answer(c, "finalize", "called")
    /\ created' = created \union {<<c, wizard.temporary>>} /\ GoOn(c, "stored")
    /\ UNCHANGED <<wizard, agents, clicked, leaked, dialogVars>>

DefinitionStored(c) ==
    /\ Answer(c, "finalize", "called")
    /\ \/ /\ created' = created \union {<<c, calls[c].with>>} /\ GoOn(c, "stored")
       \/ End(c) /\ UNCHANGED created
    /\ UNCHANGED <<wizard, agents, clicked, leaked, dialogVars>>

AgentCreated(c) ==
    /\ Answer(c, "finalize", "stored") /\ End(c)
    /\ agents' \in {agents, agents \union {[call |-> c, of |-> d[2]] :
                                             d \in {x \in created : x[1] = c}}}
    /\ UNCHANGED <<wizard, created, clicked, leaked, dialogVars>>

\* cleanup deletes the preview it sees, or fails; the wizard goes on remembering it.
Cleanup(c) ==
    /\ wizard.preview # Absent /\ Call(c, "cleanup", wizard.preview)
    /\ UNCHANGED <<wizard, agents, created, clicked, leaked, dialogVars>>

CleanedUp(c) ==
    /\ Answer(c, "cleanup", "called")
    /\ \/ /\ agents' = {a \in agents : a.call # calls[c].with} /\ GoOn(c, "deleted")
       \/ End(c) /\ UNCHANGED agents
    /\ UNCHANGED <<wizard, created, clicked, leaked, dialogVars>>

-----------------------------------------------------------------------------
(* The preview dialog *)

wizardOnly == <<wizard, calls, agents, created, clicked, leaked>>

OpenDialog ==
    /\ dialog' = [open |-> TRUE, loading |-> FALSE, result |-> Absent]
    /\ UNCHANGED <<wizardOnly, generating, generated>>

CloseDialog ==
    /\ dialog.open /\ dialog' = [dialog EXCEPT !.open = FALSE]
    /\ UNCHANGED <<wizardOnly, generating, generated>>

Generate(g) ==
    /\ g \notin generated
    /\ generating' = generating \union {g} /\ generated' = generated \union {g}
    /\ dialog' = [dialog EXCEPT !.loading = TRUE]
    /\ UNCHANGED wizardOnly

\* The result, or the failure, is shown whichever dialog is open by then.
GenerateEnds(g) ==
    /\ g \in generating
    /\ generating' = generating \ {g}
    /\ dialog' \in {[dialog EXCEPT !.loading = FALSE, !.result = r] : r \in {g, Absent}}
    /\ UNCHANGED <<wizardOnly, generated>>

CreationNext ==
    \/ \E c \in WizardCalls :
         \/ StartWizard(c) \/ Restored(c) \/ TemplateLoaded(c)
         \/ CreatePreviewAgent(c) \/ PreviewCreated(c)
         \/ Finalize(c) \/ DefinitionStored(c) \/ AgentCreated(c)
         \/ Cleanup(c) \/ CleanedUp(c)
    \/ GoToStep \/ SelectTemplate
    \/ \E e \in Changes : UpdateTemporaryDefinition(e)

DialogNext ==
    \/ OpenDialog \/ CloseDialog
    \/ \E g \in Generations : Generate(g) \/ GenerateEnds(g)

-----------------------------------------------------------------------------
(***************************************************************************)
(* An agent the wizard finalizes is one of the definition that was shown   *)
(* when finalize was called, whatever the user changed while the           *)
(* definition was being stored; and the only previews that exist are the   *)
(* one that is remembered and those a later preview displaced              *)
(* (AgentCreationController finalize, createPreviewAgent, cleanup).        *)
(***************************************************************************)
AgentsAreAccountedFor ==
    \A a \in agents :
        \/ calls[a.call].op = "finalize" /\ <<a.call, a.of>> \in clicked
        \/ a.call = wizard.preview \/ a.call \in leaked

(***************************************************************************)
(* With no call of theirs under way neither the wizard nor the dialog      *)
(* shows that it is loading, whatever was opened, closed or called again   *)
(* in the meantime (start, createPreviewAgent, open, generate).            *)
(***************************************************************************)
CreationSettles ==
    /\ (\A c \in WizardCalls : calls[c] = Absent \/ calls[c].phase \in {"ended", "deleted"})
         => ~wizard.loading
    /\ generating = {} => ~dialog.loading
=============================================================================
