---------------------------- MODULE ChatComposer ----------------------------
(***************************************************************************)
(* The input side of the chat view: the attachment the host shows beside   *)
(* the composer and the reference a send reads it from, and the selector   *)
(* of the place where the agent runs, whose dialog asks before a running *)
(* turn is restarted elsewhere.  The host behind the adapter is external:  *)
(* it settles its calls in any order, and may fail them.                   *)
(***************************************************************************)
EXTENDS Naturals, FiniteSets

CONSTANTS
    Attachments,   \* files a user can pick
    Sends,         \* messages, each sent once
    Targets,       \* execution targets of which the first device is FirstTarget
    FirstTarget,
    MaxSwitches,   \* bound: calls of setExecutionTarget
    Empty

VARIABLES
    chosen,        \* selectedFile, which the host holds and shows
    attached,      \* attachmentsRef.current
    send,          \* send -> [state, file, shown], what it took and what was shown then
    busy,          \* adapter.isRunning
    active,        \* activeExecutionTargetId
    pendingTarget, \* the target the dialog asks about
    switching,
    switches,      \* calls under way: [to, restart, id]
    switchCount,
    refused        \* ghost: targets the user was last asked about and closed the dialog on

sendVars == <<chosen, attached, send>>
targetVars == <<busy, active, pendingTarget, switching, switches, switchCount, refused>>
composerVars == <<sendVars, targetVars>>

ComposerInit ==
    /\ chosen = Empty /\ attached = Empty
    /\ send = [s \in Sends |-> [state |-> "idle", file |-> Empty, shown |-> Empty]]
    /\ busy \in BOOLEAN /\ active = FirstTarget
    /\ pendingTarget = Empty /\ switching = FALSE /\ switches = {} /\ switchCount = 0
    /\ refused = {}

-----------------------------------------------------------------------------
(* Attachments *)

\* Mutant: the composer tells the reference of a new file only.
SyncNewFile == attached' = IF chosen' = Empty THEN attached ELSE chosen'

\* The effect of the composer, which runs after every rendering of the view.
SyncAttachments == attached' = chosen'

\* handleFileChange, and the removal of the chip.
SelectFile(f) == chosen' = f /\ SyncAttachments /\ UNCHANGED send
ClearFile == chosen # Empty /\ chosen' = Empty /\ SyncAttachments /\ UNCHANGED send

\* Anything else of the adapter that changes renders the view, and mounts a new composer.
Rerender == chosen' = chosen /\ SyncAttachments /\ UNCHANGED send

OnNew(s) ==
    /\ send[s].state = "idle"
    /\ send' = [send EXCEPT ![s] = [state |-> "sending", file |-> attached, shown |-> chosen]]
    /\ UNCHANGED <<chosen, attached>>

\* After a send that succeeded the reference is emptied, whatever it holds by now.
SendSucceeds(s) ==
    /\ send[s].state = "sending"
    /\ send' = [send EXCEPT ![s].state = "sent"] /\ attached' = Empty
    /\ UNCHANGED chosen

SendFails(s) ==
    /\ send[s].state = "sending"
    /\ send' = [send EXCEPT ![s].state = "failed"]
    /\ UNCHANGED <<chosen, attached>>

SendNext ==
    \/ \E f \in Attachments : SelectFile(f)
    \/ ClearFile \/ Rerender
    \/ \E s \in Sends : OnNew(s) \/ SendSucceeds(s) \/ SendFails(s)

-----------------------------------------------------------------------------
(* The execution target *)

OnChange(t, restart) ==
    /\ switchCount < MaxSwitches /\ switchCount' = switchCount + 1
    /\ switches' = switches \union {[to |-> t, restart |-> restart, id |-> switchCount]}

\* A turn that runs is not taken elsewhere without a question.
RequestChange(t) ==
    /\ t # active
    /\ IF busy THEN pendingTarget' = t /\ UNCHANGED <<switches, switchCount>>
                  ELSE OnChange(t, FALSE) /\ UNCHANGED pendingTarget
    /\ refused' = refused \ {t}
    /\ UNCHANGED <<busy, active, switching>>

\* Mutant: the button stays enabled while its call is under way.
ConfirmAgain ==
    /\ pendingTarget # Empty
    /\ OnChange(pendingTarget, TRUE) /\ switching' = TRUE
    /\ UNCHANGED <<busy, active, pendingTarget, refused>>

\* "Stop and restart": also when the turn has ended meanwhile.
ConfirmRestart ==
    /\ pendingTarget # Empty /\ ~switching
    /\ OnChange(pendingTarget, TRUE) /\ switching' = TRUE
    /\ UNCHANGED <<busy, active, pendingTarget, refused>>

\* "Keep running" is disabled while a call is under way; closing the dialog is not.
DismissDialog ==
    /\ pendingTarget # Empty /\ pendingTarget' = Empty
    /\ refused' = IF switching THEN refused ELSE refused \union {pendingTarget}
    /\ UNCHANGED <<busy, active, switching, switches, switchCount>>

\* The host has switched, and with a restart replays the turn.  The confirmation closes the
\* dialog, also one that asks about another target by now.
SwitchSucceeds ==
    \E c \in switches :
      /\ switches' = switches \ {c} /\ active' = c.to
      /\ busy' = (busy \/ c.restart)
      /\ IF c.restart THEN pendingTarget' = Empty /\ switching' = FALSE
                      ELSE UNCHANGED <<pendingTarget, switching>>
      /\ UNCHANGED <<switchCount, refused>>

\* A confirmation that fails leaves the dialog open.
SwitchFails ==
    \E c \in switches :
      /\ switches' = switches \ {c}
      /\ switching' = IF c.restart THEN FALSE ELSE switching
      /\ UNCHANGED <<busy, active, pendingTarget, switchCount, refused>>

\* The host's turns start and end by themselves.
TurnChanges ==
    /\ busy' = ~busy
    /\ UNCHANGED <<active, pendingTarget, switching, switches, switchCount, refused>>

TargetNext ==
    \/ \E t \in Targets : RequestChange(t)
    \/ ConfirmRestart \/ DismissDialog \/ SwitchSucceeds \/ SwitchFails \/ TurnChanges

\* The host settles the calls it was given.
ComposerFairness == WF_targetVars(SwitchSucceeds \/ SwitchFails)

-----------------------------------------------------------------------------
(***************************************************************************)
(* A message takes along the file that is shown when it is sent, or none:  *)
(* none only if a send was confirmed since, which also means that two      *)
(* messages sent before either is confirmed carry the same file            *)
(* (useMemeLoopRuntime, MemeLoopComposer).                                 *)
(***************************************************************************)
AttachmentsAreShown ==
    /\ attached \in {chosen, Empty}
    /\ \A s \in Sends :
         /\ send[s].file \in {send[s].shown, Empty}
         /\ send[s].file # send[s].shown => \E o \in Sends \ {s} : send[o].state = "sent"

(***************************************************************************)
(* A running turn is restarted elsewhere by one call at a time, never at a *)
(* target whose question was declined, and the buttons of the dialog are   *)
(* locked exactly while that call is under way (ExecutionTargetSelector).  *)
(***************************************************************************)
RestartsAreAsked ==
    LET restarts == {c \in switches : c.restart}
    IN  /\ Cardinality(restarts) <= 1
        /\ switching = (restarts # {})
        /\ \A c \in restarts : c.to \notin refused

(***************************************************************************)
(* The dialog does not stay locked.                                        *)
(***************************************************************************)
DialogUnlocks == []<>~switching
=============================================================================
