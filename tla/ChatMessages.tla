---------------------------- MODULE ChatMessages ----------------------------
(***************************************************************************)
(* The output side of the chat views, web and native: which turn the       *)
(* actions below a message work on, the panel that asks the details of a  *)
(* message, and the question of an agent that is answered inside its       *)
(* message.  The host behind the adapter is external.                      *)
(***************************************************************************)
EXTENDS Naturals, Sequences, SequencesExt, FiniteSets

CONSTANTS
    MaxMessages,   \* bound: messages of the conversation
    MaxAsks,      \* bound: requests for details
    MaxDetail,     \* bound: versions of the details
    Options,       \* options of the question
    MaxMounts      \* bound: times the question is shown again

VARIABLES
    chatLog,       \* adapter.messages: [id, role]
    nextId,
    turnCall,      \* the last call of retryTurn or deleteTurn
    detailNow,     \* the version of the details the host would load
    panel,         \* [view, detail, error] of the web panel; version 0 is none
    asks,         \* requests under way: [by, asked, id]
    askCount,
    nativeDetail,  \* details[messageId] of the native view
    question,      \* [kind, agent, freeform], fixed
    asking,        \* [answered, checked, typed] of the mounted component
    stored,        \* askQuestionAnswered of the stored message
    updating,      \* an updateMessage is under way
    resolved,      \* answers given to resolveAskQuestion
    mounts,
    forgotten      \* ghost: mounts that found an answered question unanswered

logVars == <<chatLog, nextId, turnCall>>
detailVars == <<detailNow, panel, asks, askCount, nativeDetail>>
questionVars == <<question, asking, stored, updating, resolved, mounts, forgotten>>
messageVars == <<logVars, detailVars, questionVars>>

Unanswered == [answered |-> FALSE, checked |-> {}, typed |-> FALSE]

MessagesInit ==
    /\ chatLog = <<>> /\ nextId = 1 /\ turnCall = <<>>
    /\ detailNow = 1 /\ panel = [view |-> "closed", detail |-> 0, error |-> FALSE]
    /\ asks = {} /\ askCount = 0 /\ nativeDetail = 0
    /\ question \in [kind : {"single-select", "multi-select", "text"}, agent : BOOLEAN,
                     freeform : BOOLEAN]
    /\ asking = Unanswered /\ stored = FALSE /\ updating = FALSE
    /\ resolved = <<>> /\ mounts = 0 /\ forgotten = 0

-----------------------------------------------------------------------------
(* Turns *)

\* The host's conversation grows, and loses turns that were deleted or synced away.
MessageArrives ==
    /\ nextId <= MaxMessages /\ nextId' = nextId + 1
    /\ \E r \in {"user", "assistant", "tool"} :
         chatLog' = Append(chatLog, [id |-> nextId, role |-> r])
    /\ UNCHANGED turnCall

MessageGoes ==
    /\ \E i \in DOMAIN chatLog : chatLog' = RemoveAt(chatLog, i)
    /\ UNCHANGED <<nextId, turnCall>>

Users == {i \in DOMAIN chatLog : chatLog[i].role = "user"}

\* Mutant: the turn of a message is the nearest one, be it the next.
NearestUser(i) ==
    IF \E j \in Users : j > i
    THEN {CHOOSE j \in Users : j > i /\ \A k \in Users : k > i => j <= k} ELSE {}

\* DefaultTurnActions: the last user message before it; without one there are no actions.
PrecedingUser(i) ==
    LET before == {j \in Users : j < i}
    IN  IF before = {} THEN {} ELSE {CHOOSE j \in before : \A k \in before : k <= j}

\* handleCopy: from the message up to the next message of the user.
CopyRange(i) ==
    LET after == {j \in Users : j > i}
        end == IF after = {} THEN Len(chatLog) + 1 ELSE CHOOSE j \in after : \A k \in after : j <= k
    IN  SubSeq(chatLog, i, end - 1)

\* findUserMessageId of the native view looks back one message at a time.
LookBack[i \in Nat] ==
    IF i = 0 THEN {} ELSE IF chatLog[i].role = "user" THEN {i} ELSE LookBack[i - 1]

TurnCall(what, i) == turnCall' = <<what, chatLog[i].id>>

\* Retry and Delete below an answer; copying changes nothing.
WebTurnAction(i, what) ==
    /\ chatLog[i].role = "assistant"
    /\ \E j \in PrecedingUser(i) : TurnCall(what, j)
    /\ UNCHANGED <<chatLog, nextId>>

\* A long press retries and a deletion deletes, on any message.
NativeTurnAction(i, what) ==
    /\ \E j \in LookBack[i] : TurnCall(what, j)
    /\ UNCHANGED <<chatLog, nextId>>

TurnsNext ==
    \/ MessageArrives \/ MessageGoes
    \/ \E i \in DOMAIN chatLog, what \in {"retry", "delete"} :
         WebTurnAction(i, what) \/ NativeTurnAction(i, what)

-----------------------------------------------------------------------------
(* Details *)

DetailChanges ==
    /\ detailNow < MaxDetail /\ detailNow' = detailNow + 1
    /\ UNCHANGED <<panel, asks, askCount, nativeDetail>>

Ask(by) ==
    /\ askCount < MaxAsks /\ askCount' = askCount + 1
    /\ asks' = asks \union {[by |-> by, asked |-> detailNow, id |-> askCount]}

\* The button of the panel: it loads once, and opens and closes what was loaded.
HandleLoad ==
    /\ ~\E l \in asks : l.by = "panel"
    /\ IF panel.detail # 0
       THEN /\ panel' = [panel EXCEPT !.view = IF @ = "open" THEN "closed" ELSE "open"]
            /\ UNCHANGED <<asks, askCount>>
       ELSE Ask("panel") /\ panel' = [panel EXCEPT !.error = FALSE]
    /\ UNCHANGED <<detailNow, nativeDetail>>

\* The native button asks again every time.
LoadNative ==
    /\ Ask("native")
    /\ UNCHANGED <<detailNow, panel, nativeDetail>>

\* The host answers with the details of some moment since it was asked.
DetailAnswered ==
    \E l \in asks, d \in 1 .. detailNow :
      /\ d >= l.asked /\ asks' = asks \ {l}
      /\ IF l.by = "panel"
         THEN panel' = [panel EXCEPT !.view = "open", !.detail = d] /\ UNCHANGED nativeDetail
         ELSE nativeDetail' = d /\ UNCHANGED panel
      /\ UNCHANGED <<detailNow, askCount>>

DetailFails ==
    \E l \in asks :
      /\ asks' = asks \ {l}
      /\ panel' = [panel EXCEPT !.error = @ \/ l.by = "panel"]
      /\ UNCHANGED <<detailNow, askCount, nativeDetail>>

DetailNext == DetailChanges \/ HandleLoad \/ LoadNative \/ DetailAnswered \/ DetailFails

-----------------------------------------------------------------------------
(* The question *)

\* Mutant: the answer is sent without marking the question.
AnswerUnmarked(answer) ==
    /\ resolved' = IF question.agent THEN Append(resolved, answer) ELSE resolved
    /\ updating' = TRUE
    /\ UNCHANGED <<question, asking, stored, mounts, forgotten>>

\* markAnswered and submitAnswer: without the identity of an agent nobody is told.
MarkAndSubmit(answer) ==
    /\ asking' = [asking EXCEPT !.answered = TRUE] /\ updating' = TRUE
    /\ resolved' = IF question.agent THEN Append(resolved, answer) ELSE resolved
    /\ UNCHANGED <<question, stored, mounts, forgotten>>

HandleOptionClick(o) ==
    /\ question.kind = "single-select" /\ ~asking.answered
    /\ MarkAndSubmit({o})

HandleToggleOption(o) ==
    /\ question.kind = "multi-select" /\ ~asking.answered
    /\ asking' = [asking EXCEPT !.checked = IF o \in @ THEN @ \ {o} ELSE @ \union {o}]
    /\ UNCHANGED <<question, stored, updating, resolved, mounts, forgotten>>

TypeAnswer ==
    /\ question.freeform \/ question.kind = "text"
    /\ ~asking.answered /\ asking' = [asking EXCEPT !.typed = ~@]
    /\ UNCHANGED <<question, stored, updating, resolved, mounts, forgotten>>

Typed == IF asking.typed THEN {"typed"} ELSE {}

HandleMultiSelectSubmit ==
    /\ question.kind = "multi-select" /\ ~asking.answered
    /\ asking.checked \union Typed # {}
    /\ MarkAndSubmit(asking.checked \union Typed)

HandleFreeformSubmit ==
    /\ question.kind # "multi-select" /\ ~asking.answered /\ asking.typed
    /\ MarkAndSubmit(Typed)

\* updateMessage settles: the mark is stored, or lost.
UpdateSettles ==
    /\ updating /\ updating' = FALSE
    /\ stored' \in {stored, TRUE}
    /\ UNCHANGED <<question, asking, resolved, mounts, forgotten>>

\* The message leaves the list and comes back with what is stored.
Remount ==
    /\ mounts < MaxMounts /\ mounts' = mounts + 1
    /\ asking' = [Unanswered EXCEPT !.answered = stored]
    /\ forgotten' = IF asking.answered /\ ~stored THEN forgotten + 1 ELSE forgotten
    /\ UNCHANGED <<question, stored, updating, resolved>>

QuestionNext ==
    \/ \E o \in Options : HandleOptionClick(o) \/ HandleToggleOption(o)
    \/ TypeAnswer \/ HandleMultiSelectSubmit \/ HandleFreeformSubmit \/ UpdateSettles \/ Remount

MessagesFairness == WF_detailVars(DetailAnswered \/ DetailFails)

-----------------------------------------------------------------------------
(***************************************************************************)
(* The web view and the native view find the same turn for a message, the  *)
(* one that is copied with it: nothing of the user lies between, and what  *)
(* is copied ends where the next turn begins (DefaultTurnActions,          *)
(* findUserMessageId).                                                     *)
(***************************************************************************)
TurnActionsAgree ==
    \A i \in DOMAIN chatLog \ Users :
      /\ PrecedingUser(i) = LookBack[i]
      /\ \A j \in PrecedingUser(i) : CopyRange(j + 1) = <<>> \/ i \in (j + 1) .. (j + Len(CopyRange(j + 1)))
      /\ \A k \in DOMAIN CopyRange(i) : PrecedingUser(i + k - 1) = PrecedingUser(i)

(***************************************************************************)
(* The panel asks for details one request at a time, and for none once it  *)
(* shows some; it does not show an error beside details.                   *)
(***************************************************************************)
PanelIsSound ==
    /\ Cardinality({l \in asks : l.by = "panel"}) <= 1
    /\ panel.detail # 0 => ~panel.error /\ \A l \in asks : l.by = "native"
    /\ panel.view = "open" => panel.detail # 0

(***************************************************************************)
(* A question is answered once, but for the times it was shown again       *)
(* before the mark was stored; and one that counts as answered has told    *)
(* the agent it knows of (AskQuestionContent).                             *)
(***************************************************************************)
QuestionAnsweredOnce ==
    /\ Len(resolved) <= 1 + forgotten
    /\ question.agent /\ (asking.answered \/ stored) => resolved # <<>>

(***************************************************************************)
(* The button of the panel comes back.                                     *)
(***************************************************************************)
PanelAnswers == []<>(\A l \in asks : l.by # "panel")
=============================================================================
