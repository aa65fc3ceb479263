---------------------------- MODULE RemoteCalls ----------------------------
(***************************************************************************)
(* Calls from one device to the agents of another: a request written to a  *)
(* stream of its own, the serving device's checks and its handler          *)
(* (createAgentRuntimeDeviceRpcHandler over the runtime), and the answer   *)
(* the caller reads.  Either side reads the first chunk of the stream and  *)
(* takes it for the whole message, so one that arrives in two is refused.  *)
(* The connection may be lost at any time; the handler then goes on.       *)
(***************************************************************************)
EXTENDS Naturals, FiniteSets

CONSTANTS
    Requests,        \* calls, by the id of their request
    Conversations,   \* conversations of the serving device
    KnownProfiles,   \* definitions it has a loop for
    OtherProfiles,   \* definitions it has none for
    NoRow

ASSUME CallsAssumption == NoRow \notin Requests \union {"stub"}

VARIABLES
    sent,        \* request -> [method, conv, def, described, whole], NoRow before
    caller,      \* request -> "idle", "waiting", "result" or "error"
    serving,     \* request -> what the serving device does for it
    answer,      \* request -> NoRow or [id, ok, whole]
    convRows,    \* conversation -> NoRow, "stub" or the request that described it
    turns,       \* turns that were started: <<request, conversation, definition>>
    appended,    \* requests whose message was stored without a turn
    stopped,     \* conversations in the cancellation set
    overtaken    \* ghost: conversations whose check missed a row

callVars == <<sent, caller, serving, answer, convRows, turns, appended, stopped, overtaken>>
device == <<convRows, turns, appended, stopped, overtaken>>

Methods == {"runTurn", "cancel", "pull", "other"}
Profiles == KnownProfiles \union OtherProfiles

CallsInit ==
    /\ sent = [c \in Requests |-> NoRow] /\ caller = [c \in Requests |-> "idle"]
    /\ serving = [c \in Requests |-> "none"] /\ answer = [c \in Requests |-> NoRow]
    /\ convRows = [v \in Conversations |-> NoRow]
    /\ turns = {} /\ appended = {} /\ stopped = {} /\ overtaken = {}

-----------------------------------------------------------------------------
(* The caller *)

\* The request is written and the caller's side of the stream is closed.
SendRpc(c) ==
    /\ caller[c] = "idle"
    /\ \E m \in Methods, v \in Conversations, d \in Profiles, described, whole \in BOOLEAN :
         /\ m # "runTurn" => ~described /\ d \in KnownProfiles
         /\ sent' = [sent EXCEPT ![c] = [method |-> m, conv |-> v, def |-> d,
                                         described |-> described, whole |-> whole]]
    /\ caller' = [caller EXCEPT ![c] = "waiting"]
    /\ UNCHANGED <<serving, answer, device>>

\* readJsonMessage, readStreamJson: one chunk is read.
Readable(message) == message.whole

\* An answer to another id, without success or in parts is an error to the caller.
ReadResponse(c) ==
    /\ caller[c] = "waiting" /\ answer[c] # NoRow
    /\ caller' = [caller EXCEPT ![c] =
                    IF Readable(answer[c]) /\ answer[c].id = c /\ answer[c].ok THEN "result" ELSE "error"]
    /\ UNCHANGED <<sent, serving, answer, device>>

\* The stream ends or is reset before the answer.
ConnectionLost(c) ==
    /\ caller[c] = "waiting"
    /\ caller' = [caller EXCEPT ![c] = "error"]
    /\ UNCHANGED <<sent, serving, answer, device>>

-----------------------------------------------------------------------------
(* The serving device *)

Go(c, where) == serving' = [serving EXCEPT ![c] = where]

WriteAnswer(c, id, ok) ==
    /\ \E whole \in BOOLEAN :
         answer' = [answer EXCEPT ![c] = [id |-> id, ok |-> ok, whole |-> ok => whole]]
    /\ Go(c, "closed")

\* Where the handler of a method begins; parameters are checked on the way.
Entry(r) ==
    CASE r.method = "runTurn" -> IF r.described THEN "describe" ELSE "check"
      [] r.method = "cancel"  -> "cancel"
      [] r.method = "pull"    -> "done"

\* handleRpcStream: what cannot be read is answered under no id; then the device is asked
\* whether it trusts the caller, and an unknown method or bad parameters fail.
HandleRpcStream(c) ==
    /\ serving[c] = "none" /\ sent[c] # NoRow
    /\ IF ~Readable(sent[c])
       THEN WriteAnswer(c, "unknown", FALSE)
       ELSE \/ WriteAnswer(c, c, FALSE)
            \/ sent[c].method # "other" /\ Go(c, Entry(sent[c])) /\ UNCHANGED answer
    /\ UNCHANGED <<sent, caller, device>>

\* upsertConversationForRemoteTurn, when the caller sent a description.
DescribeConversation(c) ==
    /\ serving[c] = "describe"
    /\ convRows' = [convRows EXCEPT ![sent[c].conv] = c]
    /\ overtaken' = IF \E o \in Requests : serving[o] = "stub" /\ sent[o].conv = sent[c].conv
                    THEN overtaken \union {sent[c].conv} ELSE overtaken
    /\ Go(c, "send")
    /\ UNCHANGED <<sent, caller, answer, turns, appended, stopped>>

\* Mutant: a row that is there is replaced as well.
CheckNothing(c) ==
    /\ serving[c] = "check"
    /\ Go(c, "stub")
    /\ UNCHANGED <<sent, caller, answer, device>>

\* Without one it looks for the row; a read that fails finds none.
CheckConversation(c) ==
    /\ serving[c] = "check"
    /\ \/ convRows[sent[c].conv] # NoRow /\ Go(c, "send") /\ UNCHANGED overtaken
       \/ /\ Go(c, "stub")
          /\ overtaken' = IF convRows[sent[c].conv] # NoRow THEN overtaken \union {sent[c].conv}
                          ELSE overtaken
    /\ UNCHANGED <<sent, caller, answer, convRows, turns, appended, stopped>>

StubConversation(c) ==
    /\ serving[c] = "stub"
    /\ convRows' = [convRows EXCEPT ![sent[c].conv] = "stub"]
    /\ Go(c, "send")
    /\ UNCHANGED <<sent, caller, answer, turns, appended, stopped, overtaken>>

\* runtime.sendMessage: a new message takes back a cancellation; without a loop for the
\* definition the message is only stored.
SendMessage(c) ==
    /\ serving[c] = "send"
    /\ stopped' = stopped \ {sent[c].conv}
    /\ IF sent[c].def \in KnownProfiles
       THEN /\ turns' = turns \union {<<c, sent[c].conv, sent[c].def>>}
            /\ UNCHANGED appended
       ELSE appended' = appended \union {c} /\ UNCHANGED turns
    /\ Go(c, "done")
    /\ UNCHANGED <<sent, caller, answer, convRows, overtaken>>

CancelAgent(c) ==
    /\ serving[c] = "cancel"
    /\ stopped' = stopped \union {sent[c].conv}
    /\ Go(c, "done")
    /\ UNCHANGED <<sent, caller, answer, convRows, turns, appended, overtaken>>

\* Mutant: a call that failed is answered like one that did not.
FailQuietly(c) ==
    /\ serving[c] \in {"describe", "stub", "send"}
    /\ WriteAnswer(c, c, TRUE)
    /\ UNCHANGED <<sent, caller, device>>

\* A read or write of the store fails: whatever was done before stays.
HandlerFails(c) ==
    /\ serving[c] \in {"describe", "stub", "send"}
    /\ WriteAnswer(c, c, FALSE)
    /\ UNCHANGED <<sent, caller, device>>

\* The result, or an error when it is too large for one message.
HandlerEnds(c) ==
    /\ serving[c] = "done"
    /\ \E fits \in BOOLEAN : WriteAnswer(c, c, fits)
    /\ UNCHANGED <<sent, caller, device>>

ServeNext(c) ==
    \/ HandleRpcStream(c) \/ DescribeConversation(c) \/ CheckConversation(c) \/ StubConversation(c)
    \/ SendMessage(c) \/ CancelAgent(c) \/ HandlerFails(c) \/ HandlerEnds(c)

CallsNext == \E c \in Requests : SendRpc(c) \/ ReadResponse(c) \/ ConnectionLost(c) \/ ServeNext(c)

\* Streams deliver or break, and handlers go on.
CallsFairness ==
    \A c \in Requests : WF_callVars(ReadResponse(c)) /\ WF_callVars(ServeNext(c))

-----------------------------------------------------------------------------
(***************************************************************************)
(* A caller that gets a result can rely on it: its turn was started, under *)
(* the definition it named, or its message stored, once; its cancellation  *)
(* was recorded unless a later message took it back.  A call that was      *)
(* refused, unreadable or of an unknown method has done nothing; of one    *)
(* that failed otherwise the caller cannot know (handleRpcStream, runTurn).*)
(***************************************************************************)
ResultsAreTrue ==
    \A c \in Requests :
        /\ caller[c] = "result" /\ sent[c].method = "runTurn" =>
             (<<c, sent[c].conv, sent[c].def>> \in turns) # (c \in appended)
        /\ caller[c] = "result" /\ sent[c].method = "cancel" =>
             \/ sent[c].conv \in stopped
             \/ \E t \in turns : t[2] = sent[c].conv
             \/ \E a \in appended : sent[a].conv = sent[c].conv
        /\ \A t \in turns : t[1] = c => sent[c].whole /\ sent[c].method = "runTurn"
        /\ answer[c] # NoRow /\ answer[c].id # c =>
             c \notin appended /\ \A t \in turns : t[1] # c

(***************************************************************************)
(* A conversation a caller described keeps that description when others    *)
(* send turns without one, unless a check of it failed or was overtaken by *)
(* the description; and every turn has a conversation row                  *)
(* (upsertConversationForRemoteTurn).                                      *)
(***************************************************************************)
DescriptionsStay ==
    /\ \A v \in Conversations \ overtaken :
         (\E t \in turns : t[2] = v /\ sent[t[1]].described) => convRows[v] \in Requests
    /\ \A t \in turns : convRows[t[2]] # NoRow

(***************************************************************************)
(* Every call returns, with a result or with an error.                     *)
(***************************************************************************)
CallsReturn == \A c \in Requests : []<>(caller[c] # "waiting")
=============================================================================
