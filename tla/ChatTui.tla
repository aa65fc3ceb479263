------------------------------ MODULE ChatTui ------------------------------
(***************************************************************************)
(* The chat program of the command line: its launch with a configuration   *)
(* that may lack a provider, the session it resumes, print mode, and the   *)
(* messages a person types.  The screen is the state of a React reducer;   *)
(* the handlers write through a dispatcher that keeps a list of its own,   *)
(* and that reaches the reducer only after setDispatch, which no part of   *)
(* the program calls.  The agent behind runAgent is an input.              *)
(***************************************************************************)
EXTENDS Naturals, Sequences, SequencesExt

CONSTANTS
    MaxSteps,     \* bound: steps of the agent
    MaxQuestions,     \* bound: times the missing provider is asked about
    Saved         \* messages of the newest stored session

VARIABLES
    launch,       \* "init", "noProvider", "config", "resume", "chat", "print", "left" or "gone"
    provider,     \* "named", "missing", "none" or "placeholder"
    asked,        \* times the missing provider was asked about
    screen,       \* [messages, thinking] of the reducer
    kept,         \* _messages of the dispatcher
    turn,         \* where handleUserMessage is
    produced,     \* the texts the agent produced
    response,     \* responseContent, or what print mode wrote
    said          \* "no", "text", "command" or "exit": what was submitted

tuiVars == <<launch, provider, asked, screen, kept, turn, produced, response, said>>
chatState == <<screen, kept, turn, produced, response, said>>

EmptyScreen == [messages |-> <<>>, thinking |-> FALSE]

TuiInit ==
    /\ launch \in {"init", "print"}
    /\ provider \in {"named", "missing", "none"}
    /\ asked = 0 /\ screen = EmptyScreen /\ kept = <<>>
    /\ turn = "idle" /\ produced = <<>> /\ response = <<>> /\ said = "no"

-----------------------------------------------------------------------------
(* Launch *)

\* initRuntime: only a provider that is named but not there is asked about.
CreateRuntime ==
    /\ launch = "init"
    /\ launch' = IF provider = "missing" THEN "noProvider" ELSE "resume"
    /\ UNCHANGED <<provider, asked, chatState>>

\* Another failure is swallowed by the hook, and without a runtime the program ends.
LaunchFails ==
    /\ launch = "init" /\ launch' = "gone"
    /\ UNCHANGED <<provider, asked, chatState>>

\* askProviderNotFound: the configuration program, or a provider that always fails.
AnswerNoProvider ==
    /\ launch = "noProvider" /\ asked < MaxQuestions /\ asked' = asked + 1
    /\ \/ launch' = "config" /\ UNCHANGED provider
       \/ launch' = "resume" /\ provider' = "placeholder"
    /\ UNCHANGED chatState

\* Whether the configuration program ended well or not, the launch tries again, with the
\* options it was started with.
Configured ==
    /\ launch = "config" /\ launch' = "init"
    /\ provider' \in {"missing", "named"}
    /\ UNCHANGED <<asked, chatState>>

\* --continue and --resume: what is read is shown, and not continued.
ResumeSession ==
    /\ launch = "resume" /\ launch' = "chat"
    /\ \E found \in BOOLEAN, newest \in BOOLEAN :
         screen' = [screen EXCEPT !.messages =
                      (IF newest THEN <<"resuming">> ELSE <<>>)
                      \o (IF found THEN Saved ELSE <<>>)]
    /\ UNCHANGED <<provider, asked, kept, turn, produced, response, said>>

-----------------------------------------------------------------------------
(* The dispatcher *)

\* _dispatch is null for good: nothing the handlers dispatch reaches the screen.
Connected == FALSE

Dispatched(new) == screen' = IF Connected THEN new ELSE screen

AddMessage(m, thinking) ==
    /\ kept' = Append(kept, m)
    /\ Dispatched([screen EXCEPT !.messages = Append(@, m), !.thinking = thinking])

-----------------------------------------------------------------------------
(* A message *)

\* handleSubmit; the prompt takes nothing while it is thinking.
SubmitMessage(what) ==
    /\ launch = "chat" /\ ~screen.thinking
    /\ screen' = [screen EXCEPT !.messages = Append(@, "user"), !.thinking = TRUE]
    /\ turn' = "hooks" /\ said' = what /\ response' = <<>> /\ produced' = <<>>
    /\ UNCHANGED <<launch, provider, asked, kept>>

\* handleSlashCommand: whatever a command returns becomes messages; a lone slash and a text go
\* on to the agent.
RunCommand ==
    /\ turn = "hooks"
    /\ \/ said = "exit" /\ launch' = "gone" /\ turn' = "handled" /\ UNCHANGED <<kept, screen>>
       \/ /\ said = "command" /\ AddMessage("system", screen.thinking)
          /\ turn' = "handled" /\ UNCHANGED launch
       \/ said = "text" /\ turn' = "provider" /\ UNCHANGED <<kept, screen, launch>>
    /\ UNCHANGED <<provider, asked, produced, response, said>>

\* hasValidProvider, then a conversation of its own for the message and its runner.
CheckProvider ==
    /\ turn = "provider"
    /\ \/ /\ provider \in {"none", "placeholder"} /\ AddMessage("error", FALSE) /\ turn' = "handled"
       \/ provider = "named" /\ turn' = "running" /\ UNCHANGED <<kept, screen>>
       \/ provider = "named" /\ AddMessage("error", FALSE) /\ turn' = "handled"
    /\ UNCHANGED <<launch, provider, asked, produced, response, said>>

Live == turn = "running" /\ launch # "gone" /\ Len(produced) < MaxSteps

\* Mutant: each text replaces the one before.
LastText ==
    /\ Live
    /\ produced' = Append(produced, Len(produced) + 1)
    /\ response' = <<Len(produced) + 1>>
    /\ UNCHANGED <<launch, provider, asked, screen, kept, turn, said>>

MessageStep ==
    /\ Live
    /\ produced' = Append(produced, Len(produced) + 1)
    /\ response' = Append(response, Len(produced) + 1)
    /\ UNCHANGED <<launch, provider, asked, screen, kept, turn, said>>

ToolStep ==
    /\ Live /\ launch # "print" /\ Len(kept) < MaxSteps
    /\ AddMessage("tool", screen.thinking)
    /\ UNCHANGED <<launch, provider, asked, turn, produced, response, said>>

\* waitForPermission: the dialog would open through the dispatcher, so that nobody answers.
PermissionStep ==
    /\ Live /\ launch # "print"
    /\ turn' = "waiting"
    /\ UNCHANGED <<launch, provider, asked, screen, kept, produced, response, said>>

\* afterAgentRun: one message with the whole response.
AgentEnds ==
    /\ turn = "running" /\ launch \in {"chat", "left"}
    /\ AddMessage("assistant", FALSE) /\ turn' = "answered"
    /\ UNCHANGED <<launch, provider, asked, produced, response, said>>

AgentFails ==
    /\ turn = "running" /\ launch \in {"chat", "left"}
    /\ AddMessage("error", FALSE) /\ turn' = "failed"
    /\ UNCHANGED <<launch, provider, asked, produced, response, said>>

\* Control-C closes the screen; a turn that runs goes on.
LeaveChat ==
    /\ launch = "chat" /\ launch' = "left"
    /\ UNCHANGED <<provider, asked, chatState>>

-----------------------------------------------------------------------------
(* Print mode *)

\* The prompt is an option or the standard input; without one the program fails.
StartPrint ==
    /\ launch = "print" /\ turn = "idle"
    /\ \/ provider # "missing" /\ turn' = "running" /\ said' = "text" /\ UNCHANGED launch
       \/ launch' = "gone" /\ UNCHANGED <<turn, said>>
    /\ UNCHANGED <<provider, asked, screen, kept, produced, response>>

\* An error of the agent is swallowed by the hook like a missing provider.
PrintEnds ==
    /\ launch = "print" /\ turn = "running"
    /\ launch' = "gone" /\ turn' \in {"answered", "failed"}
    /\ UNCHANGED <<provider, asked, screen, kept, produced, response, said>>

TurnStep ==
    \/ RunCommand \/ CheckProvider \/ MessageStep \/ ToolStep \/ PermissionStep
    \/ AgentEnds \/ AgentFails \/ StartPrint \/ PrintEnds

TuiNext ==
    \/ CreateRuntime \/ LaunchFails \/ AnswerNoProvider \/ Configured \/ ResumeSession
    \/ \E what \in {"text", "command", "exit"} : SubmitMessage(what)
    \/ TurnStep \/ LeaveChat

\* The agent goes on.
TuiFairness == WF_tuiVars(TurnStep)

-----------------------------------------------------------------------------
(***************************************************************************)
(* The response of a turn is every text the agent produced, once and in    *)
(* order; a turn that ended has left one closing entry in the dispatcher's *)
(* list, after those of its tools (handleAgentStep, runPrintMode).         *)
(***************************************************************************)
ReplyIsWhole ==
    /\ response = produced /\ \A i \in DOMAIN response : response[i] = i
    /\ turn = "answered" /\ said = "text" /\ kept # <<>> =>
         Last(kept) = "assistant" /\ \A i \in 1 .. (Len(kept) - 1) : kept[i] = "tool"
    /\ turn = "failed" /\ kept # <<>> => Last(kept) = "error"

(***************************************************************************)
(* A message that is submitted is dealt with, unless its agent asks for a  *)
(* permission.                                                             *)
(***************************************************************************)
MessagesAreHandled ==
    turn = "hooks" ~> turn \in {"handled", "answered", "failed", "waiting"} \/ launch = "gone"
=============================================================================
