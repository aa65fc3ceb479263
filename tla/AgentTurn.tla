------------------------------ MODULE AgentTurn ------------------------------
(***************************************************************************)
(* The turns of one conversation: MemeLoopRuntime.sendMessage and          *)
(* cancelAgent, the agent-tool-loop a message starts, the gate every tool  *)
(* call passes and the runner that executes what the gate lets through.    *)
(*                                                                         *)
(* A turn is an async generator that nobody waits for, and nothing keeps   *)
(* two turns of a conversation apart: they share the message table and the *)
(* cancellation flag.  A step is what runs between two awaits.  The LLM,   *)
(* the tools, the hooks and the user who approves are the environment.     *)
(***************************************************************************)
EXTENDS Integers, FiniteSets, Sequences

CONSTANTS
  Turn,             \* turns, one per message sent
  Tool,             \* tool ids
  Call,             \* a tool call the LLM may write: a tool and its arguments
  ToolOf,           \* the tool of a call
  Responses,        \* what the LLM may answer: [calls, par]
  Covers,           \* the tools a wildcard pattern matches
  ToolPermissions,  \* toolPermissions: [default, agentDefault, agentRules, rules]
  HookAnswers,      \* what the PreToolUse hooks may answer to a call: [act, call]
  PluginTools,      \* tools of the definition's plugins, {} without plugins
  AwaitingTools,    \* tools that may hand over a terminal session to wait for
  EnableToolLoop,   \* agentToolLoop.enableToolLoop
  Fallback,         \* agentToolLoop.fallbackRegistryTools
  MaxIterations,    \* agentToolLoop.maxIterations
  Threshold,        \* agentToolLoop.doomLoopThreshold
  HooksMayBlock,    \* whether UserPromptSubmit or AgentStart hooks may block
  LlmMayFail,       \* whether an LLM request may be rejected
  ListenersThrow,   \* whether a subscribed listener may throw
  MaxNow            \* bound: milliseconds on the clock

NoTool == "no tool"

Actions == {"allow", "ask", "deny"}

NoAction == "none"

Wildcard == DOMAIN Covers

\* The wildcard that matches every tool.
Everything == "*"

\* A rule names a tool or a wildcard.
Rule == [pattern : Tool \cup Wildcard, action : Actions]

ASSUME TurnAssumption ==
  /\ NoTool \notin Tool
  /\ ToolOf \in [Call -> Tool]
  /\ Responses \subseteq [calls : Seq(Call), par : BOOLEAN]
  /\ Tool \cap Wildcard = {}
  /\ Covers \in [Wildcard -> SUBSET Tool] /\ Everything \in Wildcard /\ Covers[Everything] = Tool
  /\ ToolPermissions \in [default : Actions \cup {NoAction}, agentDefault : Actions \cup {NoAction},
                         agentRules : Seq(Rule), rules : Seq(Rule)]
  /\ HookAnswers \in [Call -> SUBSET [act : Actions, call : Call]]
  /\ PluginTools \subseteq Tool /\ AwaitingTools \subseteq Tool
  /\ {EnableToolLoop, Fallback, HooksMayBlock, LlmMayFail, ListenersThrow} \subseteq BOOLEAN
  /\ MaxIterations \in Nat \ {0} /\ Threshold \in Nat \ {0, 1} /\ MaxNow \in Nat

VARIABLES
  turn,        \* the turns' local state
  store,       \* the messages of the conversation
  cancelled,   \* whether conversationCancellation holds the conversation
  now          \* Date.now()

vars == <<turn, store, cancelled, now>>

(***************************************************************************)
(* Messages.  The id of a message is made of its kind, its tool and the    *)
(* millisecond of `ts`; only the results a plugin stores have random ids.  *)
(* turn, iter and pos say what the message belongs to.                     *)
(***************************************************************************)
Kinds == {"user", "assistant", "tool", "await", "plugin"}

Message ==
  [kind : Kinds, tool : Tool \cup {NoTool}, ts : Nat, lam : Nat,
   turn : Turn, iter : Nat, pos : Nat, calls : Seq(Call)]

\* The messageId of m is in the table: its INSERT throws.
Taken(m) ==
  \E x \in store : /\ m.kind # "plugin"
                   /\ x.kind = m.kind /\ x.tool = m.tool /\ x.ts = m.ts

\* getMaxLamportClockForConversation
MaxLamport ==
  IF store = {} THEN 0
  ELSE CHOOSE l \in {m.lam : m \in store} : \A m \in store : m.lam <= l

\* Mutant: the clock of the newest message is taken again.
SameLamport == IF store = {} THEN 1 ELSE MaxLamport

\* nextLamportClockForConversation
NextLamport == MaxLamport + 1

(***************************************************************************)
(* The state of a turn.                                                    *)
(*   todo     calls still to be gated, then calls still to be run          *)
(*   ok       calls the gate let through                                   *)
(*   batch    calls that ran and whose results are to be stored            *)
(*   waits    calls whose terminal session is to be waited for             *)
(*   ended    calls whose terminal session has ended                       *)
(*   recent   the signatures of the calls run, for the doom-loop guard     *)
(* lam is the clock read for the next message, 0 before it is read.        *)
(* calls are the calls of the response as the hooks left them, written the  *)
(* calls as the LLM wrote them; cause is what ended the turn from outside.  *)
(* stops, told, late, written, ran, approved (each call as the person saw   *)
(* it) and refused are history.                                            *)
(***************************************************************************)
Pcs == {"idle", "queued", "user", "hooks", "iterate", "history", "llm",
        "assistant", "plugins", "gate", "askPermission", "hook", "askHook",
        "deny", "run", "result", "await", "listening", "awaited",
        "stopping", "done"}

Reasons == {"none", "completed", "cancelled", "max-iterations", "error"}

Causes == {"none", "llm", "store", "listener"}

Ran == [iter : Nat, pos : Nat, call : Call, written : Call]

TurnState ==
  [pc : Pcs, iter : Nat, reason : Reasons, started : BOOLEAN, ms : Nat, lam : Nat,
   calls : Seq(Call), written : Seq(Call), par : BOOLEAN, todo : SUBSET Nat, ok : SUBSET Nat,
   batch : SUBSET Nat, waits : SUBSET Nat, ended : SUBSET Nat, recent : Seq(Call),
   cause : Causes, stopped : BOOLEAN, stops : Nat, told : BOOLEAN, late : Nat,
   ran : SUBSET Ran, approved : SUBSET (Nat \X Nat \X Call), refused : SUBSET (Nat \X Nat)]

IdleTurn ==
  [pc |-> "idle", iter |-> 0, reason |-> "none", started |-> FALSE, ms |-> 0, lam |-> 0,
   calls |-> <<>>, written |-> <<>>, par |-> FALSE, todo |-> {}, ok |-> {},
   batch |-> {}, waits |-> {}, ended |-> {}, recent |-> <<>>,
   cause |-> "none", stopped |-> FALSE, stops |-> 0, told |-> FALSE, late |-> 0,
   ran |-> {}, approved |-> {}, refused |-> {}]

TypeOK ==
  /\ turn \in [Turn -> TurnState]
  /\ store \subseteq Message
  /\ cancelled \in BOOLEAN
  /\ now \in Nat

Init ==
  /\ turn = [t \in Turn |-> IdleTurn]
  /\ store = {}
  /\ cancelled = FALSE
  /\ now = 1

At(t, pc) == turn[t].pc = pc

Become(t, s) == turn' = [turn EXCEPT ![t] = s]

Active(t) == turn[t].pc \notin {"idle", "done"}

\* markAgentToolLoopStop keeps the first reason.
Stop(s, reason) ==
  [s EXCEPT !.pc = "stopping", !.reason = IF @ = "none" THEN reason ELSE @]

\* An exception out of the turn.
Throw(s, cause) == [Stop(s, "error") EXCEPT !.cause = cause]

\* appendMessage of m, after which the turn goes on as s.
Persist(t, m, s) ==
  /\ store' = IF Taken(m) THEN store ELSE store \cup {m}
  /\ Become(t, IF Taken(m) THEN Throw(turn[t], "store") ELSE s)
  /\ UNCHANGED <<cancelled, now>>

\* A message of turn t for the call at position pos.
NewMessage(t, kind, tool, ts, pos, calls) ==
  [kind |-> kind, tool |-> tool, ts |-> ts, lam |-> turn[t].lam,
   turn |-> t, iter |-> turn[t].iter, pos |-> pos, calls |-> calls]

Local(t, s) == Become(t, s) /\ UNCHANGED <<store, cancelled, now>>

(***************************************************************************)
(* The runtime.                                                            *)
(***************************************************************************)

\* sendMessage: the flag of the conversation is cleared at once, the loop is
\* started after the definition is resolved.
SendMessage(t) ==
  /\ At(t, "idle")
  /\ Become(t, [turn[t] EXCEPT !.pc = "queued"])
  /\ cancelled' = FALSE
  /\ UNCHANGED <<store, now>>

\* cancelAgent
CancelAgent ==
  /\ cancelled' = TRUE
  /\ turn' = [t \in Turn |-> IF Active(t) THEN [turn[t] EXCEPT !.told = TRUE] ELSE turn[t]]
  /\ UNCHANGED <<store, now>>

Tick ==
  /\ now < MaxNow
  /\ now' = now + 1
  /\ UNCHANGED <<turn, store, cancelled>>

(***************************************************************************)
(* startAgentToolLoopTurn.                                                 *)
(***************************************************************************)
BeginTurn(t) ==
  /\ At(t, "queued")
  /\ Local(t, [turn[t] EXCEPT !.pc = "user", !.ms = now, !.lam = NextLamport])

StoreUser(t) ==
  /\ At(t, "user")
  /\ Persist(t, NewMessage(t, "user", NoTool, turn[t].ms, 0, <<>>),
            [turn[t] EXCEPT !.pc = "hooks", !.lam = 0])

\* UserPromptSubmit and AgentStart hooks allow the turn.
StartTurn(t) ==
  /\ At(t, "hooks")
  /\ Local(t, [turn[t] EXCEPT !.pc = "iterate", !.started = TRUE])

\* One of them blocks it: the generator returns without a stop reason.
BlockTurn(t) ==
  /\ HooksMayBlock
  /\ At(t, "hooks")
  /\ Local(t, [turn[t] EXCEPT !.pc = "stopping"])

(***************************************************************************)
(* runAgentToolLoopIteration, up to the assistant message.                 *)
(***************************************************************************)
HitMaxIterations(t) ==
  /\ At(t, "iterate")
  /\ turn[t].iter >= MaxIterations
  /\ Local(t, Stop(turn[t], "max-iterations"))

\* Mutant: the flag is not looked at.
NeverCancelled == FALSE

\* agentToolLoop.isCancelled
IsCancelled == cancelled

StartIteration(t) ==
  /\ At(t, "iterate")
  /\ turn[t].iter < MaxIterations
  /\ LET s == [turn[t] EXCEPT !.iter = @ + 1] IN
     Local(t, IF IsCancelled THEN Stop(s, "cancelled") ELSE [s EXCEPT !.pc = "history"])

\* The history is read, compacted and sent.
CallLlm(t) ==
  /\ At(t, "history")
  /\ Local(t, [turn[t] EXCEPT !.pc = "llm",
                              !.late = IF turn[t].told THEN @ + 1 ELSE @])

\* The stream ends; the ids and the clock of the assistant message are taken.
LlmAnswers(t) ==
  /\ At(t, "llm")
  /\ \E r \in Responses :
       Local(t, [turn[t] EXCEPT !.pc = "assistant", !.calls = r.calls,
                                !.written = r.calls, !.par = r.par, !.ms = now, !.lam = NextLamport])

LlmFails(t) ==
  /\ LlmMayFail
  /\ At(t, "llm")
  /\ Local(t, Throw(turn[t], "llm"))

HasPlugins == PluginTools # {}

Positions(s) == DOMAIN s.calls

\* What follows the assistant message when the calls in `handled` have a
\* result already.
Dispatch(s, handled) ==
  LET pending == Positions(s) \ handled IN
  IF s.calls = <<>> \/ ~EnableToolLoop THEN Stop(s, "completed")
  ELSE IF pending = {} THEN IF HasPlugins THEN [s EXCEPT !.pc = "iterate"]
                            ELSE Stop(s, "completed")
  ELSE IF HasPlugins /\ ~Fallback THEN [s EXCEPT !.pc = "iterate"]
  ELSE [s EXCEPT !.pc = "gate", !.todo = pending]

StoreAssistant(t) ==
  /\ At(t, "assistant")
  /\ LET s == [turn[t] EXCEPT !.lam = 0, !.ended = {}] IN
     Persist(t, NewMessage(t, "assistant", NoTool, turn[t].ms, 0, turn[t].calls),
            IF HasPlugins THEN [s EXCEPT !.pc = "plugins"] ELSE Dispatch(s, {}))

(***************************************************************************)
(* responseComplete hooks of the definition's plugins.  For each of its    *)
(* tools a plugin handles nothing, the response's first call               *)
(* (executeToolCall) or every matching call (executeAllMatchingToolCalls), *)
(* stores the results with lamportClock 0, and may name who continues.     *)
(***************************************************************************)
CallsOf(s, tool) == {p \in Positions(s) : ToolOf[s.calls[p]] = tool}

PluginChoices(s) ==
  {H \in SUBSET {p \in Positions(s) : ToolOf[s.calls[p]] \in PluginTools} :
     \A tool \in PluginTools :
       H \cap CallsOf(s, tool) \in {{}, {1} \cap CallsOf(s, tool), CallsOf(s, tool)}}

PluginResult(t, p) ==
  [NewMessage(t, "plugin", ToolOf[turn[t].calls[p]], now, p, <<>>) EXCEPT !.lam = 0]

\* Mutant: the plugins' results are not looked for.
HandledNone(s, H) == {}

\* toolCallHandledInAgentMessages: a result of the same tool counts.
Handled(s, H) == {p \in Positions(s) : \E q \in H : ToolOf[s.calls[q]] = ToolOf[s.calls[p]]}

RunPlugins(t) ==
  /\ At(t, "plugins")
  /\ \E H \in PluginChoices(turn[t]), target \in {"none", "self", "human"} :
       /\ store' = store \cup {PluginResult(t, p) : p \in H}
       /\ Become(t, CASE target = "human" -> Stop(turn[t], "completed")
                      [] target = "self" -> [turn[t] EXCEPT !.pc = "iterate"]
                      [] target = "none" -> Dispatch(turn[t], Handled(turn[t], H)))
  /\ UNCHANGED <<cancelled, now>>

(***************************************************************************)
(* gateToolCallsWithPreToolUse: one call at a time, in order.              *)
(***************************************************************************)
Least(S) == CHOOSE p \in S : \A q \in S : p <= q

Current(t) == Least(turn[t].todo)

CurrentCall(t) == turn[t].calls[Current(t)]

Instance(t) == <<turn[t].iter, Current(t)>>

\* The current call as a person who approves it sees it.
Shown(t) == <<turn[t].iter, Current(t), CurrentCall(t)>>

\* The gate is done with the current call.
GateNext(s, ok) ==
  LET rest == s.todo \ {Least(s.todo)} IN
  IF rest # {} THEN [s EXCEPT !.pc = "gate", !.todo = rest, !.ok = ok]
  ELSE IF ok = {} THEN [s EXCEPT !.pc = "iterate", !.todo = {}, !.ok = {}]
  ELSE [s EXCEPT !.pc = "run", !.todo = ok, !.ok = {}]

Admit(t, s) == GateNext(s, s.ok \cup {Current(t)})

Refuse(t, s) == [s EXCEPT !.pc = "deny", !.refused = @ \cup {Instance(t)}]

DefaultRule(action) ==
  IF action = NoAction THEN <<>> ELSE << [pattern |-> Everything, action |-> action] >>

\* buildLayeredPermissions: from the lowest to the highest priority.
Layers ==
  DefaultRule(ToolPermissions.default) \o DefaultRule(ToolPermissions.agentDefault)
    \o ToolPermissions.agentRules \o ToolPermissions.rules

\* Everything is allowed by default unless a layer has a rule for everything.
Rules ==
  IF \E i \in DOMAIN Layers : Layers[i].pattern = Everything THEN Layers
  ELSE DefaultRule("allow") \o Layers

Patterns == {Rules[i].pattern : i \in DOMAIN Rules}

Positioned(p) == {i \in DOMAIN Rules : Rules[i].pattern = p}

\* Mutant: the first rule for a pattern stays.
FirstWins ==
  [p \in Patterns |-> Rules[CHOOSE i \in Positioned(p) : \A j \in Positioned(p) : i <= j].action]

\* mergePermissionSets: the last rule for a pattern replaces the others.
Merged ==
  [p \in Patterns |-> Rules[CHOOSE i \in Positioned(p) : \A j \in Positioned(p) : j <= i].action]

Strictest(actions) ==
  IF "deny" \in actions THEN "deny" ELSE IF "ask" \in actions THEN "ask" ELSE "allow"

ExactPatterns(tool) == Patterns \cap {tool}

WildcardPatterns(tool) == {w \in Patterns \cap Wildcard : tool \in Covers[w]}

\* Mutant: the wildcards are looked at before the tool's own rule.
WildcardsFirst(tool) == Strictest({Merged[p] : p \in WildcardPatterns(tool)})

\* checkPermission: the tool's own rule, else the strictest wildcard that matches.
CheckPermission(tool) ==
  IF ExactPatterns(tool) # {} THEN Strictest({Merged[p] : p \in ExactPatterns(tool)})
  ELSE IF WildcardPatterns(tool) # {} THEN Strictest({Merged[p] : p \in WildcardPatterns(tool)})
  ELSE IF Patterns = {} THEN "allow" ELSE "deny"

PermissionHook(t) ==
  LET act == CheckPermission(ToolOf[CurrentCall(t)]) IN
  /\ At(t, "gate")
  /\ Local(t, CASE act = "allow" -> [turn[t] EXCEPT !.pc = "hook"]
                [] act = "ask" -> [turn[t] EXCEPT !.pc = "askPermission"]
                [] act = "deny" -> Refuse(t, turn[t]))

\* requestApproval is answered, by the user or by its timer (module Approvals).
ApprovalGiven(t) ==
  LET s == [turn[t] EXCEPT !.approved = @ \cup {Shown(t)}] IN
  \/ At(t, "askPermission") /\ Local(t, [s EXCEPT !.pc = "hook"])
  \/ At(t, "askHook") /\ Local(t, Admit(t, s))

ApprovalDenied(t) ==
  /\ At(t, "askPermission") \/ At(t, "askHook")
  /\ Local(t, Refuse(t, turn[t]))

\* The PreToolUse hooks: a hook may put another call, of another tool too, in place of this
\* one.  The permissions are not asked again; "ask" shows the new call.
PreToolUse(t) ==
  /\ At(t, "hook")
  /\ \E a \in HookAnswers[CurrentCall(t)] :
       LET s == [turn[t] EXCEPT !.calls[Current(t)] = a.call] IN
       Local(t, CASE a.act = "allow" -> Admit(t, s)
                  [] a.act = "ask" -> [s EXCEPT !.pc = "askHook"]
                  [] a.act = "deny" -> Refuse(t, s))

(***************************************************************************)
(* Every stored result takes two steps: the clock is read, then the        *)
(* message is appended with it.                                            *)
(***************************************************************************)
ReadClock(t) ==
  /\ turn[t].pc \in {"deny", "result", "awaited"}
  /\ turn[t].lam = 0
  /\ Local(t, [turn[t] EXCEPT !.lam = NextLamport])

StoreDenied(t) ==
  /\ At(t, "deny")
  /\ turn[t].lam # 0
  /\ Persist(t, NewMessage(t, "tool", ToolOf[CurrentCall(t)], now, Current(t), <<>>),
            GateNext([turn[t] EXCEPT !.lam = 0], turn[t].ok))

(***************************************************************************)
(* runRegistryToolCalls: all calls at once, or one after the other, each   *)
(* with the storing of its result and the wait for its terminal session.   *)
(***************************************************************************)

\* The signatures after the calls of `batch` were pushed, in order.
Pushed(s, batch) ==
  s.recent \o [i \in 1..Cardinality(batch) |->
     s.calls[CHOOSE p \in batch : Cardinality({q \in batch : q < p}) = i - 1]]

\* executeWithGuards blocks a call that ends Threshold equal signatures.
DoomLoop(s, batch, p) ==
  LET recent == Pushed(s, batch)
      k == Len(s.recent) + Cardinality({q \in batch : q <= p})
  IN k >= Threshold /\ \A j \in 0..(Threshold - 1) : recent[k - j] = s.calls[p]

RunTools(t) ==
  LET s == turn[t]
      batch == IF s.par THEN s.todo ELSE {Current(t)}
      run == {p \in batch : ~DoomLoop(s, batch, p)}
  IN
  /\ At(t, "run")
  /\ \E waits \in SUBSET {p \in run : ToolOf[s.calls[p]] \in AwaitingTools} :
       Local(t, [s EXCEPT
         !.pc = "result", !.todo = @ \ batch, !.batch = batch, !.waits = waits,
         !.recent = Pushed(s, batch),
         !.ran = @ \cup {[iter |-> s.iter, pos |-> p, call |-> s.calls[p],
                           written |-> s.written[p]] : p \in run}])

\* Mutant: what is left of a sequential response is dropped.
RunOnce(s) == [s EXCEPT !.pc = "iterate", !.todo = {}]

RunNext(s) == [s EXCEPT !.pc = IF s.todo = {} THEN "iterate" ELSE "run"]

\* After a result was stored: the next result, the waits, or the next calls.
ResultNext(s) ==
  IF s.batch # {} THEN s
  ELSE IF s.waits # {} THEN [s EXCEPT !.pc = "await"] ELSE RunNext(s)

StoreResult(t) ==
  LET p == Least(turn[t].batch) IN
  /\ At(t, "result")
  /\ turn[t].lam # 0
  /\ Persist(t, NewMessage(t, "tool", ToolOf[turn[t].calls[p]], now, p, <<>>),
            ResultNext([turn[t] EXCEPT !.lam = 0, !.batch = @ \ {p}]))

\* A terminal session a tool of this response started ends.
SessionEnds(t, p) ==
  /\ p \in turn[t].waits \ turn[t].ended
  /\ Local(t, [turn[t] EXCEPT
       !.ended = @ \cup {p},
       !.pc = IF @ = "listening" /\ p = Least(turn[t].waits) THEN "awaited" ELSE @])

\* Mutant: the completion listener is registered without a look at the status.
AwaitListens(t) ==
  /\ At(t, "await")
  /\ Local(t, [turn[t] EXCEPT !.pc = "listening"])

\* waitForTerminalSession: a session that ended already is not waited for.
AwaitSession(t) ==
  /\ At(t, "await")
  /\ Local(t, [turn[t] EXCEPT
       !.pc = IF Least(turn[t].waits) \in turn[t].ended THEN "awaited" ELSE "listening"])

StoreAwaited(t) ==
  LET p == Least(turn[t].waits)
      s == [turn[t] EXCEPT !.lam = 0, !.waits = @ \ {p}]
  IN
  /\ At(t, "awaited")
  /\ turn[t].lam # 0
  /\ Persist(t, NewMessage(t, "await", ToolOf[turn[t].calls[p]], now, p, <<>>),
            IF s.waits # {} THEN [s EXCEPT !.pc = "await"] ELSE RunNext(s))

(***************************************************************************)
(* The end of a turn.                                                      *)
(***************************************************************************)

\* A listener throws on a step: drainAgentLoop returns the generator, which
\* ends where it is, without a stop reason of its own.
ListenerThrows(t) ==
  /\ ListenersThrow
  /\ \/ turn[t].pc \in {"llm", "askPermission", "askHook"}
     \/ turn[t].pc \in {"deny", "result"} /\ turn[t].lam = 0
     \/ /\ At(t, "stopping")
        /\ turn[t].cause = "none"
        /\ turn[t].reason \in {"none", "cancelled", "max-iterations"}
  /\ Local(t, [turn[t] EXCEPT !.pc = "stopping", !.cause = "listener"])

\* Mutant: agentStopped is not looked at.
StopHookTwice(s) == s.started /\ s.reason # "none"

\* Whether stopAgentToolLoopTurn calls the AgentStop hooks.
StopHookDue(s) == s.started /\ ~s.stopped /\ s.reason # "none"

CallStop(s) ==
  IF StopHookDue(s) THEN [s EXCEPT !.stopped = TRUE, !.stops = @ + 1] ELSE s

\* The loop stops the turn where it catches an exception, and always finally.
Finish(t) ==
  LET caught == turn[t].cause \in {"llm", "store"}
      s == IF caught THEN CallStop(turn[t]) ELSE turn[t]
  IN
  /\ At(t, "stopping")
  /\ Local(t, [CallStop(s) EXCEPT !.pc = "done"])

(***************************************************************************)
(* The specification.                                                      *)
(***************************************************************************)
Progress(t) ==
  \/ BeginTurn(t)
  \/ StoreUser(t)
  \/ StartTurn(t)
  \/ HitMaxIterations(t)
  \/ StartIteration(t)
  \/ CallLlm(t)
  \/ LlmAnswers(t)
  \/ StoreAssistant(t)
  \/ RunPlugins(t)
  \/ PermissionHook(t)
  \/ ApprovalGiven(t)
  \/ ApprovalDenied(t)
  \/ PreToolUse(t)
  \/ ReadClock(t)
  \/ StoreDenied(t)
  \/ RunTools(t)
  \/ StoreResult(t)
  \/ AwaitSession(t)
  \/ StoreAwaited(t)
  \/ Finish(t)

SomeSessionEnds(t) == \E p \in turn[t].waits : SessionEnds(t, p)

Setback(t) == BlockTurn(t) \/ LlmFails(t) \/ ListenerThrows(t)

Next ==
  \/ \E t \in Turn : SendMessage(t) \/ Progress(t) \/ SomeSessionEnds(t) \/ Setback(t)
  \/ CancelAgent
  \/ Tick

Spec == Init /\ [][Next]_vars

\* A resolved promise is continued; the LLM, the tools and the hooks answer, an
\* approval is answered by its timer at the latest, and sessions end.
FairSpec ==
  Spec /\ \A t \in Turn : WF_vars(Progress(t)) /\ WF_vars(SomeSessionEnds(t))

(***************************************************************************)
(* Properties.                                                             *)
(***************************************************************************)
Answers(a, p) ==
  {m \in store : /\ m.kind \in {"tool", "plugin"}
                 /\ m.turn = a.turn /\ m.iter = a.iter /\ m.pos = p}

\* Whenever the LLM is asked to go on, and when a turn ends without an error,
\* each call of the turn's assistant messages has exactly one result in the
\* table: none is dropped on the way through plugins, gate and runner, and a
\* refused call is answered too.
EveryCallAnswered ==
  \A t \in Turn :
    At(t, "llm") \/ (At(t, "done") /\ turn[t].cause = "none")
      => \A a \in {m \in store : m.kind = "assistant" /\ m.turn = t} :
           \A p \in DOMAIN a.calls : Cardinality(Answers(a, p)) = 1

\* No call has two results: what a plugin handled does not run again through the
\* registry.
AnsweredAtMostOnce ==
  \A a \in {m \in store : m.kind = "assistant"} :
    \A p \in DOMAIN a.calls : Cardinality(Answers(a, p)) <= 1

\* The rules no later rule for the same pattern replaces.
InForce ==
  {Rules[i] : i \in {j \in DOMAIN Rules :
                       \A k \in DOMAIN Rules : k > j => Rules[k].pattern # Rules[j].pattern}}

\* The rules that decide on a tool: the one that names it, else every wildcard that covers it.
Deciding(tool) ==
  LET naming == {r \in InForce : r.pattern = tool} IN
  IF naming # {} THEN naming
  ELSE {r \in InForce : r.pattern \in Wildcard /\ tool \in Covers[r.pattern]}

Forbids(tool) == \E r \in Deciding(tool) : r.action = "deny"

Asks(tool) == \E r \in Deciding(tool) : r.action = "ask"

\* The settings let a call through as the LLM wrote it.
LetThrough(iter, pos, written, approved) ==
  /\ ~Forbids(ToolOf[written])
  /\ Asks(ToolOf[written]) => <<iter, pos, written>> \in approved

\* A hook answered to the written call with the call to be run, and did not deny it.
HookLetsRun(iter, pos, written, call, approved) ==
  \E a \in HookAnswers[written] :
    /\ a.call = call
    /\ \/ a.act = "allow"
       \/ a.act = "ask" /\ <<iter, pos, call>> \in approved

\* A tool runs only for a call no one refused.  The rules in force do not deny the tool of the
\* call as the LLM wrote it, and where they ask, a person saw this very call and approved it.
\* What runs is that call or one a hook put in its place, and where the hook asked, a
\* person saw the call that runs.
RunsArePermitted ==
  \A t \in Turn : \A r \in turn[t].ran :
    /\ <<r.iter, r.pos>> \notin turn[t].refused
    /\ LetThrough(r.iter, r.pos, r.written, turn[t].approved)
    /\ HookLetsRun(r.iter, r.pos, r.written, r.call, turn[t].approved)

\* The AgentStop hook ran exactly once for a turn that passed AgentStart, and
\* never for one that was blocked, whichever way the turn ended.
StopHookOnce ==
  \A t \in Turn :
    At(t, "done") => turn[t].stops = (IF turn[t].started THEN 1 ELSE 0)

\* Once it was cancelled a turn asks the LLM at most once more: for the iteration
\* that had passed the check already.
CancelStops == \A t \in Turn : turn[t].late <= 1

\* getMessages orders by timestamp, then by clock.
Before(x, y) == x.ts < y.ts \/ (x.ts = y.ts /\ x.lam < y.lam)

\* In that order a result the runner or the gate stored comes after the assistant
\* message that asked for it, also when other turns write to the conversation in the same millisecond.
ResultsFollowCall ==
  \A a, r \in store :
    /\ a.kind = "assistant" /\ r.kind \in {"tool", "await"}
    /\ a.turn = r.turn /\ a.iter = r.iter
    => Before(a, r)

\* Each call has at most one result, which comes after it in the order messages are read in.
AnswersAreInOrder == ResultsFollowCall /\ AnsweredAtMostOnce

\* Every message that was sent is answered: its turn ends.
TurnEnds == \A t \in Turn : At(t, "queued") ~> At(t, "done")

==============================================================================
