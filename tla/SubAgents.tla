----------------------------- MODULE SubAgents -----------------------------
(***************************************************************************)
(* Delegation, on one device and to another.                               *)
(*                                                                         *)
(* The task and spawnAgent tools: a turn that delegates starts another     *)
(* turn in a conversation of its own, and waits for it unless the task     *)
(* runs in the background.  The calls of a parallel response start         *)
(* together and are awaited together (Promise.all); those of a sequential  *)
(* one are awaited one by one.  The only guard against delegation without  *)
(* end reads the identifier of the conversation.                           *)
(*                                                                         *)
(* The remoteAgent tool: create an agent on another device, send it the    *)
(* task, and read what it writes, from a stream for a fixed time or by     *)
(* polling its log until it is quiet.  The other device is external: its   *)
(* log grows by itself, message 1 being the task.  A request that fails    *)
(* may have been carried out.                                              *)
(***************************************************************************)
EXTENDS Integers, Sequences, FiniteSets, SequencesExt

CONSTANTS Turns,      \* turns that may be started
          Root,       \* the turn of the user's conversation
          Agents,     \* profiles of the agent registry
          Separators, \* [Agents -> colons in the profile's id]
          Named,      \* the host tells a tool the conversation it runs for
          MaxMs       \* bound: milliseconds

ASSUME TaskAssumption ==
    /\ Root \in Turns
    /\ Separators \in [Agents -> Nat]
    /\ Named \in BOOLEAN
    /\ MaxMs \in Nat

VARIABLES task,  \* [Turns -> status, conversation, the turn that waits for it, the round it was
                 \* called in, and how many rounds of calls it has made itself]
          ms     \* Date.now()

taskVars == <<task, ms>>

\* The identifier `agent:ms`, or `spawn:agent:ms`.
Conversation(kind, agent) == [kind |-> kind, agent |-> agent, ms |-> ms]

Colons(conv) == Separators[conv.agent] + (IF conv.kind = "spawn" THEN 2 ELSE 1)

TooDeeplyNested(t) == Named /\ Colons(task[t].conv) > 2

\* Mutant: a caller waits for background tasks instead of the others.
BlockedByBackground(t) ==
    \E u \in Turns \ {t} : task[u].st = "running" /\ task[u].parent = t /\ task[u].background

Blocked(t) == \E u \in Turns \ {t} : task[u].st = "running" /\ task[u].parent = t /\ ~task[u].background

----------------------------------------------------------------------------

\* What a call of the task tool may ask for; without it, only spawnAgent delegates.
TaskCalls(t) ==
    IF TooDeeplyNested(t) THEN {} ELSE [kind : {"task"}, agent : Agents, background : BOOLEAN]

SpawnCalls == [kind : {"spawn"}, agent : Agents, background : {FALSE}]

\* A round of calls that delegate: those of a parallel response, or one of a sequential response.
\* Each runs up to its first await before the next is started.
Delegate(t, round) ==
    /\ task[t].st = "running" /\ ~Blocked(t)
    /\ round # {} /\ \A u \in round : task[u].st = "unused"
    /\ \E calls \in [round -> TaskCalls(t) \union SpawnCalls] :
         task' = [u \in Turns |->
           IF u \in round
             THEN [st |-> "running", conv |-> Conversation(calls[u].kind, calls[u].agent),
                   parent |-> t, background |-> calls[u].background,
                   round |-> task[t].rounds + 1, rounds |-> 0]
           ELSE IF u = t THEN [task[t] EXCEPT !.rounds = task[t].rounds + 1] ELSE task[u]]
    /\ UNCHANGED ms

EndTurn(t) ==
    /\ task[t].st = "running" /\ ~Blocked(t)
    /\ task' = [task EXCEPT ![t].st = "ended"]
    /\ UNCHANGED ms

PassMs == ms < MaxMs /\ ms' = ms + 1 /\ UNCHANGED task

TaskInit ==
    /\ \E a \in Agents :
         task = [t \in Turns |-> [st |-> IF t = Root THEN "running" ELSE "unused",
                                  conv |-> [kind |-> "task", agent |-> a, ms |-> 0],
                                  parent |-> t, background |-> FALSE,
                                  round |-> 0, rounds |-> 0]]
    /\ ms = 0

TaskNext ==
    \/ \E t \in Turns, round \in SUBSET Turns : Delegate(t, round)
    \/ \E t \in Turns : EndTurn(t)
    \/ PassMs

TaskSpec == TaskInit /\ [][TaskNext]_taskVars

----------------------------------------------------------------------------

(***************************************************************************)
(* A turn ends after every turn it delegated to in the foreground, and     *)
(* does not go on before: those it waits for at one time are the calls of  *)
(* one parallel response (runRegistryToolCalls, taskToolImpl,              *)
(* spawnAgentImpl).                                                        *)
(***************************************************************************)
ForegroundIsAwaited ==
    \A u \in Turns \ {Root} :
        task[u].st = "running" /\ ~task[u].background =>
            /\ task[task[u].parent].st = "running"
            /\ \A v \in Turns \ {Root} :
                 /\ task[v].st = "running" /\ ~task[v].background
                 /\ task[v].parent = task[u].parent
                 => task[v].round = task[u].round

----------------------------------------------------------------------------
(* Delegation to another device *)

CONSTANTS Devices,     \* the other devices the tool may be asked for
          MaxLog,      \* bound: messages of the remote conversation
          MaxPolls,    \* remoteAgentStreamTimeoutMs in poll intervals
          IdlePolls    \* REMOTE_LOG_IDLE_POLLS

ASSUME RemoteAssumption ==
    /\ MaxLog \in Nat /\ MaxPolls \in Nat /\ IdlePolls \in Nat \ {0}

VARIABLES call,     \* the tool call: pc, device, result and the locals of the polling loop
          stream,   \* messages the subscription delivered
          log       \* [Devices -> length of the log of the conversation created there]

remoteVars == <<call, stream, log>>

None == "none"
NoConversation == 0 - 1

Return(result) == call' = [call EXCEPT !.pc = "returned", !.result = result]

\* Mutant: what is known comes again.
AllMessages(d) == [k \in 1..log[d] |-> k]

\* getMessages of the other device without the messages the caller knows.
NewMessages(d) ==
    LET new == {k \in 1..log[d] : k \notin call.known}
    IN  CHOOSE s \in [1..Cardinality(new) -> new] : \A j, k \in DOMAIN s : j < k => s[j] < s[k]

----------------------------------------------------------------------------

\* memeloop.agent.create: it answers with the new conversation, or fails before or after.
CreateRemote ==
    /\ call.pc = "off"
    /\ \E d \in Devices :
         \/ /\ call' = [call EXCEPT !.pc = "send", !.device = d]
            /\ log' = [log EXCEPT ![d] = 0]
         \/ /\ Return("error")
            /\ log' \in {log, [log EXCEPT ![d] = 0]}
    /\ UNCHANGED stream

\* memeloop.agent.send: then the host subscribes to the stream, or polls if it cannot.
SendTask ==
    /\ call.pc = "send"
    /\ \/ /\ \E how \in {"stream", "poll"} : call' = [call EXCEPT !.pc = how]
          /\ log' = [log EXCEPT ![call.device] = 1]
       \/ /\ Return("error")
          /\ log' \in {log, [log EXCEPT ![call.device] = 1]}
    /\ UNCHANGED stream

RemoteWrites(d) ==
    /\ log[d] \in 1..(MaxLog - 1)
    /\ log' = [log EXCEPT ![d] = @ + 1]
    /\ stream' = IF call.pc = "stream" /\ call.device = d /\ call.subscribed
                 THEN Append(stream, log[d] + 1) ELSE stream
    /\ UNCHANGED call

\* The subscription fails to see what is written before it stands.
Subscribed ==
    /\ call.pc = "stream" /\ ~call.subscribed
    /\ call' = [call EXCEPT !.subscribed = TRUE]
    /\ UNCHANGED <<stream, log>>

\* The time for the stream is over: what came is the summary, and the log is polled if nothing did.
StreamOver ==
    /\ call.pc = "stream"
    /\ IF stream # <<>>
       THEN call' = [call EXCEPT !.pc = "returned", !.result = "stream", !.collected = stream]
       ELSE call' = [call EXCEPT !.pc = "poll"]
    /\ UNCHANGED <<stream, log>>

\* One turn of the polling loop: new messages, a quiet poll after an answer, or a failed request.
Poll ==
    /\ call.pc = "poll"
    /\ LET new == NewMessages(call.device)
           answered == \E k \in DOMAIN call.collected : call.collected[k] # 1
           quiet == IF answered THEN call.idle + 1 ELSE call.idle
       IN \/ /\ new # <<>>
             /\ call' = [call EXCEPT !.pc = "sleep", !.idle = 0,
                                     !.known = @ \cup ToSet(new), !.collected = @ \o new]
          \/ /\ new = <<>>
             /\ IF quiet >= IdlePolls THEN Return("summary")
                ELSE call' = [call EXCEPT !.pc = "sleep", !.idle = quiet]
          \/ Return("error")
    /\ UNCHANGED <<stream, log>>

\* Mutant: the time is not looked at.
PollOn ==
    /\ call.pc = "sleep"
    /\ call' = [call EXCEPT !.pc = "poll"]
    /\ UNCHANGED <<stream, log>>

\* The interval is over; the loop is left when its time is.
WakeUp ==
    /\ call.pc = "sleep"
    /\ IF call.polls + 1 >= MaxPolls THEN Return("summary")
       ELSE call' = [call EXCEPT !.pc = "poll", !.polls = @ + 1]
    /\ UNCHANGED <<stream, log>>

----------------------------------------------------------------------------

RemoteInit ==
    /\ call = [pc |-> "off", device |-> None, polls |-> 0, idle |-> 0, known |-> {},
               collected |-> <<>>, subscribed |-> FALSE, result |-> None]
    /\ stream = <<>>
    /\ log = [d \in Devices |-> NoConversation]

RemoteContinues == SendTask \/ StreamOver \/ Poll \/ WakeUp

RemoteNext == CreateRemote \/ RemoteContinues \/ Subscribed \/ \E d \in Devices : RemoteWrites(d)

\* Requests are answered or fail, timers fire.  The remote agent need not write anything.
RemoteFairness == WF_remoteVars(RemoteContinues)

----------------------------------------------------------------------------

\* What a polled summary reports is the beginning of the remote log, each message once and in
\* order, and at least what stood in it when the call was last found quiet; a stream's summary is
\* a part of the log without the task.
SummaryIsFaithful ==
    LET c == call.collected IN
    /\ call.result = "summary" =>
          /\ \A k \in DOMAIN c : c[k] = k
          /\ Len(c) <= log[call.device]
    /\ call.result = "stream" =>
          \A k \in DOMAIN c : c[k] \in 2..log[call.device] /\ (k > 1 => c[k] = c[k - 1] + 1)

\* The tool call returns however slow or silent the other device is.
RemoteCallEnds == []<>(call.pc \in {"off", "returned"})
============================================================================
