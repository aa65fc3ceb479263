# memeloop: a TLA+ verification project

memeloop is a TypeScript monorepo for running AI agents on several devices that form
a peer-to-peer network. This directory holds TLA+ models of its core logic, TLC
configurations that check them on small instances, and TLAPS proofs of the results that
hold for every instance. Paths below are relative to `src/` in the repository;
`ML` abbreviates `packages/memeloop/src`, `CLI` abbreviates `packages/memeloop-cli/src`.

`PROJECT.json` is the machine-readable index: components, runs, the mutants each property
is tested with, the source lines each definition models, hazards, findings and theorems.

## 1. Inventory

Module names are in the last column; "-" is not modelled (section 11).

| component | code | state it keeps | operations | module |
|---|---|---|---|---|
| Chat synchronisation | `ML/sync/chatSyncEngine.ts`, `peerNodeAdapter.ts`, `libp2pDeviceSyncTransport.ts`, serving side in `libp2pDeviceNetworkService.ts` | the engine's version vector; the progress of a call at each `await` | `syncOnce`, `antiEntropyOnce`, the request handlers | `ChatSync` |
| Conversation store | `CLI/storage/sqliteStorage.ts` | conversations, messages, attachments | append, upsert, insert if absent, list, get | `ConversationStore` |
| Agent turn (tool loop), gate, permissions | `ML/loopAPI/agent-tool-loop/*`, `ML/permission/engine.ts`, `ML/runtime.ts` | state of a turn, messages, cancellation flags | send, cancel; start / iteration / stop of a turn | `AgentTurn` |
| Approvals | `ML/tools/approval.ts` | pending approvals, timers | ask, resolve, cancel, time out | `Approvals` |
| Questions | `questionWaitRegistry.ts`, `askQuestion.ts`, `askUserQuestion.ts` | open questions | ask, answer, time out | `Questions` |
| IM channels and replies | `ML/im/*` | binding cache and table, reply buffer | dispatch, switch, create; slice and flush | `ImChannel`, `ImReply` |
| Batches of a tool | `ML/tools/defineTool.ts`, `parallelExecution` | results, timers of calls and batch | execute all matching calls | `ToolBatch` |
| Agent scripts | `ML/loopAPI/agent-agent-loop/loop.ts`, `ML/loops/` | children of a script run | run, batch, review, fix | `AgentScript` |
| Sub-agents | `builtins/task.ts`, `spawnAgent.ts`, `remoteAgent.ts` | tasks in their conversations, a remote log | delegate, wait, poll | `SubAgents` |
| Calls between devices | `agentRuntimeRpcHandler.ts`, RPC part of the network service | a stream for each call | call, serve, answer | `RemoteCalls` |
| Context of a request | `historyCompaction`, `ML/promptUtilities`, token tracker | summary, flattened prompts | compact, build the request | `TurnContext` |
| Hooks and plugins | `ML/loopAPI/hooks`, `ML/plugin` | handlers in order, active plugins | register, execute, load, unload | `PluginHost` |
| Runtime and registry | `ML/runtime.ts`, loop registry, builtin tools | loops, tools with their context | install, bind, run the definition of a message | `LoopRuntime` |
| File tools | `CLI/tools/*` | hashes of read files, writes under way | read, write, edit | `FileTools` |
| Wikis and definitions | `CLI/knowledge`, `nodeRuntime.ts` | booted wikis, announced definitions | boot, edit, refresh | `WikiRoster` |
| Checkpoints | checkpoint stores | one file for each conversation | save, load, list, delete | `Checkpoints` |
| Solid pod backup | `ML/sync/solidPodAdapter.ts` | date of the last push | start, push, merge, stop | `SolidPod` |
| Tools outside the node | `CLI/tools/demo.ts`, screenshots, editor, MCP | processes, pages, clients | start, wait, stop, close | `NodeTools` |
| Device trust and pairing | `libp2pDeviceNetworkService.ts`, `CLI/deviceNetwork/trustStore.ts` | trusted devices, sessions, the trust store | pair, accept, reject, remove, authorise | `DeviceTrust` |
| Lists of devices | the same service, `memoryDeviceNetworkService.ts` | discovered devices, observers | start, stop, observe | `DeviceDirectory` |
| Cloud trust and the daemon | `syncCloudDevices.ts`, `cloudDeviceAuthorizer.ts`, `CLI/cli.ts` | cached grants, registration, identity | merge, obtain and check grants, heartbeat | `CloudTrust` |
| Terminal sessions and their output | `CLI/terminal/sessionManager.ts`, `CLI/tools/terminal.ts` | sessions, chunks, tail, timers | start, execute, respond, cancel, follow | `TerminalSession`, `TerminalOutput` |
| Provider configuration | `CLI/providers/*` | two configuration files and the keys; views of the program | list, save, rename, import, diagnose | `ConfigTui` |
| Agent management | `ML/agent-management/*` | an open session; a definition being edited; a wizard | start, stop, poll; edit, save; create, preview | `AgentSession`, `DefinitionEditor`, `AgentCreation` |
| Chat views | `packages/memeloop-react-ui` | attachment, target, details, questions | send, switch, show, answer | `ChatComposer`, `ChatMessages` |
| Chat of the terminal | `CLI/tui` | session, dispatcher, permission dialog | launch, send, print | `ChatTui` |
| IM adapters, LLM clients, shell, search and web tools, todo lists, command line, widgets | `CLI/im`, `ML/llm`, `CLI/tools`, `todoWrite.ts` | none that outlives a call | | - |

### How the parts interact

A host (`CLI/runtime/nodeRuntime.ts`) builds a `MemeLoopRuntime` over a store. A user message
starts a **turn**: a fire-and-forget async generator that alternates LLM requests and tool
calls. Every tool call passes the **gate** (permission layers, `PreToolUse` hooks, approvals);
results become messages of the **store**. Tools reach **terminal sessions**, files, other
agents and the user (**questions**). **IM channels** and the device network's RPC start
turns too, and so do **scripts**, **sub-agents** and **calls of other devices**. A turn's request
is its **context**; **plugins** and **hooks** take part in it. What people see of all this are the
**session controller**, the **chat views** and the **terminal chat**, which hold copies of the
state and call back. Independently, the **sync engine** of each device pulls the conversations,
messages and attachments that its **paired** devices store, over streams the device network
authorises.

Everything runs on one JavaScript thread per device, so two pieces of code interleave only
where one of them awaits. A step of a model is what runs between two awaits.

### Where it is hard

- a snapshot read before an `await` (known ids, lamport clocks, directory rows, trust) and
  used after it, while another engine, turn or device writes;
- requests that fail half way through a call, swallowed at some places and fatal at others;
- turns without mutual exclusion on a conversation, whose cancellation flag is shared;
- timers that race the answer they bound (approvals, questions, idle prompts, follow);
- trust that changes between the check and the use, and a save that may fail;
- listings cut at a limit, buffers truncated at a cap;
- answers that come late, after another call, another key or an unmount changed what they
  are merged into;
- what a call started outside the process (a server, a page, a child agent) and forgets
  when it fails.

### What makes each part correct

- *Synchronisation*: nothing is invented, lost or re-attributed; a call that met no failure
  has everything its peers stored when it began; attachments follow their messages; with
  periodic calls, all copies converge.
- *Turn*: every tool call that was requested gets a result, also when it is denied; nothing
  runs but what the permission settings, the users and the hooks let through; a cancelled turn does not go back
  to the LLM; the stop hook runs once for each turn that told its start; every turn ends.
- *Pairing*: a device is trusted only because the two users agreed; a removed or rejected
  device gets no further answer; what is in memory is what is on disk after a restart.
- *Terminal*: what a reader follows is what the process wrote, in order and once; a session
  ends in one terminal state and every waiter is told.
- *People*: an answer is the one that was given to what was shown, a text arrives where its
  user is bound, a reply is whole and in order, and every wait ends.
- *Around the turn*: nothing a call started is left behind unknown; every call of a batch has its
  own result; the request holds what was read or a summary of it; hooks are not skipped; edits
  overwrite nothing that was not read, unless another program wrote in the meantime; copies (checkpoint, backup,
  announced definitions, cached trust) say what their original said.
- *Views*: what is listed, shown and saved is what is stored, whatever was answered late.

## 2. Plan

| step | modules | abstraction or composition | theorems |
|---|---|---|---|
| 1 done | `ConversationStore`, `ChatSync`, `ReplicatedMessages` | `ChatSync` extends the store and implements the replicated set of messages | provenance, no orphans, refinement, delivery |
| 2 done | `AgentTurn` | the store as a set of messages, the gate inside the turn | see section 10 |
| 3 done | `Approvals`, `Questions`, `ImChannel`, `ImReply` | what `AgentTurn` sees of an approval is a decision that comes once | approvals and questions |
| 4 done | `DeviceTrust`, `DeviceDirectory`, `CloudTrust` | the trust store as an asynchronous log per peer | trust is confirmed, business is mutual |
| 5 done | `TerminalSession`, `TerminalOutput` | what `AgentTurn` sees is a session that ends | told once, quiet after the end |
| 6 done | `ToolBatch`, `AgentScript`, `SubAgents`, `RemoteCalls` | a child agent is an abstract turn | delegation, reports |
| 7 done | `TurnContext`, `PluginHost`, `LoopRuntime` | the history a request is made of; the registry a turn is bound to | plugins, context |
| 8 done | `FileTools`, `WikiRoster`, `Checkpoints`, `SolidPod`, `NodeTools` | files, wikis and pods as what is stored in them | files, knowledge |
| 9 done | `ConfigTui`, `AgentSession`, `DefinitionEditor`, `AgentCreation`, `ChatComposer`, `ChatMessages`, `ChatTui` | the node behind a view as an environment | lists, other providers, what is shown, edits |

A run answers one question of the system and not of one module: parts that are concerned with the
same question and share no variable are checked by one run (`people`, `agents`, `clients`), which
chooses in its initial state whose behaviour it is. Each module is written to be proved
about as well: parameters are CONSTANTS with named assumptions, there is one action for each
operation, and no module declares a RECURSIVE operator.

## 3. Synchronisation: `ConversationStore`, `ChatSync`, `ReplicatedMessages`

`ConversationStore` is the SQLite store. Each method of `SQLiteAgentStorage` is synchronous
inside (better-sqlite3), so each is one step, including the transaction of `appendMessage`
and the recount at the end of `insertMessagesIfAbsent`. Messages are model values with a fixed
conversation and attachment set; recency in `listConversations` is abstracted to "any subset of
the permitted size may be the most recent".

`ChatSync` gives each engine a record with one program counter per `await` of `syncOnce`,
`antiEntropyOnce`, `pullMessagesForConversationFromPeers` and `ensureAttachmentsFromMessages`:

| pc | the engine waits for | code |
|---|---|---|
| `exchange` | `exchangeVersionVector` of peer `i` | chatSyncEngine.ts:73 |
| `metadata` | `pullMissingMetadata` of peer `i` | :75 |
| `upsert` | the upsert of a directory row | :77-80 |
| `choose` | the next conversation, known ids | :111-116 |
| `messages` | `pullMissingMessages` of peer `i` | :120 |
| `insert` | `insertMessagesIfAbsent` | :122 |
| `blobs` | `pullAttachmentBlob` of peer `j` | :133-172 |

The serving side is evaluated against the peer's store in the step that receives the answer.
Meanwhile devices append messages (`AuthorMessage`), open conversations and receive rows with
remote turns. A request may fail wherever the code awaits one: before the metadata it
rejects the call, afterwards it is swallowed. `goal` (what the peers stored when the call
began), `last`, `author` and `failures` are history variables.
`OpenConversation` merges the look-up and the upsert of
`agentRuntimeRpcHandler.ts:87-100` in one step. `bumpLocalVersion` and `getVersionVector` have
no caller and are not modelled.

`ReplicatedMessages` is the abstract promise: sets of messages that only grow, a message is
written once by one device, and a device may receive a message that some device has. `ChatSync`
implements it (`RefinesReplicated`), and with fairness it converges (`RefinesFairReplicated`).

| run | instance | what it shows |
|---|---|---|
| `chat_sync_crossed` | two devices pull from each other while both append to one conversation; one failure | types, `Provenance`, `SyncDelivers`, every step refines `ReplicatedMessages` |
| `chat_sync_live` | a host keeps calling, both kinds of call, two conversations, messages that share attachments, one failure at any point | `SyncEnds`, convergence (`RefinesFairReplicated`), `NoOrphanMessages`, `BlobsFollowMessages` |

`SyncDelivers` is checked and proved for new engines (the way `syncWithDevice` makes them) and a
directory within the listing limit; section 12 says what happens otherwise.

*Bounds.* Two devices, two messages, one or two conversations, at most two
engines, one failure. A lost or duplicated message needs two writers, or a writer and a reader,
and one conversation; the second conversation is there for the anti-entropy pass and for aborted
calls. Every engine of these instances has one peer; that an earlier peer's answer does not
hide a later one's is covered by the proof of `SyncDelivers`, for any number of peers.

*Fairness.* `FairSpec`: a request is answered or fails, and a resolved promise is continued.
The transport has no timeout of its own, so this assumes that a connection that does not answer is
closed. `PeriodicSpec` adds that the host keeps calling, as a host with a sync timer does. Nothing
obliges a device to write.

### Proofs

`ChatSyncProofs` proves, for every number of devices, engines, peers, conversations and messages:

- `Invariant`: `Spec => []IInv`. `IInv` is `TypeOK /\ Provenance /\ NoOrphanMessages` and
  `EngineInv(e)` for each engine. `Provenance` alone is not inductive: a message in an answer
  that was not inserted yet must be known to be stored by its author (`InFlightAt`).
  `NoOrphanMessages` needs that a conversation an engine is about to pull has its row
  already, and that an answer holds only messages of the conversation asked for (`PulledAt`);
  `IndexAt` keeps the peer index in range, so that the peer named is a device.
- `TypeCorrect`, `MessagesHaveProvenance`, `NoOrphans` follow; `Refinement` shows that every step
  is a write, a delivery or a stutter of `ReplicatedMessages`.

Its second part proves `Delivery`, `Spec => []SyncDelivers`, from the assumption
`PlainHosts` (hosts answer with empty vectors, as `libp2pDeviceNetworkService.ts:551-559` does by
default, and the directory fits the listing limit). Its invariant `DeliveryInv` says where a
message of the goal can still be (`StillComing`): at a peer not asked yet, in a received row, in
a conversation to be pulled, in an answer, or here.

Its third part proves `AttachmentsArrive`, `Mesh /\ Spec => []BlobsFollowMessages`. `Mesh` says
that every engine asks each device that may append a message: without it a device can get a
message through a third one that lacks the attachment, which is behaviour of the code (section 12).
`BlobInv` says that an attachment stays where its message was appended (`AuthorHolds`), and that
a hash an engine still has to fetch comes: it is here, or its author is among the peers not asked
yet (`HashComes`).

Liveness (`SyncEnds`, convergence) is model-checked only.

## 4. Agent turns and approvals

### 4.1 `AgentTurn`

One conversation and the turns that run on it. `turn[t]` is the local state of the generator
of turn `t` (`AgentToolLoopState` and the locals of the functions that are suspended); `pc`
names the `await` at which it is suspended. `store` is the message table of the
conversation, `cancelled` its entry in `conversationCancellation`, `now` is `Date.now()`.

| action | code |
|---|---|
| `SendMessage`, `CancelAgent` | `runtime.ts` `sendMessage`, `cancelAgent` |
| `BeginTurn`, `StoreUser`, `StartTurn`, `BlockTurn` | `startAgentToolLoopTurn` |
| `HitMaxIterations`, `StartIteration`, `CallLlm`, `LlmAnswers`, `LlmFails`, `StoreAssistant`, `RunPlugins` | `runAgentToolLoopIteration` |
| `PermissionHook`, `ApprovalGiven`, `ApprovalDenied`, `PreToolUse`, `StoreDenied` | `gateToolCallsWithPreToolUse` |
| `RunTools`, `StoreResult`, `AwaitSession`, `SessionEnds`, `StoreAwaited` | `runRegistryToolCalls`, `waitForTerminalSession` |
| `ReadClock` | `nextLamportClockForConversation` before a result is appended |
| `ListenerThrows`, `Finish` | `drainAgentLoop`, the `catch` and `finally` of the loop |

*Data.* A tool call is a model value with a tool; its parameters only matter for the
doom-loop guard and for hooks that rewrite a call. A response of the LLM is a sequence of
calls and the flag of a parallel block. A message keeps what its id is made of (kind, tool,
millisecond), its clock, and the turn, iteration and position it belongs to. `Persist`
models `appendMessage` over the SQLite table, whose primary key rejects a repeated id.

*Permissions.* `Layers` are the rule sets of `buildLayeredPermissions`, lowest first: the default of the
settings, the default and the rules of the agent, the rules of the session; `Rules` puts the implied
`* -> allow` before them where nothing speaks of `*`. `Merged` keeps the last rule of each pattern, and
`CheckPermission` looks first at the rule that names the tool, then at the wildcards that match it, the
strictest first (deny, ask, allow). A pattern is a tool or a wildcard, and `Covers` says which tools a
wildcard matches, which is all the regular expression is for. The layer of the user is left out: the gate
passes none (`toolUseGate.ts:175`). `calls[p]` is the call at a position as hooks leave it and `written[p]`
as the LLM wrote it. A `PreToolUse` hook may put another call in place, of another tool too, and the
permissions are not asked again; `RunsArePermitted` says what is left: what runs was let through as it was
written (where the rules ask, a person approved that very call), and is either the written call or what a hook
made of it (where the hook asks, a person approved that). So a denied tool can run, through a hook and through
nothing else, and the run has such a hook.

*Environment.* The LLM, tools, hooks, plugins, listeners, the user who answers approvals and
the terminal sessions are nondeterministic. A plugin handles, of each of its tools, nothing,
the first call or every call, as `executeToolCall` and `executeAllMatchingToolCalls` do.

*Elsewhere.* What a request is made of is `TurnContext`, the hooks one by one `PluginHost`, checkpoints
`Checkpoints`, the calls of a plugin's batch `ToolBatch`, which loop a message starts `LoopRuntime`.
`resumeSession` is left out.

| run | question |
|---|---|
| `agent_turn_gate` | one turn, layered settings with exact and wildcard rules, a tool that is allowed, one that asks and hands over terminal sessions and one that is denied; hooks that ask, deny or put a call of the denied tool in place; a failing LLM, cancellations: `EveryCallAnswered`, `RunsArePermitted`, `StopHookOnce`, `CancelStops`, `TurnEnds` |
| `agent_turn_two` | two turns of one conversation in the same milliseconds, plugin and registry calls mixed, listeners that throw: `AnswersAreInOrder`, which is `ResultsFollowCall` and `AnsweredAtMostOnce` |
| `agent_turn_resume` | a finding (section 12) |

*Bounds.* Two iterations reach a second request with the results of the first and, with a
doom-loop threshold of 2, the guard; three milliseconds let any two writes fall together or
apart; two turns are the least that race. `CancelStops` needs three iterations to fail. The settings have a
default, a rule of the agent that a rule of the session replaces, a tool with a rule of its own that asks where
the wildcard `*` allows, and one that two wildcards match, so that order and precedence both decide.

*Fairness.* `FairSpec` is weakly fair to each turn's own next step: promises that are
resolved are continued, the LLM, tools and hooks answer, an approval is answered by its
timer at the latest. It also assumes that every terminal session ends, which the code does
not guarantee (listed as a hazard).

### Proofs

`AgentTurnProofs` proves every safety property of the two passing runs, for any number of turns,
tools, calls, permissions and responses, by one chain of invariants:

- `Shape` (every turn is a record of the turn's fields), `CallsInv` (in each phase, the positions still
  to be decided or run are positions of the response), `GateInv` (what waits behind the gate was
  let through as it was written, is what was written or what a hook made of it, was approved where that was
  asked, and was refused by nobody) and `RanInv` (so was what ran): together `TurnsInv`. `RunsArePermitted`
  alone is not inductive, since it speaks of a call only once it ran; `GateInv` is what the run relies on. From
  here `NothingRunsUnpermitted`, which states the rules in force by themselves (`InForce`, `Deciding`):
  `MergedIsInForce` shows that the merge finds them, and `PermissionIsSound` that the order of the lookups in
  `CheckPermission` decides as they do.
- `StopInv` follows the stop hook on every way out of a turn; a listener that throws skips it, so
  `StopHookRunsOnce` assumes `~ListenersThrow`.
- `CancelInv` counts the requests after a cancellation and needs that nobody clears the flag, so
  `CancellationStops` assumes that one turn at most runs; the run `agent_turn_resume` shows why.
- `Table` and `OrderInv` follow the clocks: a clock that was read and not yet stored is later than
  its assistant message in the order `getMessages` reads, whatever other turns store meanwhile
  (`ResultsComeAfterCalls`).
- `Single`, `Open` and `AnswerInv`: a call that is still open has no result, and one that is not
  has exactly one or was dropped. It gives `CallsAreAnsweredInOrder` (at most one), and, with the tool loop on
  and without plugin tools, which may drop calls (section 12), `NoCallIsDropped` (exactly one).

`TurnEnds` is model-checked only.

### 4.2 `Approvals`

`tools/approval.ts`: `pending` is `pendingApprovals`, `timers` are the timeouts that were set
and never cleared, `decision` what the promises were settled with. A request of the gate has
an id made of conversation, tool and millisecond; `MayCollide` says whether two requests may
get the same one. The run `people` (section 7) takes `MayCollide = FALSE` and shows that every request
ends and that its decision is one that was made for it; with colliding ids the first promise is
never settled (section 12). Clock and timeout are bounded (`MaxNow`,
`Timeout`); a timeout of one millisecond lets answers, cancellations and timers meet in
every order. Fairness: time passes, and a timer that is due fires; nobody has to answer.

`PeopleProofs` proves, for every set of requests, agents and timeouts and without colliding
ids, that no request is allowed by what was meant for another (`AnsweredAsShown`), that it is denied
only for a reason of its own (`DeniedForItsOwnReason`), and that the table shows exactly the
requests that still wait (`ShownIsUndecided`). The decision of
a request says nothing about the ids it was made under, so neither is inductive: `IInv` adds
that ids differ (`IdsDiffer`, `IdShape`), that an entry is its own request's (`EntryIsOwn`), that
a promise is undecided exactly while its entry exists (`EntryIffUndecided`), and that each
request has one timer at most (`OneTimer`), because a timer looks its request up by id when it
fires.

## 5. Device trust: `DeviceTrust`

Local pairing and the authorisation of business streams
(`libp2pDeviceNetworkService.ts`, `localTrustDeviceAuthorizer.ts`, `CLI/deviceNetwork/trustStore.ts`).

| state | code |
|---|---|
| `trusted`, `found`, `session` | `trustedDevices`, `discoveredDevices` with their own trusted flag, `pairingSessions` |
| `disk`, `writes` | the trust store and the promises of its calls, in the order of the calls |
| `handshake`, `clock` | how far a pairing request is, `Date.now()` against `expiresAt` |
| `stream` | business requests that were authorised by the opener and not yet by the answerer |
| `confirmed`, `ever`, `given`, `adrift`, `served` | history: what users and hosts said, which writes failed, which requests were handled |

The handshake is four actions (request, handling, response, failure at any point); accepting
puts the record in memory and calls the store, whose promise settles later (`SaveDone`,
`RemoveDone`, `WriteFails`). `Stop` and `Crash` can come between any two steps; a crash leaves
on disk any prefix of the calls under way for a peer. The store is assumed to apply its calls in
order: `FileDeviceTrustStore` writes synchronously within the call. `Start` is one step
although it awaits the store, because `cli.ts` awaits it before anything else can be asked.
Identity checks of the messages and the confirm code are not modelled: a message that fails them
is a failed handshake.

| run | what it shows |
|---|---|
| `device_trust` | a removed peer stays removed over restarts and late saves (`TrustWasConfirmed`); what is shown is stored and served (`ViewsAgree`: memory and store agree when nothing is under way and nothing failed, `StoreMatches`, and the device list shows what is served, `ShownIsServed`); business needs both sides (`BusinessNeedsBoth`) |
| `device_trust_rejected` | a finding (section 12) |

*Bounds.* Two devices and one pairing request, at most two of the removals, host records,
failed writes, stops and crashes (`MaxUpsets`), two calls of the store under way for a peer
(`MaxWrites`). A stale save needs a save and a removal; what a restart loads needs one more.
There is no liveness here: nobody has to answer, and a pairing may be left to expire. What the
network tells of other devices, and the listeners of the list, are `DeviceDirectory` (section 9); records
of a cloud account are `CloudTrust` (section 8).

### Proofs

`DeviceTrustProofs` proves `TrustIsConfirmed`, `BusinessIsMutual` and `ShownIsStoredAndServed` for any devices,
pairing requests and bounds. `TrustWasConfirmed` speaks of memory only, but memory is refilled from the store,
so the invariant follows the calls under way: for each peer, if it is not confirmed and writes are under way,
the last of them is a removal (`LastWord`), what is stored without a write under way was confirmed
(`StoredWasConfirmed`), and every save is that of a session of the two (`WritesAreOwn`).
`ShownIsStoredAndServed` proves `ViewsAgree`. While calls of the store are under way it says nothing, so its
invariant `View` says what memory holds meanwhile: but for the records a host set, memory is what the last call
under way will make of it, and what is stored when none is; a peer found as trusted that is not waits for a
removal under way. A save or a removal that is still awaited is thereby tied to the memory it started from, over
a session that expires and a node that restarts in between.

## 6. Terminal sessions: `TerminalSession`

`TerminalSessionManager` and the tools that start a session. The operating system's process is
external: it writes (`Write`), ends (`Die`), or cannot be spawned; Node delivers its output
(`PushOutput`) and its end (`Exit`, `SpawnError`) as separate events, so output may come after
the exit. `Start`, `Wire`, `Follow` and `CancelTimedOut` are the parts of a tool call between its
awaits, in the four modes of `terminal.start` and the three wait modes of `terminal.execute`.
`Complete` stands for the session-complete listeners (the message to the parent conversation,
the turn that waits), `Unwire` for the status listener that removes the others. `Cancel` and
`SignalRefused` include the `error` event a refused kill emits inside the call. What a chunk
says only matters for the prompt patterns, so a chunk is its number and a match is a choice.

The run `terminal_session` checks `TranscriptInOrder` (the stored conversation has the output in
order and without holes), `NoPromptAfterEnd`, `OneCompletion`, `TimeoutStops`, and under
fairness `EndIsReported` (`CompletionReported` and `AwaitEnds`). One session is enough because every listener
compares the session's identifier first; four chunks let output fall before the listeners are
registered, while they are, and after the exit. Fairness: Node delivers the end of a process that
ended, and the event loop continues tool calls and turns. Nothing makes a process end.

With the SQLite store the conversation of a session is prepared without yielding, so the listeners
are there before any event; the step between `Start` and `Wire` is that of an asynchronous store,
which the check after the registration (`terminal.ts:245`) expects too.

`PreparationFails` is the store's refusal to write that row (`sessionStorage.ts:12`). The tool calls await it
before their `try` (`terminal.ts:196`, `:363`), so the call is over with an error while the command runs on:
no listener is registered, nothing is recorded or reported, and `terminal.execute` cancels nothing.
`TimeoutStops` says that this is the only way an until-timeout call leaves its command running; `EndIsReported`
speaks of the listeners and waits that were there when the process ended.

`TerminalSessionProofs` proves every safety property of the run for any
sessions and any amount of output. `ToldOnce` needs `ListenerIsFresh` (a registered
completion listener belongs to a running session nobody was told about) and `BeforeWiring`;
`QuietAfterEnd` and `NothingLeftRunning` follow from the same invariant. `OutputIsRecorded` proves
`TranscriptInOrder`: what is stored and what waits in the persist queue, one after the other (`Kept`),
increases, and together with what could not be stored it is an interval of the output, which ends with the last
chunk while the listener is registered (`Recorded`).

## 7. People: `Questions`, `ImChannel`, `ImReply`, and the run `people`

Where the program waits for people or talks to them through a messenger.

| module | code | state | what interleaves |
|---|---|---|---|
| `Questions` | `questionWaitRegistry.ts`, `askQuestion.ts`, `askUserQuestion.ts` | open questions, their timers, what the host was told | an answer while the question is being shown, later, too late, twice |
| `ImChannel` | `ML/im/channelManager.ts`, slash commands, the tag of a conversation | the binding of a user in memory and in the table, conversations | requests of one webhook at every `await`; `/switch`, `/new`, a failing store, a restart of the manager |
| `ImReply` | the reply slicer, `platformLimits` | the buffer, flushes, the promise of the call | several slicers on one buffer, flushes that fail or complete late, the end of the turn |

The host that receives a webhook is external: it hands a text to the slash commands first and
dispatches what they leave. `/list`, `/status` and `/cancel` change no binding and are one kind of
request. Text is a sequence of pieces, each a number, some of them white space.

Approvals, questions and the messenger's two directions share no variable. The run `people`
(`MCPeople`) chooses in its initial state which of them this behaviour is about (`part`), and
the others rest; a violation of any property of theirs is one of the run.

| property | says |
|---|---|
| `AllowedAsShown`, `DeniedForAReason`, `PendingIsUndecided` | an approval is decided by what was said about it, and the table shows what still waits |
| `AnswersReachTheAgent` | an answer the host was told is accepted is what the tool returns, and the only one |
| `ChannelIsSound` | `TextsFollowTheBinding` (a text that was handled is in exactly one conversation, and in the one its user had chosen when it came, if there was one, whatever ran beside it and over restarts) and the reply's `ReplyIsWhole` (in order, once, within the limit, and complete when the call resolves) |
| `PeopleAreServed` | approvals, replies and questions end, whoever stays silent |

*Bounds.* Three approvals, of which two compete for an id and one comes from a plugin; three inbound texts of two
users, the least that lets one user's requests overlap while another's pass; five pieces of
which two are blank, cut at two: full, short and blank slices, two slicers at once; two questions.

*Fairness.* Time passes and timers fire (`ApprovalFairness`, `QuestionFairness`); a platform
call is answered or fails (`ReplyFairness`). No person has to do anything.

### Proofs

`PeopleProofs` proves `AcceptedIsReturned` for any questions and answers (none of which is the text that
stands for a timeout). The invariant `QuestionInv` relates the registry, the timers and the
phases of the calls: a call waits exactly while it is registered and has a timer.

`MessengerIsSound` proves `ChannelIsSound` for any users, requests, conversations and limit of a message.
`ImInv` says for each phase of a request where its text is: nowhere before it was sent, then in exactly one
conversation, and, if its user had chosen one when the request came, in that one (`RequestOk`). For the
reply, `ReplyInv` says that the texts of all flushes, one after the other, and the buffer show what was
produced, blanks left out, and that each flush is within the limit (`Gives`). That cutting a text into slices
and joining the slices again loses nothing is proved by the lemmas on sequences of sequences in
`SequenceLemmas`.

The four theorems on approvals are described in 4.2. `SequenceLemmas` holds what several of these modules
need of sequences: a least counterexample (`NatMin`) takes the place of an induction, sets of
numbers can be put in order, and `FlattenSeq` respects `Append` and `\o`.

## 8. Around the turn: the run `agents`

Each module below models one part beside what it interleaves with. They share no variable, so
`MCAgents` extends them all, and a behaviour is one of one `part` while the others rest.

| module | code (paths in `PROJECT.json`) | what a step is, and what is hard |
|---|---|---|
| `AgentScript` | the agent-agent loop with the bundled quality gate | batches of children in parallel or in order; a cancellation between any two of their events; approvals only of all reviewers |
| `ToolBatch` | `defineTool.ts`, the two executors of a batch | the timer of each call and that of the batch against late or absent results; results told one by one, with hooks in between that may throw and end the handler |
| `SubAgents` | `task.ts`, `spawnAgent.ts`, `remoteAgent.ts` | delegation that nests, several children at once where a parallel response makes several calls, and a remote log that grows while it is polled or streamed; a request that fails may have been carried out |
| `RemoteCalls` | RPC in `libp2pDeviceNetworkService.ts`, `agentRuntimeRpcHandler.ts` | a request read, checked, handled and answered in steps of two devices; a connection lost at each; cancellations against turns |
| `TurnContext` | history compaction, prompts, `TokenTracker` | each iteration reads the stored messages anew, while a summary is written and users write; an age limit drops any of the messages |
| `PluginHost` | `ML/loopAPI/hooks`, `ML/plugin` | handlers registered, replaced and taken away under an execution; loads that overlap |
| `LoopRuntime` | `runtime.ts`, loop registry, builtin tools | which plugin a tool is bound to after starts, turns and hosts in any order; which definition a message runs; which source a script policy lets in |
| `FileTools` | `fileRead/Write/Edit`, the store of hashes | other programs and `file.write`, whose open and write the thread pool carries out, between a read, the check of an edit and its write; writes that fail |
| `WikiRoster` | `wikiManager.ts`, knowledge tools, `nodeRuntime.ts` | boots shared by callers, instances thrown away by a refresh, refreshes that fail midway |
| `Checkpoints` | the two checkpoint stores | overlapping saves of a truncate and a write; a crash between; conversations that share a file name |
| `SolidPod` | `solidPodAdapter.ts` | a push that reads conversation by conversation while messages come; failing requests; stop and start |
| `NodeTools` | demo servers, screenshots, editor, MCP clients | what a call started and has to stop, close or remember on every way out |
| `CloudTrust` | `syncCloudDevices.ts`, `cloudDeviceAuthorizer.ts`, `CLI/cli.ts` | merge of a listing into a cached store; grants cached against their end and a revocation; the daemon's start, heartbeats and stop |

What is outside a module is nondeterministic: the LLM, executors, remote devices, the cloud, other
programs, the pod. A child agent of a script is an abstract turn (a run that yields text and ends or
throws), which is what `AgentTurn` promises with `TurnEnds`.

| property | conjuncts |
|---|---|
| `DelegationIsSound` | `ApprovalIsWhole`, `NoStrayChildren`, `ForegroundIsAwaited`, `ResultsAreTrue`, `DescriptionsStay`, `RevocationTakesHold`, `GrantsOutlastCalls`, `MessageRunsItsDefinition`, `ScriptsArePermitted` |
| `ToolsReport` | `EveryCallReported`, `SummaryIsFaithful`, `NodeToolsAreSound` |
| `ContextIsSound` | `RequestIsWhole`, `ResultsKeepTheirCalls`, `OneCompaction` |
| `PluginsAreSound` | `NoHookIsSkipped`, `ActiveOnce`, `HostPluginsStay` |
| `EditsLoseNothing` | an edit is made in the content that was read, not longer ago than a hash lasts, changes the old text only, and writes over what it read unless it was raced from outside the event loop |
| `KnowledgeIsCurrent` | `ReadsFollowEdits`, `RosterIsFresh`, `CheckpointsAreSound`, `BackupIsSound`, `SyncIsKept`, `CacheIsWritten`, `PresenceIsSound` |
| `AgentsEnd` | under fairness scripts, batches, calls between devices and of remote agents, pushes, tools and calls with grants end |

Each conjunct is stated and explained in its module, and each has a mutant of the code that breaks
it. Where a property makes an exception (an overlapped load, a torn file, a message that came
during a push, `EditsLoseNothing` for the text `$&`), the exception is behaviour of the code that
section 12 lists.

The run `pod_backup` checks the promise of a comment of `SolidPod` and finds it broken (section 12).

*Bounds.* They are named CONSTANTS of each module. Each is the least that lets the part's own hazard
happen: two workers and two reviewers with two iterations; three calls of which one
may outlast the batch; a remote log of four messages; four turns, so that delegation nests and runs beside
another; histories of six messages with every compaction option; three handlers, two names and one execution with
two loads; one file of two lines that may differ, with the pattern `$&` among the new texts, and one
`file.write`; two wikis, two saves with a crash, two starts of the backup with a failure, two tool calls on two
ports, two cloud devices with four changes.

*Fairness.* Each part asks only for what its code schedules: a script and its children continue,
a resolved promise is continued, timers fire, the other end answers or the request fails, and
a hook that is awaited answers or throws (nothing of the repository taps `toolExecuted`). In `FairSpec`
each condition also names its part, which says the same of a part that rests and spares TLC work.

### Proofs

`AgentsProofs` proves the six invariants of the run for every value of the constants. Each part has its own
inductive invariant, and a theorem on `FairSpec` joins those of the parts its property is about.

| theorem | invariant | what it adds to the property |
|---|---|---|
| `PluginsStaySound` | `PluginInv`, `ToolInv` | what an execution must ask it has asked or will ask in the array it walks (`MustBeAsked`), which only grows; a plugin whose loads did not overlap has one caller that loads it (`OneLoader`) |
| `ToolsAlwaysReport` | `BatchInv`, `RemoteInv`, `NodeInv` | what is no entry of a batch has been refused, and no call outlasts its own timer; what is told and what is still to be told is one list of all calls in their order; what was collected is the beginning of the remote log; a process that is up is waited for or remembered, and browsers and clients are open only where they are used |
| `DelegationStaysSound` | `ScriptInv`, `TaskInv`, `CallsInv`, `GrantsInv`, `MessageInv` | a parallel batch is cut as a whole (`AllOrNone`), an ended one is settled (`BatchOk`); what a call does before and after its message (`CallOk`, `Done`); the children a turn waits for are of the last round of calls it made; every grant kept was issued to the two devices and outlasts its margin (`Issued`, `GrantedCall`) |
| `KnowledgeStaysCurrent` | `WikiInv`, `CheckpointInv`, `PodInv`, `SyncInv`, `DaemonInv` | a settled edit is in the instance that is cached (`CacheOk`), a refresh alone reads instances booted since it began (`RefreshOk`); an unspoiled file has one save at a time (`ChatOk`); what a push has passed is collected or counted as missed (`CollectedOk`); a merge keeps what it loaded until it reaches the device (`MergeOk`) |
| `ContextStaysSound` | `TurnInv`, `TrackerInv` | stored results follow their calls unless a message came between (`Paired`); a history in preparation is the one that was read or its compaction (`HistoryOk`), of which nothing is dropped but before a message of the user |
| `EditsAreOfWhatWasRead` | `FilesInv` | contents are texts, times are numbers; a write of an edit under way carries what was read and checked, and its file holds that still unless it was raced (`WritingInv`) |

`ToolsAlwaysReport` assumes `ShortTimers`: the timer of a call ends before that of its batch, as the
defaults do (30 and 120 seconds, `parallelExecution.ts:7-8`); otherwise the batch's timer hides results (section
12). `EditsAreOfWhatWasRead` needs that a synchronous write holds the event loop (`LoopFree`): what changes a
file between an edit's read and its write is then another program or the thread pool, and is noted. The rest of
its work is in the algebra of the lines that are changed.

*What the properties do not promise.* With `maxHistoryAgeMs` a request lacks what is older than the limit, be it
the question itself or the call of a result it keeps; since messages carry the clocks of several devices, it
need not be a first part of the history that is cut (`RequestIsWhole` excepts exactly these messages, and
`ResultsKeepTheirCalls` speaks of settings without a limit). A failed synchronous write may leave the file
empty, and `write_file` may write over a file that was made after it looked. A batch whose hook throws has no
results for its later calls.

## 9. Clients: the run `clients`

What a person sees is a copy of state elsewhere, and what a person does is a call that answers later.

| module | code | what is hard |
|---|---|---|
| `ConfigTui` | `CLI/providers/*` | two configuration files of which one hides the other, keys in a third, every form that saves, migrations, diagnostics under way |
| `AgentSession` | `agent-management` session controller | start reads before it subscribes; polls overtake each other and come after a stop |
| `DefinitionEditor` | `agentDefinitionEditor` | an autosave timer with content of its own beside saves and loads under way; saves that write some of the fields (`SavedEdits`) |
| `AgentCreation` | creation wizard, prompt preview | calls that answer into a later state |
| `TerminalOutput` | reading side of `sessionManager.ts` and `terminal.ts` | dropped chunks, readers that come back, merged notifications, output after the end |
| `ChatComposer` | composer, execution target selector | what is shown and what a reference holds; one restart at a time |
| `ChatMessages` | web and native chat views | the turn of a message; details that load late; a question shown again |
| `ChatTui` | `CLI/tui` | launch without a provider, hooks, steps of the agent, print mode |
| `DeviceDirectory` | device list of both network services | overlapping starts and stops, late first lists |

`terminal.execute` is a reader of `TerminalOutput`: it starts the command, prepares the storage, which may fail
outside its `try` (`terminal.ts:363`), and then its waiting loop is a follow from chunk 1. `ReadersSeeTheOutput`
says that in its default mode an execute that was prepared leaves no session running; one that failed has read
nothing and leaves its command alone. Key presses of the configuration program are one step; a text is typed by
one step. Widths, colours and wording are left out.

| property | conjuncts |
|---|---|
| `ListsAreCurrent` | `ListIsCurrent`, `ListenersAreCurrent`, `OnlineIsConnected`, `MemoryListsAreCurrent` |
| `ShownIsTrue` | `ShownIsTheLog`, `NoticesAreTheOutput`, `ReadersSeeTheOutput`, `TurnActionsAgree`, `PanelIsSound`, `ReplyIsWhole` |
| `EditingIsSound` | `EditsAreSaved`, `EditorSettles`, `CreationSettles`, `AgentsAreAccountedFor`, `AttachmentsAreShown`, `RestartsAreAsked`, `QuestionAnsweredOnce` |
| `OthersUntouched` | an action property: no step changes a provider the user did not point at |
| `ClientsSettle` | under fairness diagnostics stop, the shown status catches up, readers return, dialogs unlock, panels get their answer, a chat's messages are handled |

`ShownIsTheLog` excepts messages that were written between start's read and its subscription, which the
code does not fetch again; `EditsAreSaved` excepts definitions whose saves crossed or failed,
and is about the edits of fields that a save writes: name, description, `agentFrameworkConfig`, `aiApiConfig`,
`agentTools`, `heartbeat`.

*Bounds.* Two providers with three kinds of first files, two submitted forms, two checks under way; two messages
in two versions with two polls; two definitions and two edits with two saves and loads under way; three wizard
calls; four chunks of which two are kept; two attachments and two sends; three targets; four
messages; one observed device with two overlapping starts. A stale copy needs two writes
or two answers that cross; a third adds nothing that two do not show.

*Fairness.* Answers of the node arrive, timers fire, handlers are continued. The controllers give no order to
answers, so none is assumed.

### Proofs

`ClientsProofs` proves `ListsAreCurrent`, `OthersUntouched`, `ShownIsTrue` and `EditingIsSound` for every value
of the constants.

| theorem | invariant | what it adds to the property |
|---|---|---|
| `ListsStayCurrent` | `ConfigTypes`, `DirectoryInv`, `MemoryInv` | the list is that of the files in every view, since a cloud's save leaves it alone (`CloudKeeps`); of the lists promised in memory the last that reaches a listener is the current one (`LastIsCurrent`) |
| `OthersStay` | `ConfigTypes` | each function on the files leaves the rows of other names (`AddKeeps`, `RemoveKeeps`, `UpdateKeeps`, `ImportKeeps`, `MigrateKeeps`): the first entry of a name shows the same before and after (`SameFor`) |
| `ShownStaysTrue` | `SessionInv` | what the invariant says of messages on their way: the last version of a message among them is the current one (`VersionInv`), and a message is listed, or comes, after those created before it (`OrderInv`); what a start has read is a beginning of the log, and what was written since is noted (`ReadInv`) |
| | `OutputInv`, `NoticesInv` | the kept chunks are the last ones, numbered without gaps (`LastOf`), so that what a reader is given and what it has lost make up the output; notices and what waits for the next are one sequence (`Told`) |
| | `LogTypes`, `PanelInv`, `TuiInv` | the loops of both views stop at the same user message (`TurnsAgree`); a panel that shows something has no request out; the reply is what was produced so far |
| `EditingStaysSound` | `EditorInv` | every edit of a field a save writes is with the timer, with a save or stored (`Held`) |
| | `WizardInv`, `DialogInv` | a finalize keeps the definition that was shown at the click; an agent is of a finalize, the preview, or one that was displaced |
| | `AttachInv`, `TargetInv`, `QuestionInv` | only a confirmed send has emptied the reference of a file that is shown; the dialog asks about no declined target; an answer that is not marked was forgotten |

Rows are compared as they are read again: a save writes resolved placeholders to another file, and
`SavedKeeps` shows that what `loadConfig` makes of it has the same rows. An import is a function of
its entries one after the other; `IterationExists` gives its results and `IterationKeeps` what all of them keep.

## 10. What is proved, and from what

| module | theorems | assumptions beside those of the module |
|---|---|---|
| `ChatSyncProofs` | `Invariant`, `TypeCorrect`, `MessagesHaveProvenance`, `NoOrphans`, `Refinement` | |
| `ChatSyncProofs` | `Delivery` | `PlainHosts` |
| `ChatSyncProofs` | `AttachmentsArrive` | `Mesh` |
| `AgentTurnProofs` | `TurnInvariant`, `NothingRunsUnpermitted`, `ResultsComeAfterCalls`, `CallsAreAnsweredInOrder` | |
| `AgentTurnProofs` | `StopHookRunsOnce` | `~ListenersThrow` |
| `AgentTurnProofs` | `CancellationStops` | one turn at most |
| `AgentTurnProofs` | `NoCallIsDropped` | `EnableToolLoop`, no plugin tools |
| `PeopleProofs` | `ApprovalsInvariant`, `AnsweredAsShown`, `DeniedForItsOwnReason`, `ShownIsUndecided` | `~MayCollide` |
| `PeopleProofs` | `AcceptedIsReturned` | the words for a timeout and for no answer are nobody's answer |
| `PeopleProofs` | `MessengerIsSound` | |
| `AgentsProofs` | `PluginsStaySound`, `DelegationStaysSound`, `KnowledgeStaysCurrent`, `ContextStaysSound` | |
| `AgentsProofs` | `ToolsAlwaysReport` | `ShortTimers` |
| `AgentsProofs` | `EditsAreOfWhatWasRead` | `MaxAge` is a natural number |
| `DeviceTrustProofs` | `TrustInvariant`, `TypesHold`, `TrustIsConfirmed`, `ShownIsStoredAndServed`, `BusinessIsMutual` | |
| `TerminalSessionProofs` | `SessionInvariant`, `TypesHold`, `ToldOnce`, `QuietAfterEnd`, `NothingLeftRunning`, `OutputIsRecorded` | |
| `ClientsProofs` | `ListsStayCurrent`, `OthersStay`, `ShownStaysTrue`, `EditingStaysSound` | |

Each invariant is shown to hold initially and to be preserved by each action, and the theorem
combines the two. A theorem states the property its run checks: the run shows it on a small
instance and the theorem for every value of the constants, under the assumption in the table.

The assumptions of the modules say what kind of thing each constant is. Some rest on the code:

- `TurnAssumption`: there is a wildcard that matches every tool, and rules name tools or wildcards
  (`engine.ts:14`).
- `WikisAssumption`: there is a wiki; without a configured one there is `default` (`nodeRuntime.ts:362`).
- `ContextAssumption`: counts of messages and turns to keep are natural numbers; the code treats a negative one
  as zero.
- `CloudAssumption`: a grant outlasts the margin it is renewed with, and nobody calls itself.
- `ScriptAssumption`: a script with workers has somebody to fix what they did; the loop runs at least once.
- `CallsAssumption`, `FilesAssumption`, `PodAssumption`, `NodeToolsAssumption`, `LoopAssumption`,
  `ConfigAssumption`, `DirectoryAssumption`, `EditorAssumption`, `CreationAssumption`: the value that stands for
  an absent row, file, record or port is none that can be there.

Proofs by induction over the length of a sequence are made with a least counterexample (`NatMin` of
`SequenceLemmas`), since the library's induction theorems take an operator as a parameter.
A filter a theorem is about (`Without`, `ChunksSince`) is a recursive function, of which `FilterIs` says what it
keeps.

Out of the prover's reach, and checked by TLC only: everything under fairness (`SyncEnds`,
convergence, `TurnEnds`, `EndIsReported`, `PeopleAreServed`, `AgentsEnd`, `ClientsSettle`).

## 11. Not modelled

- *LLM clients and provider adapters* (`ML/llm`): a request and its stream of text; what the text says is
  the model's free choice of a response.
- *IM adapters* (webhooks of the platforms, their signatures and encryption): they turn a platform's
  request into the inbound text `ImChannel` starts from.
- *Todo lists*: one list in memory with synchronous changes, the same for all conversations (section 12).
- *Shell, search, web and language-server tools*: one call each, without state between calls.
- *Command line, key pair, session listing*: arguments, files that are read once, printing.
- *Widgets, rendering and styles* of the React UI and the terminal UI: functions of the state that the
  modules of section 9 model.
- *Partly modelled*, with the reason in `PROJECT.json`: relay reservations and addresses of the device
  network, listing and searching files, the `agent` tables of the store, parts of the sub-agents' text.
- *Text*: parsing of tool calls out of a response, truncation of outputs, wording.

## 12. Where the code and its documentation disagree

Runs that end in a counterexample, each quoted in `PROJECT.json`:

- `agent_turn_resume`: a message sent after a cancellation clears the flag for the turn that was
  cancelled too, which goes on.
- `device_trust_rejected`: the save of an accept fails, the user rejects the session, and the peer
  is still served.
- `pod_backup`: a message stored after a push has read its conversation and before the push is
  dated is taken for backed up.

### Seen while modelling, without a run of their own

Synchronisation and the store
- A device that pulls from a peer in the middle of its own pull gets a message and never its attachment
  (`chatSyncEngine.ts:124`); one whose request failed is asked for again only with a message that is missing
  (`:137`).
- `messageCount` of a pulled conversation is the peer's, and stale once messages are inserted
  (`sqliteStorage.ts:383`, `types.ts:34`).
- Conversations beyond the 500 most recent are never offered (`libp2pDeviceNetworkService.ts:562`); an
  engine kept between calls would compare clocks with message counts (`:911`, `chatSyncEngine.ts:82`). The
  client side of a sync request has no timeout (`libp2pDeviceSyncTransport.ts:55`).

Turns, tools and approvals
- Two results of one tool in one millisecond have one id, and the turn fails (`toolCallRunner.ts:112`); two
  approvals of one tool in one millisecond share an id, and the first is never settled (`approval.ts:63`,
  `toolUseGate.ts:149`).
- A `PreToolUse` hook may replace a call's `toolId`, and the permissions are not asked about the new tool
  (`toolUseGate.ts:96`, `:200`): a tool that is denied runs. Nothing says what is meant; `HOOKS.md:16` lists
  "permission override, argument mutation". A hook's "allow" cannot lift a permission rule's "deny" (`:192`,
  `HOOKS.md:57`).
- Layers of permissions override each other for one pattern only: of two wildcards that match a tool the
  stricter one decides whichever layer it is of, where `permission/types.ts:5` says that "later layers override
  earlier ones".
- A plugin that handles one call of a response and continues the iteration drops the others
  (`turnPrimitives.ts:314`). A listener that throws skips the `AgentStop` hook (`runtime.ts:45`). Results of
  plugin tools are stored with clock 0 (`defineTool.ts:393`). Two turns may use one clock value
  (`nextLamport.ts:12`).
- A process that stops between an assistant message and its results leaves calls without results in the history
  (`turnPrimitives.ts:260`). A terminal session that never ends suspends its turn for ever
  (`nodeRuntime.ts:277`).
- A hook `toolExecuted` that throws ends the handler of a batch: the later calls get no result and the iteration
  is not continued, so the turn takes them for pending, and runs them again where the registry is the fallback (`defineTool.ts:604`,
  `:623`, `turnPrimitives.ts:328`).
- Without a timer of its own a single call of a batch can hang, and in a larger batch the batch's timer hides
  results that were there; a batch approval shows the first call's parameters only (`defineTool.ts`).
- A batch of a script that runs in order and is cut by a cancellation counts as whole (`quality-gate.mjs:33`,
  `loop.ts:337`); a script's child's child does not see the cancellation (`runtime.ts:139`).
- Tasks of one agent in one millisecond share a conversation, as those of one parallel response do, and the
  nesting guard never fires: nothing sets the identifier it reads (`task.ts:32`, `docs/ARCHITECTURE.md:60`).
- `todoWrite` finds no conversation in either of the contexts it is bound to, so all conversations share
  one list (`todoWrite.ts:94` against `:5`, `builtinToolsPlugin.ts:135`).
- A summary is appended with the newest clock, so a later iteration compacts again; a configured prompt of the
  user at the end is stripped; pictures do not reach the model (`types.ts:110`, `modelMessages.ts:85`); a limit
  of age may part a result from its call or drop the question (`:64`); after three failures `TokenTracker` never
  triggers again.
- Re-registering a hook's name runs both handlers until the next unregistration; unloading a plugin leaves its
  hooks and tools (`plugin/registry.ts:25`); a later "ask" weakens an earlier "deny"; `listTools` and `getTool`
  may disagree (`toolRegistry.ts:38`).
- Binding a turn drops fields of the host's context; a flag given as
  undefined switches a policy flag off that is on by default; an agent whose runner throws leaves a row that claims
  a message; a conversation whose definition is not found only stores the message and reports it as queued.

Files, knowledge, backup and what runs outside
- `edit_file` treats `$&` in the new text as a pattern unless it replaces all; hashes are shared by all agents;
  `file.write` is neither checked nor atomic, and what it or another program writes between the read of an edit
  and its write is lost (`fileEdit.ts:51`, `:92`).
- Edits of a wiki live in memory only; a failed boot stays cached; overlapping refreshes may announce older
  definitions (`nodeRuntime.ts:366`), and one that fails midway leaves definitions ahead of what is announced
  (`:371`).
- Overlapping checkpoint saves may leave an older or mixed file; names that differ in replaced characters share
  one.
- Pushes of the backup may overlap; a pull that fails at the start lets the first push replace a fuller backup;
  only the 50 most recent conversations are listed; two devices overwrite each other.
- Every permitted call of the shell tool ends in a `ReferenceError` (`bash.ts:66`). `webFetch` clears its timer
  at the headers.
- Stopping a demo server kills the shell only; another program on its port counts as ready;
  `cleanupAllDemoServers`, to be called at exit (`demo.ts:330`), is called nowhere. One failing MCP server fails
  the whole list.
- Deleting a session in the command line finds no `cancelAgent` in the SQLite store and reports failure
  (`sessions.ts:102`).

People
- `askQuestion.ts:42` tells the host of a question before it waits for the answer: an answer
  given inside that call is refused.
- First messages of one user that come together make two conversations; `getBinding` may write an older row over
  the cached one (`channelManager.ts:27`); an error of the agent drops the text in the reply's buffer; flushes
  may complete out of order.

Devices
- A peer whose removal failed is shown as trusted though it is refused; `rejectPairing` after an
  accept changes the session and not the trust; a removal while start awaits the store is undone in memory
  (`libp2pDeviceNetworkService.ts:409`); a request that was authorised is handled although the peer is removed
  meanwhile (`:493`).
- Overlapping calls of `start` create two nodes; a first list may arrive after unsubscribing (`:177`).
- The reader of a request or answer takes the first chunk for the whole message (`:861`); a failing read of a
  row replaces a described conversation by a stub (`agentRuntimeRpcHandler.ts:87`).
- A cloud sync saves a changed record as one of the cloud account, though its comment says the trust mode is
  preserved (`syncCloudDevices.ts:38`); a revocation is cached and not written; a pairing or a removal during a
  load is undone in the cache (`cli.ts:41`). A grant inside the margin is not used when the cloud cannot be
  reached. `syncCloudDevices` has no caller.
- A registration that fails ends the daemon by an unhandled rejection; an incomplete identity file is replaced
  silently.

Terminal and clients
- A store that refuses the row of a terminal session fails the call before its `try`, and the command it started
  runs on unwatched (`terminal.ts:196`, `:363`).
- `terminal.execute` in its default wait mode returns at the first output and cancels the command
  (`sessionManager.ts:374`, `terminal.ts:422`); it does not wait for the persist queue, whose promise it read
  before any output came (`terminal.ts:365`). `cancel` changes the status of a session that had
  exited, and a background session that was cancelled, or ended before its listeners were there,
  is not reported to its parent. A spawn error leaves the idle timer armed.
- Configuration: a resolved `${env:X}` is written back; the home file is read and the working directory's written;
  renaming a provider loses its models and key (`ConfigTUI.tsx:935`); a migration overwrites keys with blanks; a
  removed provider keeps its key.
- `stop` or a second `start` of a session while a start is under way leaks its subscriptions.
- The editor accepts edits of `systemPrompt`, `tools`, `modelConfig`, `promptSchema`, `avatarUrl`,
  `agentFrameworkID` and `version` and never stores them (`AgentDefinitionEditorController.ts:110` against
  `:123`, `:203`). Loading a definition overwrites edits, and another definition clears the autosave timer;
  previews are never deleted.
- Two messages sent before either is confirmed carry the same file (`useMemeLoopRuntime.ts:63`); the native view
  restarts a running turn without asking (`native/AgentChatView.tsx:96`); a question without an agent shows as
  answered and tells nobody.
- Chat of the terminal: `setDispatch` (`TUIApp.tsx:177`) has no caller, so no answer and no permission dialog
  reaches the screen; `/clear`, `/mode` and `/compact` change nothing; every message gets a conversation of its
  own (`messageHandler.ts:31`); print mode hides errors of the agent.
