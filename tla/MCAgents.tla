------------------------------ MODULE MCAgents ------------------------------
(***************************************************************************)
(* The parts around an agent's turn: scripts that drive other agents, the  *)
(* batch of one tool's calls, delegation to another node and on this one,  *)
(* the request that is sent, plugins with their hooks, files, wikis,       *)
(* checkpoints, the backup in a pod, the runtime, the tools that start      *)
(* something outside the node, and what the node has from the cloud.       *)
(* They share no variable: a behaviour is one of one of them while the     *)
(* others rest.                                                            *)
(***************************************************************************)
EXTENDS AgentScript, ToolBatch, SubAgents, RemoteCalls, TurnContext, PluginHost,
        FileTools, WikiRoster, Checkpoints, SolidPod, LoopRuntime, NodeTools, CloudTrust

CONSTANTS p1, n1, n2

MCWorkers == <<"w1", "w2">>
MCReviewers == <<"r1", "r2">>

\* Two profiles with one colon in their identifier, or none.
MCSeparators == [a \in Agents |-> 1]

MCCallTimeouts == {0, 2}

NoSetting == [threshold |-> 0, keep |-> 0, budget |-> 0, maxMessages |-> 0,
              replay |-> TRUE, hook |-> FALSE, picture |-> FALSE, aged |-> FALSE]

\* Compaction by turns; with a budget and a picture; with an age limit; by a window of messages.
MCSettings ==
    {[NoSetting EXCEPT !.threshold = 3, !.keep = k, !.hook = h] : k \in 0..2, h \in BOOLEAN}
    \union {[NoSetting EXCEPT !.threshold = 2, !.budget = 4, !.keep = 1, !.picture = TRUE],
            [NoSetting EXCEPT !.threshold = 3, !.keep = 1, !.aged = TRUE]}
    \union {[NoSetting EXCEPT !.maxMessages = 2, !.replay = r, !.threshold = t, !.keep = 1] :
              r \in BOOLEAN, t \in {0, 3}}

Node(role, text, enabled, parent) ==
    [role |-> role, text |-> text, enabled |-> enabled, parent |-> parent]

\* A system prompt with nested text, a disabled node and a child with a role of its own; and
\* a system prompt followed by a prompt of the user.
MCTrees ==
    {<<Node("system", <<"a">>, TRUE, 0), Node("", <<"b">>, TRUE, 1),
       Node("user", <<"c">>, FALSE, 1), Node("assistant", <<"d">>, TRUE, 1)>>,
     <<Node("", <<"a">>, TRUE, 0), Node("user", <<"b">>, TRUE, 0)>>}

MCPlugins == p1 :> n2

\* Two of three conversations share a file.
MCFileOf == [v \in Chats |-> IF v = "a" THEN "fa" ELSE "fb"]

MCWikis == <<"a", "b">>

Selects(id, enabled) == [id |-> id, enabled |-> enabled]

\* Profiles like the bundled ones, which select some of the builtin tools.
MCLoopProfiles == {{Selects("ask", "unsaid")}, {Selects("ask", "true"), Selects("todo", "unsaid")},
                   {Selects("todo", "false")}}

\* The host's own list of todos is for one loop.
MCHostTarget == [t \in LoopTools |-> IF t = "todo" THEN "agent-agent-loop" ELSE "*"]

MCAgentIds == {<<"a">>, <<"a", "b">>}

MCMcpServers == <<"m1", "m2">>

MCCallPairs == {<<"a", "b">>}
-----------------------------------------------------------------------------

VARIABLE part    \* the part whose behaviour this is

Parts == {"script", "batch", "remote", "call", "task", "context", "tracker", "plugins", "files",
          "wikis", "checkpoints", "pod", "tools", "messages", "scripts", "outside",
          "cloud", "grants", "daemon"}

agentVars == <<scriptVars, batchVars, remoteVars, callVars, taskVars, contextVars, pluginVars,
               fileVars, wikiVars, checkpointVars, podVars, loopVars, nodeToolVars, cloudVars,
               part>>

AnySetting == CHOOSE s \in Settings : TRUE
AnyTree == CHOOSE tree \in PromptTrees : TRUE

Init ==
    /\ part \in Parts
    /\ ScriptInit /\ BatchInit /\ RemoteInit /\ CallsInit /\ TaskInit
    /\ ContextInit /\ PluginInit /\ FilesInit /\ RosterInit /\ CheckpointsInit
    /\ PodInit /\ LoopInit /\ NodeToolsInit /\ CloudInit
    /\ part # "context" => settings = AnySetting /\ prompts = AnyTree
    /\ part # "files" => \A f \in Files : content[f] = Gone
    /\ part # "pod" => pod = NoBackup
    /\ IF part = "grants" THEN "a" \in keyed ELSE keyed = {}
    /\ part # "daemon" => identityFile.kind = "none"
    /\ taken \subseteq IF part = "outside" THEN {DefaultPort} ELSE {}

Next ==
    /\ UNCHANGED part
    /\ \/ /\ part = "script" /\ ScriptNext
          /\ UNCHANGED <<batchVars, remoteVars, callVars, taskVars, contextVars, pluginVars,
                         fileVars, wikiVars, checkpointVars, podVars, loopVars, nodeToolVars,
                         cloudVars>>
       \/ /\ part = "batch" /\ BatchNext
          /\ UNCHANGED <<scriptVars, remoteVars, callVars, taskVars, contextVars, pluginVars,
                         fileVars, wikiVars, checkpointVars, podVars, loopVars, nodeToolVars,
                         cloudVars>>
       \/ /\ part = "remote" /\ RemoteNext
          /\ UNCHANGED <<scriptVars, batchVars, callVars, taskVars, contextVars, pluginVars,
                         fileVars, wikiVars, checkpointVars, podVars, loopVars, nodeToolVars,
                         cloudVars>>
       \/ /\ part = "call" /\ CallsNext
          /\ UNCHANGED <<scriptVars, batchVars, remoteVars, taskVars, contextVars, pluginVars,
                         fileVars, wikiVars, checkpointVars, podVars, loopVars, nodeToolVars,
                         cloudVars>>
       \/ /\ part = "task" /\ TaskNext
          /\ UNCHANGED <<scriptVars, batchVars, remoteVars, callVars, contextVars, pluginVars,
                         fileVars, wikiVars, checkpointVars, podVars, loopVars, nodeToolVars,
                         cloudVars>>
       \/ /\ \/ part = "context" /\ TurnNext
             \/ part = "tracker" /\ TrackerNext
          /\ UNCHANGED <<scriptVars, batchVars, remoteVars, callVars, taskVars, pluginVars,
                         fileVars, wikiVars, checkpointVars, podVars, loopVars, nodeToolVars,
                         cloudVars>>
       \/ /\ part = "plugins" /\ PluginNext
          /\ UNCHANGED <<scriptVars, batchVars, remoteVars, callVars, taskVars, contextVars,
                         fileVars, wikiVars, checkpointVars, podVars, loopVars, nodeToolVars,
                         cloudVars>>
       \/ /\ part = "files" /\ FilesNext
          /\ UNCHANGED <<scriptVars, batchVars, remoteVars, callVars, taskVars, contextVars,
                         pluginVars, wikiVars, checkpointVars, podVars, loopVars, nodeToolVars,
                         cloudVars>>
       \/ /\ part = "wikis" /\ RosterNext
          /\ UNCHANGED <<scriptVars, batchVars, remoteVars, callVars, taskVars, contextVars,
                         pluginVars, fileVars, checkpointVars, podVars, loopVars, nodeToolVars,
                         cloudVars>>
       \/ /\ part = "checkpoints" /\ CheckpointsNext
          /\ UNCHANGED <<scriptVars, batchVars, remoteVars, callVars, taskVars, contextVars,
                         pluginVars, fileVars, wikiVars, podVars, loopVars, nodeToolVars,
                         cloudVars>>
       \/ /\ part = "pod" /\ PodNext
          /\ UNCHANGED <<scriptVars, batchVars, remoteVars, callVars, taskVars, contextVars,
                         pluginVars, fileVars, wikiVars, checkpointVars, loopVars, nodeToolVars,
                         cloudVars>>
       \/ /\ part = "tools" /\ ToolsNext
          /\ UNCHANGED <<scriptVars, batchVars, remoteVars, callVars, taskVars, contextVars,
                         pluginVars, fileVars, wikiVars, checkpointVars, podVars, nodeToolVars,
                         messageVars, script, cloudVars>>
       \/ /\ part = "messages" /\ MessagesNext
          /\ UNCHANGED <<scriptVars, batchVars, remoteVars, callVars, taskVars, contextVars,
                         pluginVars, fileVars, wikiVars, checkpointVars, podVars, nodeToolVars,
                         toolVars, script, cloudVars>>
       \/ /\ part = "scripts" /\ ScriptsNext
          /\ UNCHANGED <<scriptVars, batchVars, remoteVars, callVars, taskVars, contextVars,
                         pluginVars, fileVars, wikiVars, checkpointVars, podVars, nodeToolVars,
                         toolVars, messageVars, cloudVars>>
       \/ /\ part = "outside" /\ NodeToolsNext
          /\ UNCHANGED <<scriptVars, batchVars, remoteVars, callVars, taskVars, contextVars,
                         pluginVars, fileVars, wikiVars, checkpointVars, podVars, loopVars,
                         cloudVars>>
       \/ /\ \/ part = "cloud" /\ SyncNext /\ UNCHANGED <<grantVars, daemonVars>>
             \/ part = "grants" /\ GrantsNext /\ UNCHANGED <<syncVars, daemonVars>>
             \/ part = "daemon" /\ DaemonNext /\ UNCHANGED <<syncVars, grantVars>>
          /\ UNCHANGED <<scriptVars, batchVars, remoteVars, callVars, taskVars, contextVars,
                         pluginVars, fileVars, wikiVars, checkpointVars, podVars, loopVars,
                         nodeToolVars>>

\* The fairness of each part's module.  Of a part that rests it asks nothing: naming the part says
\* the same and spares TLC most of its work.
FairSpec ==
    /\ Init /\ [][Next]_agentVars
    /\ \A g \in Gates :
         /\ WF_scriptVars(part = "script" /\ GateStep(g))
         /\ \A i \in 1..Len(Workers \o Reviewers \o Fixers) :
              WF_scriptVars(part = "script" /\ i \in DOMAIN child[g] /\ ChildEnds(g, i))
    /\ WF_batchVars(part = "batch" /\ BatchContinues)
    /\ WF_remoteVars(part = "remote" /\ RemoteContinues)
    /\ \A q \in Requests :
         WF_callVars(part = "call" /\ ReadResponse(q)) /\ WF_callVars(part = "call" /\ ServeNext(q))
    /\ WF_podVars(part = "pod" /\ PushContinues) /\ WF_podVars(part = "pod" /\ StartContinues)
    /\ \A c \in NodeCalls : WF_nodeToolVars(part = "outside" /\ CallSteps(c))
    /\ \A c \in CloudCalls : WF_grantVars(part = "grants" /\ CloudCallSteps(c))
    /\ WF_daemonVars(part = "daemon" /\ DaemonContinues)

-----------------------------------------------------------------------------

\* Delegation: an approval is whole, no child agent is left running behind the script that
\* started it, a foreground task is waited for, what a calling device is told is true, grants
\* last for a call and end with the account, and a message runs the agent of its conversation
\* with scripts that its policy permits.
DelegationIsSound ==
    /\ ApprovalIsWhole /\ NoStrayChildren /\ ForegroundIsAwaited
    /\ ResultsAreTrue /\ DescriptionsStay /\ RevocationTakesHold /\ GrantsOutlastCalls
    /\ MessageRunsItsDefinition /\ ScriptsArePermitted

\* Each call of a batch is reported with its own result, and a remote agent with what it wrote;
\* what a call started outside the node is stopped, closed or remembered when it is answered.
ToolsReport ==
    /\ EveryCallReported /\ SummaryIsFaithful /\ NodeToolsAreSound

\* What is sent to the model is whole, and one compaction is under way at a time.
ContextIsSound == RequestIsWhole /\ ResultsKeepTheirCalls /\ OneCompaction

\* Hooks are not skipped, a plugin is active once, and plugins of the host keep their place.
PluginsAreSound == NoHookIsSkipped /\ ActiveOnce /\ HostPluginsStay

\* Knowledge: reads follow the edits, the announced definitions are those of the last refresh, a
\* checkpoint is a beginning of its conversation, a backup holds what pushes looked for,
\* the trust store keeps what the cloud listed, and the cloud knows a node by its identity.
KnowledgeIsCurrent ==
    /\ ReadsFollowEdits /\ RosterIsFresh /\ CheckpointsAreSound /\ BackupIsSound
    /\ SyncIsKept /\ CacheIsWritten /\ PresenceIsSound

\* Scripts, batches of calls, calls of a remote agent and between devices, pushes of the backup,
\* the tools that start something outside the node and calls with grants end.
AgentsEnd ==
    GateEnds /\ BatchEnds /\ RemoteCallEnds /\ CallsReturn /\ PushesEnd /\ NodeCallsEnd
    /\ CloudCallsEnd
=============================================================================
