----------------------------- MODULE LoopRuntime -----------------------------
(***************************************************************************)
(* The runtime of a node's agents.  It has three parts that share no       *)
(* variable.  Tools: the registry of loop plugins, which a node fills with *)
(* the builtin tools and a host may fill before or after, and the context  *)
(* every installation binds a tool to: the node's at its start, that of    *)
(* the turn for the tools a profile selects.  Messages: which definition a *)
(* message runs.  Scripts: what a policy lets a loop load.                 *)
(* An identifier is the sequence of its parts between colons.              *)
(***************************************************************************)
EXTENDS Naturals, FiniteSets, SequencesExt

CONSTANTS
    LoopTools,      \* builtin tools, by the identifier of their plugin
    HostTarget,     \* LoopTools -> targetLoopId of the host's plugin with that identifier
    LoopProfiles,   \* what profiles select: sets of [id, enabled]
    LoopIds,        \* loops a profile may run
    AgentIds,       \* identifiers of agent definitions
    Stamps          \* bound: the times at which agents are created, as parts of an identifier

ASSUME LoopAssumption ==
    /\ AgentIds \subseteq Seq(STRING) \ {<<>>}
    /\ Stamps \subseteq STRING

VARIABLES
    plugins,        \* identifier -> the registered plugin: "none", "builtin" or "host"
    bound,          \* tool -> the plugin and the context it was installed with last
    hosts,          \* tools the host has registered a plugin for
    definedAt,          \* agent identifier -> where it is defined: "host", "store", "bundle"
    rowOf,          \* conversation -> definitionId of its row, NoAgent without one
    made,           \* conversation -> the definition it was created with
    ran,            \* what the last message ran
    script          \* the last script a loop asked for: reference, policy and outcome

toolVars == <<plugins, bound, hosts>>
messageVars == <<definedAt, rowOf, made, ran>>
loopVars == <<toolVars, messageVars, script>>

NoAgent == <<>>
Unbound == [plugin |-> "none", context |-> "none"]
AgentConversations == {Append(a, s) : a \in AgentIds, s \in Stamps}
NoRun == [conversation |-> <<>>, asked |-> NoAgent, agent |-> NoAgent, from |-> {}]
NoScript == [reference |-> "none", given |-> <<>>, outcome |-> "none"]

LoopInit ==
    /\ plugins = [t \in LoopTools |-> "none"] /\ bound = [t \in LoopTools |-> Unbound]
    /\ hosts = {}
    /\ definedAt = [a \in AgentIds |-> {}]
    /\ rowOf = [c \in AgentConversations |-> NoAgent] /\ made = rowOf
    /\ ran = NoRun
    /\ script = NoScript

-----------------------------------------------------------------------------
(* Tools *)

\* Mutant: the builtin plugins are registered again whenever a turn starts.
ReplaceBuiltins(p) == [t \in LoopTools |-> "builtin"]

\* registerBuiltinToolPlugins: an identifier that is taken is left alone.
WithBuiltins(p) == [t \in LoopTools |-> IF p[t] = "none" THEN "builtin" ELSE p[t]]

\* normalizePluginSelections: an entry is left out only if it says enabled: false.
Selected(profile) == {e \in profile : e.enabled # "false"}

\* installPluginsForLoop: a builtin plugin is for every loop.
Installs(p, profile, loop, tool) ==
    /\ p[tool] = "host" => HostTarget[tool] \in {"*", loop}
    /\ \E e \in Selected(profile) : e.id = tool

\* The plugins that a profile selects are installed with a context.
Install(profile, loop, context) ==
    LET after == WithBuiltins(plugins) IN
    /\ plugins' = after
    /\ bound' = [t \in LoopTools |->
         IF Installs(after, profile, loop, t) THEN [plugin |-> after[t], context |-> context]
         ELSE bound[t]]
    /\ UNCHANGED hosts

Installed == \E t \in LoopTools : bound[t] # Unbound

\* registerBuiltinTools: the node installs every builtin tool with its own context.
StartNode ==
    /\ ~Installed
    /\ Install({[id |-> t, enabled |-> "true"] : t \in LoopTools}, "*", "node")

\* createProfileRunner: a turn installs the tools its profile selects with the runner's context.
StartTurn(profile, loop) == Installed /\ Install(profile, loop, "turn")

\* registerPlugin by the host.
HostRegisters(tool) ==
    /\ plugins' = [plugins EXCEPT ![tool] = "host"]
    /\ hosts' = hosts \union {tool}
    /\ UNCHANGED bound

ToolsNext ==
    \/ StartNode
    \/ \E p \in LoopProfiles, loop \in LoopIds : StartTurn(p, loop)
    \/ \E t \in LoopTools : HostRegisters(t)

-----------------------------------------------------------------------------
(* Messages *)

\* Mutant: the first part names the agent.
InferFirst(c) == <<Head(c)>>

\* inferDefinitionIdFromConversationId: all parts but the last.
Infer(c) == IF Len(c) >= 2 THEN Front(c) ELSE c

\* resolveDefinitionId: the row's, unless it cannot be read or there is none.
AgentOf(c, readable) == IF readable /\ rowOf[c] # NoAgent THEN rowOf[c] ELSE Infer(c)

\* resolveLoopProfile: where the definition that is run comes from, if there is one.
Resolve(agent) ==
    LET first == CHOOSE f \in {"host", "store", "bundle"} :
                   /\ f \in definedAt[agent]
                   /\ f = "store" => "host" \notin definedAt[agent]
                   /\ f = "bundle" => definedAt[agent] = {"bundle"}
    IN IF agent \notin AgentIds \/ definedAt[agent] = {} THEN {} ELSE {first}

\* runAgentLoop; without a runner the caller stores the message, which makes a row if there is none.
Hands(c, asked, agent) ==
    ran' = [conversation |-> c, asked |-> asked, agent |-> agent, from |-> Resolve(agent)]

\* createAgent: the row is written first, then the message runs.
CreateAgent(agent, stamp) ==
    LET c == Append(agent, stamp) IN
    /\ rowOf' = [rowOf EXCEPT ![c] = agent]
    /\ made' = [made EXCEPT ![c] = agent]
    /\ Hands(c, agent, agent) \/ UNCHANGED ran
    /\ UNCHANGED definedAt

\* sendMessage
SendTo(c, asked, readable) ==
    LET agent == IF asked # NoAgent THEN asked ELSE AgentOf(c, readable) IN
    /\ made[c] # NoAgent
    /\ Hands(c, asked, agent)
    /\ rowOf' = [rowOf EXCEPT ![c] = IF @ = NoAgent THEN Infer(c) ELSE @]
    /\ UNCHANGED <<definedAt, made>>

\* The row is deleted; its conversation may be written to again.
DeleteRow(c) ==
    /\ rowOf[c] # NoAgent
    /\ rowOf' = [rowOf EXCEPT ![c] = NoAgent]
    /\ UNCHANGED <<definedAt, made, ran>>

\* A definition comes or goes at one of the places it may be in.
DefinitionMoves(agent, place) ==
    /\ definedAt' = [definedAt EXCEPT ![agent] =
         IF place \in @ THEN @ \ {place} ELSE @ \union {place}]
    /\ UNCHANGED <<rowOf, made, ran>>

MessagesNext ==
    \/ \E a \in AgentIds, s \in Stamps : CreateAgent(a, s)
    \/ \E a \in AgentIds, place \in {"host", "store", "bundle"} : DefinitionMoves(a, place)
    \/ \E c \in AgentConversations :
         \/ DeleteRow(c)
         \/ \E asked \in AgentIds \union {NoAgent}, readable \in BOOLEAN :
              SendTo(c, asked, readable)

-----------------------------------------------------------------------------
(* Scripts *)

Flags == {"builtin", "file", "network", "source", "specifier"}

\* What a reference names.  The text of a known builtin script is the program's own; a data URL
\* holds its text itself.
References == {"known builtin", "unknown builtin", "source", "data URL", "file", "network",
               "package"}

\* DEFAULT_POLICY
Default(flag) == flag \in {"builtin", "specifier"}

\* A flag that is given replaces the default, undefined too: it is not true then.
Allows(given, flag) == IF given[flag] = "left out" THEN Default(flag) ELSE given[flag] = "true"

\* Mutant: data URLs are not looked at.
DataAllowed(reference, given) ==
    /\ Allows(given, "specifier")
    /\ reference = "file" => Allows(given, "file")
    /\ reference = "network" => Allows(given, "network")

\* assertSpecifierAllowed
SpecifierAllowed(reference, given) ==
    /\ Allows(given, "specifier")
    /\ reference \in {"source", "data URL"} => Allows(given, "source")
    /\ reference = "file" => Allows(given, "file")
    /\ reference = "network" => Allows(given, "network")

\* loadAgentLoopScript up to the import; the text of a source reference becomes a data URL.
Loads(reference, given) ==
    \/ reference = "known builtin" /\ Allows(given, "builtin")
    \/ reference = "source" /\ Allows(given, "source") /\ SpecifierAllowed(reference, given)
    \/ /\ reference \in {"data URL", "file", "network", "package"}
       /\ SpecifierAllowed(reference, given)

\* A module that is imported may export no function: it has been executed nevertheless.
LoadScript(reference, given) ==
    /\ \/ Loads(reference, given) /\ \E end \in {"runs", "no function"} :
            script' = [reference |-> reference, given |-> given, outcome |-> end]
       \/ ~Loads(reference, given)
            /\ script' = [reference |-> reference, given |-> given, outcome |-> "refused"]

ScriptsNext ==
    /\ script = NoScript
    /\ \E r \in References, given \in [Flags -> {"left out", "true", "not true"}] :
         LoadScript(r, given)

-----------------------------------------------------------------------------

\* "can be overridden by user/host plugins with the same id" (builtinToolsPlugin.ts): neither the
\* start of the node nor that of a turn takes the place of a plugin of the host.
HostPluginsStay == \A t \in hosts : plugins[t] = "host"

\* A message that names no definition runs the one its conversation was created with, whether or
\* not the row is there and can be read.
MessageRunsItsDefinition ==
    LET c == ran.conversation IN
    ran # NoRun /\ ran.asked = NoAgent => ran.agent = made[c]

\* Text that does not belong to the program is executed only with allowSource, however a profile
\* refers to it, and modules of a host or a file only where each is allowed.
ScriptsArePermitted ==
    script.outcome \in {"runs", "no function"} =>
        /\ script.reference \in {"source", "data URL"} => Allows(script.given, "source")
        /\ script.reference # "known builtin" => Allows(script.given, "specifier")
        /\ script.reference = "file" => Allows(script.given, "file")
        /\ script.reference = "network" => Allows(script.given, "network")
        /\ script.reference # "unknown builtin"
=============================================================================
