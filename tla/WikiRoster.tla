----------------------------- MODULE WikiRoster -----------------------------
(***************************************************************************)
(* Wikis and the agent definitions found in them.  A wiki is booted once   *)
(* from its folder, and the promise of the boot is what is cached; tools   *)
(* read and edit the booted instance, in memory.  A refresh of the node's  *)
(* definitions throws the instances away, boots each wiki again and, when  *)
(* all have been read, announces the definitions and seeds the store.      *)
(* Each wiki holds one tiddler, a definition; its text is the number of    *)
(* the write it comes from, 0 before it exists.                            *)
(***************************************************************************)
EXTENDS Naturals, Sequences

CONSTANTS
    Wikis,          \* the sequence of wiki ids a refresh goes through
    ToolCalls,      \* agents that call knowledge tools, one call after another
    Refreshes,      \* calls of refreshWikiAgentDefinitions
    MaxWrites,      \* bound: writes, to disk and by tools
    MaxBoots        \* bound: boots

ASSUME WikisAssumption == Wikis \in Seq(STRING) \ {<<>>}

WikiIds == {Wikis[i] : i \in DOMAIN Wikis}

VARIABLES
    disk,           \* wiki -> text of the tiddler's file
    boots,          \* the boots so far: [wiki, pc, from, text]
    cache,          \* wiki -> the boot whose promise is cached, 0 for none
    toolCall,       \* their calls: [pc, kind, wiki, boot, must, text]
    refresh,        \* Refreshes -> [pc, at, boot, wanted]
    known,          \* definitionById: wiki -> text of its definition, 0 for the configured one
    roster, rows,   \* agentDefinitions and the rows of agent_definitions
    writes,
    asked,          \* ghost: the calls made since the wikis were last thrown away
    settled,        \* ghost: wiki -> the last edit answered among them
    due,            \* ghost: wiki -> text on disk when the last refresh that succeeded began
    failed,         \* ghost: the refresh that ended last failed
    crossed         \* ghost: two refreshes were under way at once

wikiVars == <<disk, boots, cache, toolCall, refresh, known, roster, rows, writes,
              asked, settled, due, failed, crossed>>

Nowhere == [w \in WikiIds |-> 0]

RosterInit ==
    /\ disk = Nowhere /\ boots = <<>> /\ cache = Nowhere
    /\ toolCall = [c \in ToolCalls |-> [pc |-> "off"]]
    /\ refresh = [r \in Refreshes |-> [pc |-> "off"]]
    /\ known = Nowhere /\ roster = Nowhere /\ rows = Nowhere
    /\ writes = 0 /\ asked = {} /\ settled = Nowhere /\ due = Nowhere /\ failed = FALSE /\ crossed = FALSE

Underway == {r \in Refreshes : refresh[r].pc = "reading"}

-----------------------------------------------------------------------------
(* Wikis *)

\* Mutant: only an instance that is there is shared.
BootEachTime(w, caches) ==
    IF caches[w] # 0 /\ boots[caches[w]].pc = "ready"
    THEN [boots |-> boots, cache |-> caches, boot |-> caches[w]]
    ELSE [boots |-> Append(boots, [wiki |-> w, pc |-> "booting", from |-> disk[w], text |-> 0]),
          cache |-> [caches EXCEPT ![w] = Len(boots) + 1],
          boot |-> Len(boots) + 1]

\* getWiki: the cached promise, or that of a new boot.
GetWiki(w, caches) ==
    IF caches[w] # 0 THEN [boots |-> boots, cache |-> caches, boot |-> caches[w]]
    ELSE [boots |-> Append(boots, [wiki |-> w, pc |-> "booting", from |-> disk[w], text |-> 0]),
          cache |-> [caches EXCEPT ![w] = Len(boots) + 1],
          boot |-> Len(boots) + 1]

\* The folder is read some time during the boot; the promise of a boot that failed stays cached.
BootEnds(b) ==
    /\ boots[b].pc = "booting"
    /\ boots' \in {[boots EXCEPT ![b].pc = "failed"]} \union
         {[boots EXCEPT ![b].pc = "ready", ![b].text = text] : text \in {boots[b].from, disk[boots[b].wiki]}}
    /\ UNCHANGED <<disk, cache, toolCall, refresh, known, roster, rows, writes, settled, asked, due, failed, crossed>>

UserWritesFile(w) ==
    /\ writes < MaxWrites /\ writes' = writes + 1
    /\ disk' = [disk EXCEPT ![w] = writes + 1]
    /\ UNCHANGED <<boots, cache, toolCall, refresh, known, roster, rows, settled, asked, due, failed, crossed>>

-----------------------------------------------------------------------------
(* Tools *)

Asks(c, w, kind) ==
    /\ toolCall[c].pc # "booting" /\ Len(boots) < MaxBoots
    /\ LET wiki == GetWiki(w, cache)
       IN /\ boots' = wiki.boots /\ cache' = wiki.cache
          /\ toolCall' = [toolCall EXCEPT ![c] =
               [pc |-> "booting", kind |-> kind, wiki |-> w, boot |-> wiki.boot,
                must |-> settled[w], text |-> 0]]
    /\ asked' = asked \union {c}
    /\ UNCHANGED <<disk, refresh, known, roster, rows, writes, settled, due, failed, crossed>>

EditTiddler(c, w) == Asks(c, w, "edit")
ReadTiddler(c, w) == Asks(c, w, "read")

\* The instance is there: the edit is made in it, not on disk.  A boot that failed is the answer.
ToolContinues(c) ==
    /\ toolCall[c].pc = "booting"
    /\ LET call == toolCall[c]
           b == call.boot
       IN \/ /\ boots[b].pc = "failed"
             /\ toolCall' = [toolCall EXCEPT ![c].pc = "error"]
             /\ UNCHANGED <<boots, writes, settled>>
          \/ /\ boots[b].pc = "ready" /\ call.kind = "read"
             /\ toolCall' = [toolCall EXCEPT ![c].pc = "done", ![c].text = boots[b].text]
             /\ UNCHANGED <<boots, writes, settled>>
          \/ /\ boots[b].pc = "ready" /\ call.kind = "edit" /\ writes < MaxWrites
             /\ writes' = writes + 1
             /\ boots' = [boots EXCEPT ![b].text = writes + 1]
             /\ toolCall' = [toolCall EXCEPT ![c].pc = "done", ![c].text = writes + 1]
             /\ settled' = IF c \in asked THEN [settled EXCEPT ![call.wiki] = writes + 1] ELSE settled
    /\ UNCHANGED <<disk, cache, refresh, known, roster, rows, asked, due, failed, crossed>>

-----------------------------------------------------------------------------
(* Refreshing the definitions *)

\* Mutant: the instances are kept.
KeepWikis == cache

ClearWikiCache == Nowhere

\* The caches are cleared and the first wiki is asked for.
BeginRefresh(r) ==
    /\ refresh[r].pc = "off" /\ Len(boots) < MaxBoots
    /\ LET wiki == GetWiki(Wikis[1], ClearWikiCache)
       IN /\ boots' = wiki.boots /\ cache' = wiki.cache
          /\ refresh' = [refresh EXCEPT ![r] =
               [pc |-> "reading", at |-> 1, boot |-> wiki.boot, wanted |-> disk]]
    /\ asked' = {} /\ settled' = Nowhere
    /\ crossed' = (crossed \/ Underway # {})
    /\ UNCHANGED <<disk, toolCall, known, roster, rows, writes, due, failed>>

WithDefinition(w, text) == IF text = 0 THEN known ELSE [known EXCEPT ![w] = text]

\* listAgentDefinitionsFromWiki answers: its definitions are known at once, the others asked for.
WikiListed(r) ==
    LET state == refresh[r] IN
    /\ state.pc = "reading" /\ boots[state.boot].pc = "ready"
    /\ known' = WithDefinition(Wikis[state.at], boots[state.boot].text)
    /\ IF state.at < Len(Wikis)
       THEN /\ Len(boots) < MaxBoots
            /\ LET wiki == GetWiki(Wikis[state.at + 1], cache)
               IN /\ boots' = wiki.boots /\ cache' = wiki.cache
                  /\ refresh' = [refresh EXCEPT ![r].at = @ + 1, ![r].boot = wiki.boot]
            /\ UNCHANGED <<roster, rows, due, failed>>
       ELSE /\ roster' = known' /\ rows' = known'
            /\ refresh' = [refresh EXCEPT ![r] = [pc |-> "off"]]
            /\ due' = state.wanted /\ failed' = FALSE
            /\ UNCHANGED <<boots, cache>>
    /\ UNCHANGED <<disk, toolCall, writes, asked, settled, crossed>>

\* A wiki that does not boot ends the refresh: what was read before it stays known.
RefreshFails(r) ==
    /\ refresh[r].pc = "reading" /\ boots[refresh[r].boot].pc = "failed"
    /\ refresh' = [refresh EXCEPT ![r] = [pc |-> "off"]]
    /\ failed' = TRUE
    /\ UNCHANGED <<disk, boots, cache, toolCall, known, roster, rows, writes, asked, settled, due, crossed>>

RosterNext ==
    \/ \E b \in DOMAIN boots : BootEnds(b)
    \/ \E w \in WikiIds : UserWritesFile(w)
    \/ \E c \in ToolCalls :
         ToolContinues(c) \/ \E w \in WikiIds : EditTiddler(c, w) \/ ReadTiddler(c, w)
    \/ \E r \in Refreshes : BeginRefresh(r) \/ WikiListed(r) \/ RefreshFails(r)

-----------------------------------------------------------------------------
(***************************************************************************)
(* A tool sees the edits that were answered before it was called, unless   *)
(* the instance was thrown away since: callers that arrive while a wiki    *)
(* boots share its promise (getWiki).                                      *)
(***************************************************************************)
ReadsFollowEdits ==
    \A c \in ToolCalls : toolCall[c].pc = "done" => toolCall[c].text >= toolCall[c].must

(***************************************************************************)
(* After a refresh the node knows the definitions that were on disk when   *)
(* it began, or newer ones, and announces and stores what it runs.  Only a *)
(* failure or another refresh under way at the same time leaves it         *)
(* otherwise (refreshWikiAgentDefinitions).                                *)
(***************************************************************************)
RosterIsFresh ==
    Underway = {} /\ ~failed /\ ~crossed =>
        /\ roster = known /\ rows = known
        /\ \A w \in WikiIds : known[w] >= due[w]
=============================================================================
