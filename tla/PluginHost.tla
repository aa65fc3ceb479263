----------------------------- MODULE PluginHost -----------------------------
(***************************************************************************)
(* Plugins and the hooks they register (HookRegistry of one hook type, the *)
(* plugin loader and the plugin registry).  A registration adds the        *)
(* handler to the array an execution may be walking; taking one away makes *)
(* a new array.  executeHooks asks the handlers one after another and      *)
(* waits for each.  loadPluginModule looks whether a plugin is loaded,     *)
(* activates it and notes it when activate is done; unloadPlugin runs the  *)
(* plugin's own cleanup and forgets it, but not its hooks.                 *)
(***************************************************************************)
EXTENDS Naturals, Sequences, FiniteSets, SequencesExt

CONSTANTS
    HookNames, Handlers,    \* a handler is a function object, registered once
    Executions,             \* executions of the type's hooks, by name
    Plugins,                \* Plugins -> the name its hook is registered under
    Loaders,                \* callers of loadPluginModule
    MaxLoadCalls            \* bound: loads

VARIABLES
    named,      \* hookRegistry: <<name, handler>> in insertion order
    order,      \* hookOrder's array, by its number, 0 before there is one
    arrays,     \* every array there was
    used,       \* handlers registered so far
    execution,  \* Executions -> [pc, array, at, asked, must, strict, result]
    loaded,     \* loadedPlugins
    loading,    \* Loaders -> [plugin |->, pc |->]
    active,     \* Plugins -> activations whose cleanup was not run
    loadCalls,
    overlapped  \* ghost: plugins two loads of which were under way at once

hookVars == <<named, order, arrays, used, execution>>
loaderVars == <<loaded, loading, active, loadCalls, overlapped>>
pluginVars == <<hookVars, loaderVars>>

PluginInit ==
    /\ named = <<>> /\ order = 0 /\ arrays = <<>> /\ used = {}
    /\ execution = [e \in Executions |-> [pc |-> "off"]]
    /\ loaded = {} /\ loading = [l \in Loaders |-> [pc |-> "off"]]
    /\ active = [p \in DOMAIN Plugins |-> 0] /\ loadCalls = 0 /\ overlapped = {}

Registered == {named[i][2] : i \in DOMAIN named}
HookOrder == IF order = 0 THEN {} ELSE ToSet(arrays[order])
HasHooks == named # <<>>

-----------------------------------------------------------------------------
(* Registering *)

\* Map.set: a name that is there keeps its place.
SetNamed(name, handler) ==
    named' = IF \E i \in DOMAIN named : named[i][1] = name
             THEN [i \in DOMAIN named |-> IF named[i][1] = name THEN <<name, handler>> ELSE named[i]]
             ELSE Append(named, <<name, handler>>)

\* A new function object.  The array there is grows, also under an execution; without one a new
\* one is made.
RegisterHook(name, handler) ==
    /\ Handlers # used /\ handler = CHOOSE h \in Handlers : h \notin used
    /\ used' = used \union {handler}
    /\ SetNamed(name, handler)
    /\ IF order = 0
       THEN arrays' = Append(arrays, <<handler>>) /\ order' = Len(arrays) + 1
       ELSE arrays' = [arrays EXCEPT ![order] = Append(@, handler)] /\ UNCHANGED order

HostRegistersHook(name) ==
    /\ \E handler \in Handlers : RegisterHook(name, handler)
    /\ UNCHANGED <<execution, loaderVars>>

\* Mutant: the order keeps what is not named any more.
UnnameOnly(name) ==
    /\ \E i \in DOMAIN named : named[i][1] = name /\ named' = RemoveAt(named, i)
    /\ UNCHANGED <<order, arrays, used, execution, loaderVars>>

\* Map.delete; the order becomes a new array of what is still named.
UnregisterHook(name) ==
    /\ \E i \in DOMAIN named : named[i][1] = name /\ named' = RemoveAt(named, i)
    /\ arrays' = Append(arrays, [i \in DOMAIN named' |-> named'[i][2]])
    /\ order' = Len(arrays) + 1
    /\ UNCHANGED <<used, execution, loaderVars>>

ClearHooks ==
    /\ named # <<>> /\ named' = <<>> /\ order' = 0
    /\ UNCHANGED <<arrays, used, execution, loaderVars>>

-----------------------------------------------------------------------------
(* Executing.  The callers skip it when hasHooks says there is none. *)

FinishHooks(e, allowed) == [execution[e] EXCEPT !.pc = "done", !.result = allowed]

ExecuteHooks(e) ==
    /\ execution[e].pc = "off"
    /\ execution' = [execution EXCEPT ![e] =
         [pc |-> IF HasHooks /\ HookOrder # {} THEN "asking" ELSE "done",
          array |-> order, at |-> 1, asked |-> {}, must |-> Registered, strict |-> FALSE,
          result |-> TRUE]]
    /\ UNCHANGED <<named, order, arrays, used, loaderVars>>

\* A handler answers: it allows, asks for more care than others did, denies or throws.
HandlerAnswers(e) ==
    /\ execution[e].pc = "asking"
    /\ LET x == execution[e]
           asked == [x EXCEPT !.asked = @ \union {arrays[x.array][x.at]}, !.at = @ + 1]
       IN execution' \in
            {[execution EXCEPT ![e] = next] : next \in
               {FinishHooks(e, FALSE)} \union
               IF x.at < Len(arrays[x.array]) THEN {asked, [asked EXCEPT !.strict = TRUE]}
               ELSE {[asked EXCEPT !.pc = "done"], [asked EXCEPT !.pc = "done", !.strict = TRUE]}}
    /\ UNCHANGED <<named, order, arrays, used, loaderVars>>

-----------------------------------------------------------------------------
(* Loading *)

\* A plugin that is loaded is not activated again.
LoadPlugin(l, p) ==
    /\ loading[l].pc = "off" /\ loadCalls < MaxLoadCalls
    /\ loadCalls' = loadCalls + 1
    /\ p \notin loaded
    /\ loading' = [loading EXCEPT ![l] = [pc |-> "activating", plugin |-> p]]
    /\ overlapped' = IF \E m \in Loaders : loading[m].pc # "off" /\ loading[m].plugin = p
                     THEN overlapped \union {p} ELSE overlapped
    /\ UNCHANGED <<loaded, active, hookVars>>

\* activate registers the plugin's hook and is done later, or fails after that.
Activates(l) ==
    /\ loading[l].pc = "activating"
    /\ \E handler \in Handlers : RegisterHook(Plugins[loading[l].plugin], handler)
    /\ loading' = [loading EXCEPT ![l].pc = "activated"]
    /\ active' = [active EXCEPT ![loading[l].plugin] = @ + 1]
    /\ UNCHANGED <<execution, loaded, loadCalls, overlapped>>

LoadEnds(l) ==
    /\ loading[l].pc = "activated"
    /\ loading' = [loading EXCEPT ![l] = [pc |-> "off"]]
    /\ \/ loaded' = loaded \union {loading[l].plugin} /\ UNCHANGED active
       \/ /\ active' = [active EXCEPT ![loading[l].plugin] = @ - 1]
          /\ UNCHANGED loaded
    /\ UNCHANGED <<loadCalls, overlapped, hookVars>>

\* Mutant: the cleanup is not run.
UnloadOnly(p) ==
    /\ p \in loaded
    /\ loaded' = loaded \ {p}
    /\ UNCHANGED <<active, loading, loadCalls, overlapped, hookVars>>

UnloadPlugin(p) ==
    /\ p \in loaded
    /\ loaded' = loaded \ {p}
    /\ active' = [active EXCEPT ![p] = @ - 1]
    /\ UNCHANGED <<loading, loadCalls, overlapped, hookVars>>

PluginNext ==
    \/ \E n \in HookNames : HostRegistersHook(n) \/ UnregisterHook(n)
    \/ ClearHooks
    \/ \E e \in Executions : ExecuteHooks(e) \/ HandlerAnswers(e)
    \/ \E l \in Loaders : (\E p \in DOMAIN Plugins : LoadPlugin(l, p)) \/ Activates(l) \/ LoadEnds(l)
    \/ \E p \in DOMAIN Plugins : UnloadPlugin(p)

-----------------------------------------------------------------------------
(***************************************************************************)
(* No hook is skipped: an execution that allowed has asked every handler   *)
(* that was registered when it began, although handlers were registered,   *)
(* unregistered and replaced under it; and what is registered is what the  *)
(* next execution finds, so hasHooks never hides one (HookRegistry).       *)
(***************************************************************************)
NoHookIsSkipped ==
    /\ Registered \subseteq HookOrder
    /\ HasHooks <=> HookOrder # {}
    /\ \A e \in Executions : execution[e].pc = "done" /\ execution[e].result
                               => execution[e].must \subseteq execution[e].asked

(***************************************************************************)
(* A plugin is active once while it is loaded and not at all afterwards,   *)
(* provided no two loads of it overlapped: the check and the note are on   *)
(* two sides of an await (loadPluginModule, unloadPlugin).                 *)
(***************************************************************************)
ActiveOnce ==
    \A p \in DOMAIN Plugins \ overlapped :
        active[p] = (IF p \in loaded THEN 1 ELSE 0)
                    + Cardinality({l \in Loaders : loading[l].pc = "activated" /\ loading[l].plugin = p})
=============================================================================
