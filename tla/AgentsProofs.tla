---------------------------- MODULE AgentsProofs ----------------------------
(***************************************************************************)
(* What holds of the parts around an agent's turn for every value of the   *)
(* constants.  Each part has its own variables, so that a step of the      *)
(* whole is a step of one part or leaves it alone; its inductive invariant *)
(* is then an invariant of the whole.                                      *)
(***************************************************************************)
EXTENDS MCAgents, SequenceLemmas, FiniteSetTheorems, SequenceTheorems,
        WellFoundedInduction, NaturalsInduction, TLAPS

-----------------------------------------------------------------------------
(* Sequences in the order of their numbers *)

LEMMA InOrderNamesAll ==
  ASSUME NEW n \in Nat, NEW S \in SUBSET (1..n)
  PROVE  /\ Cardinality(S) \in Nat
         /\ InOrder(S) \in [1..Cardinality(S) -> S] /\ Increasing(InOrder(S))
         /\ \A c \in S : \E k \in 1..Cardinality(S) : InOrder(S)[k] = c
<1>1. InOrder(S) \in [1..Cardinality(S) -> S] /\ Increasing(InOrder(S))
  <2>1. \E s \in [1..Cardinality(S) -> S] : Increasing(s)
    BY OrderExists
  <2> QED BY <2>1 DEF InOrder, Increasing
<1> QED BY <1>1, IncreasingIsOnto

-----------------------------------------------------------------------------
(* Plugins and their hooks *)

LEMMA PluginSteps ==
  ASSUME [Next]_agentVars
  PROVE  [PluginNext]_pluginVars
<1>1. CASE UNCHANGED agentVars
  BY <1>1 DEF agentVars
<1>2. CASE Next
  BY <1>2 DEF Next, contextVars, loopVars, toolVars, messageVars, cloudVars
<1> QED BY <1>1, <1>2

HookEntries == (HookNames \union {Plugins[p] : p \in DOMAIN Plugins}) \X Handlers

Asking == [pc : {"asking", "done"}, array : Nat, at : Nat \ {0}, asked : SUBSET Handlers,
           must : SUBSET Handlers, strict : BOOLEAN, result : BOOLEAN]

Loading == [pc : {"activating", "activated"}, plugin : DOMAIN Plugins]

PluginTypeOK ==
    /\ named \in Seq(HookEntries)
    /\ arrays \in Seq(Seq(Handlers)) /\ order \in 0..Len(arrays)
    /\ used \subseteq Handlers
    /\ execution \in [Executions -> {[pc |-> "off"]} \union Asking]
    /\ loaded \subseteq DOMAIN Plugins
    /\ loading \in [Loaders -> {[pc |-> "off"]} \union Loading]
    /\ active \in [DOMAIN Plugins -> Int]
    /\ overlapped \subseteq DOMAIN Plugins

\* The order lists what is named, and nothing when nothing is.
OrderHasTheNamed == Registered \subseteq HookOrder /\ (named = <<>> => HookOrder = {})

\* What an execution still has to ask, in the array it walks.
StillAsked(x) == {arrays[x.array][k] : k \in x.at..Len(arrays[x.array])}

\* An execution has asked or will ask everyone it must.
MustBeAsked ==
    \A e \in Executions :
        LET x == execution[e] IN
        /\ x.pc = "asking" =>
              /\ x.array \in 1..Len(arrays) /\ x.at <= Len(arrays[x.array])
              /\ x.must \subseteq x.asked \union StillAsked(x)
        /\ x.pc = "done" /\ x.result => x.must \subseteq x.asked

IsLoading(l, p) == loading[l].pc # "off" /\ loading[l].plugin = p

\* A plugin whose loads did not overlap is loaded by one caller, and only while it is not loaded.
OneLoader ==
    \A p \in DOMAIN Plugins \ overlapped : \A l \in Loaders :
        IsLoading(l, p) => p \notin loaded /\ \A m \in Loaders : IsLoading(m, p) => m = l

PluginInv == PluginTypeOK /\ OrderHasTheNamed /\ MustBeAsked /\ OneLoader /\ ActiveOnce

LEMMA PluginInitially ==
  ASSUME PluginInit
  PROVE  PluginInv
<1>1. PluginTypeOK
  BY DEF PluginInit, PluginTypeOK
<1>2. OrderHasTheNamed
  BY DEF PluginInit, OrderHasTheNamed, Registered, HookOrder
<1>3. MustBeAsked
  BY DEF PluginInit, MustBeAsked
<1>4. OneLoader
  BY DEF PluginInit, OneLoader, IsLoading
<1>5. ActiveOnce
  <2> SUFFICES ASSUME NEW p \in DOMAIN Plugins
               PROVE  active[p] = (IF p \in loaded THEN 1 ELSE 0) + Cardinality(
                        {l \in Loaders : loading[l].pc = "activated" /\ loading[l].plugin = p})
    BY DEF ActiveOnce
  <2>1. {l \in Loaders : loading[l].pc = "activated" /\ loading[l].plugin = p} = {}
    BY DEF PluginInit
  <2>2. Cardinality({l \in Loaders : loading[l].pc = "activated" /\ loading[l].plugin = p}) = 0
    BY <2>1, FS_EmptySet
  <2> QED BY <2>2 DEF PluginInit
<1> QED BY <1>1, <1>2, <1>3, <1>4, <1>5 DEF PluginInv

\* Naming a handler leaves the other entries and names no other handler.
LEMMA NamingKeeps ==
  ASSUME named \in Seq(HookEntries), NEW name, NEW handler \in Handlers,
         <<name, handler>> \in HookEntries, SetNamed(name, handler)
  PROVE  /\ named' \in Seq(HookEntries) /\ named' # <<>>
         /\ Registered' \subseteq Registered \union {handler}
<1>1. CASE \E i \in DOMAIN named : named[i][1] = name
  <2> DOMAIN named = 1..Len(named)
    OBVIOUS
  <2>1. named' = [i \in 1..Len(named) |-> IF named[i][1] = name THEN <<name, handler>> ELSE named[i]]
    BY <1>1, Zenon DEF SetNamed
  <2>2. Len(named') = Len(named) /\ named' \in Seq(HookEntries)
    BY <2>1
  <2> QED BY <1>1, <2>1, <2>2 DEF Registered
<1>2. CASE ~\E i \in DOMAIN named : named[i][1] = name
  <2>1. named' = Append(named, <<name, handler>>)
    BY <1>2 DEF SetNamed
  <2> QED BY <2>1 DEF Registered
<1> QED BY <1>1, <1>2

\* An array that an execution walks loses and changes nothing.
ArraysGrow ==
    /\ arrays' \in Seq(Seq(Handlers)) /\ Len(arrays) <= Len(arrays')
    /\ \A a \in 1..Len(arrays) :
         /\ Len(arrays[a]) <= Len(arrays'[a])
         /\ \A k \in 1..Len(arrays[a]) : arrays'[a][k] = arrays[a][k]

LEMMA GrowthKeepsMustBeAsked ==
  ASSUME PluginTypeOK, MustBeAsked, ArraysGrow, UNCHANGED execution
  PROVE  MustBeAsked'
<1> SUFFICES ASSUME NEW e \in Executions, execution[e].pc = "asking"
             PROVE  /\ execution[e].array \in 1..Len(arrays')
                    /\ execution[e].at <= Len(arrays'[execution[e].array])
                    /\ execution[e].must \subseteq execution[e].asked \union StillAsked(execution[e])'
  BY DEF MustBeAsked, StillAsked
<1> DEFINE a == execution[e].array
           n == execution[e].at
<1>1. execution[e] \in Asking
  BY DEF PluginTypeOK
<1>2. /\ a \in 1..Len(arrays) /\ n \in Nat \ {0} /\ n <= Len(arrays[a])
      /\ execution[e].must \subseteq execution[e].asked \union StillAsked(execution[e])
  BY <1>1 DEF MustBeAsked, Asking
<1>3. /\ Len(arrays[a]) \in Nat /\ Len(arrays'[a]) \in Nat /\ Len(arrays[a]) <= Len(arrays'[a])
      /\ a \in 1..Len(arrays')
      /\ \A k \in 1..Len(arrays[a]) : arrays'[a][k] = arrays[a][k]
  <2>1. arrays \in Seq(Seq(Handlers)) /\ arrays' \in Seq(Seq(Handlers))
    BY DEF ArraysGrow, PluginTypeOK
  <2>2. Len(arrays) \in Nat /\ Len(arrays') \in Nat /\ Len(arrays) <= Len(arrays')
    BY <2>1 DEF ArraysGrow
  <2>3. a \in 1..Len(arrays) /\ a \in 1..Len(arrays')
    BY <1>2, <2>2
  <2> HIDE DEF a
  <2>4. arrays[a] \in Seq(Handlers) /\ arrays'[a] \in Seq(Handlers)
    BY <2>1, <2>3
  <2>5. Len(arrays[a]) \in Nat /\ Len(arrays'[a]) \in Nat
    BY <2>4
  <2>6. /\ Len(arrays[a]) <= Len(arrays'[a])
        /\ \A k \in 1..Len(arrays[a]) : arrays'[a][k] = arrays[a][k]
    BY <2>3 DEF ArraysGrow
  <2> QED BY <2>3, <2>5, <2>6
<1>4. \A k \in n..Len(arrays[a]) : k \in n..Len(arrays'[a]) /\ arrays'[a][k] = arrays[a][k]
  BY <1>2, <1>3
<1>5. StillAsked(execution[e]) \subseteq StillAsked(execution[e])'
  BY <1>4 DEF StillAsked
<1> QED BY <1>2, <1>3, <1>5

LEMMA RegisterEffect ==
  ASSUME PluginTypeOK, OrderHasTheNamed, NEW name, NEW handler \in Handlers,
         <<name, handler>> \in HookEntries, RegisterHook(name, handler)
  PROVE  /\ named' \in Seq(HookEntries) /\ order' \in 0..Len(arrays') /\ used' \subseteq Handlers
         /\ ArraysGrow /\ OrderHasTheNamed'
<1>1. /\ named' \in Seq(HookEntries) /\ named' # <<>>
      /\ Registered' \subseteq Registered \union {handler}
  BY NamingKeeps DEF RegisterHook, PluginTypeOK
<1>2. CASE order = 0
  <2>1. arrays' = Append(arrays, <<handler>>) /\ order' = Len(arrays) + 1
    BY <1>2 DEF RegisterHook
  <2>2. /\ Len(arrays') = Len(arrays) + 1 /\ ArraysGrow /\ arrays'[order'] = <<handler>>
    BY <2>1 DEF ArraysGrow, PluginTypeOK
  <2>3. HookOrder = {} /\ HookOrder' = {handler}
    BY <1>2, <2>1, <2>2 DEF HookOrder, ToSet, PluginTypeOK
  <2>4. order' \in 0..Len(arrays')
    BY <2>1, <2>2 DEF PluginTypeOK
  <2>5. Registered \subseteq {}
    BY <2>3 DEF OrderHasTheNamed
  <2>6. OrderHasTheNamed'
    BY <1>1, <2>3, <2>5 DEF OrderHasTheNamed
  <2> QED BY <1>1, <2>2, <2>4, <2>6 DEF RegisterHook, PluginTypeOK
<1>3. CASE order # 0
  <2> DEFINE old == arrays[order]
  <2>1. arrays' = [arrays EXCEPT ![order] = Append(old, handler)] /\ order' = order
    BY <1>3 DEF RegisterHook
  <2>2. order \in 1..Len(arrays) /\ old \in Seq(Handlers)
    BY <1>3 DEF PluginTypeOK
  <2>3. /\ arrays' \in Seq(Seq(Handlers)) /\ Len(arrays') = Len(arrays)
        /\ arrays'[order] = Append(old, handler)
        /\ \A a \in 1..Len(arrays) : a # order => arrays'[a] = arrays[a]
    BY <2>1, <2>2 DEF PluginTypeOK
  <2>4. /\ Len(Append(old, handler)) = Len(old) + 1 /\ Append(old, handler)[Len(old) + 1] = handler
        /\ \A k \in 1..Len(old) : Append(old, handler)[k] = old[k]
    BY <2>2
  <2>5. ArraysGrow
    BY <2>2, <2>3, <2>4 DEF ArraysGrow, PluginTypeOK
  <2>6. HookOrder \union {handler} \subseteq HookOrder'
    <3>1. HookOrder = {old[k] : k \in 1..Len(old)}
      BY <1>3, <2>2 DEF HookOrder, ToSet
    <3> DEFINE new == Append(old, handler)
    <3>2. DOMAIN new = 1..(Len(old) + 1) /\ Len(old) \in Nat
      BY <2>2
    <3>3. new[Len(old) + 1] = handler /\ \A k \in 1..Len(old) : new[k] = old[k]
      BY <2>4
    <3>4. arrays'[order'] = new /\ order' # 0
      BY <1>3, <2>1, <2>3
    <3> HIDE DEF new
    <3>5. HookOrder' = {new[k] : k \in 1..(Len(old) + 1)}
      BY <3>2, <3>4 DEF HookOrder, ToSet
    <3> QED BY <3>1, <3>2, <3>3, <3>5
  <2> QED BY <1>1, <2>1, <2>2, <2>3, <2>5, <2>6 DEF OrderHasTheNamed, RegisterHook, PluginTypeOK
<1> QED BY <1>2, <1>3

LEMMA UnregisterKeeps ==
  ASSUME PluginInv, NEW name \in HookNames, UnregisterHook(name)
  PROVE  PluginInv'
<1> USE DEF PluginInv
<1>1. PICK i \in DOMAIN named : named' = RemoveAt(named, i)
  BY DEF UnregisterHook
<1>2. named' \in Seq(HookEntries)
  BY <1>1 DEF RemoveAt, PluginTypeOK
<1> DEFINE left == [k \in DOMAIN named' |-> named'[k][2]]
<1>3. left \in Seq(Handlers) /\ DOMAIN left = DOMAIN named'
  BY <1>2 DEF HookEntries
<1>4. arrays' = Append(arrays, left) /\ order' = Len(arrays) + 1
  BY DEF UnregisterHook
<1> HIDE DEF left
<1>5. /\ ArraysGrow /\ order' \in 1..Len(arrays') /\ arrays'[order'] = left
  BY <1>3, <1>4 DEF ArraysGrow, PluginTypeOK
<1>6. HookOrder' = {left[k] : k \in DOMAIN left}
  BY <1>5 DEF HookOrder, ToSet, PluginTypeOK
<1>7. HookOrder' = Registered'
  BY <1>3, <1>6 DEF Registered, left
<1>8. OrderHasTheNamed'
  BY <1>7 DEF OrderHasTheNamed, Registered
<1>9. PluginTypeOK'
  BY <1>2, <1>5 DEF PluginTypeOK, UnregisterHook, loaderVars, ArraysGrow
<1>10. MustBeAsked'
  BY <1>5, GrowthKeepsMustBeAsked DEF UnregisterHook
<1> QED BY <1>8, <1>9, <1>10 DEF UnregisterHook, loaderVars, OneLoader, ActiveOnce, IsLoading

LEMMA HostRegistersKeeps ==
  ASSUME PluginInv, NEW name \in HookNames, HostRegistersHook(name)
  PROVE  PluginInv'
<1>1. PICK handler \in Handlers : RegisterHook(name, handler)
  BY DEF HostRegistersHook
<1>2. <<name, handler>> \in HookEntries
  BY DEF HookEntries
<1>3. /\ named' \in Seq(HookEntries) /\ order' \in 0..Len(arrays') /\ used' \subseteq Handlers
      /\ ArraysGrow /\ OrderHasTheNamed'
  BY <1>1, <1>2, RegisterEffect DEF PluginInv
<1>4. PluginTypeOK'
  BY <1>3 DEF PluginInv, PluginTypeOK, HostRegistersHook, loaderVars, ArraysGrow
<1>5. MustBeAsked'
  BY <1>3, GrowthKeepsMustBeAsked DEF PluginInv, HostRegistersHook
<1> QED BY <1>3, <1>4, <1>5
  DEF PluginInv, HostRegistersHook, loaderVars, OneLoader, ActiveOnce, IsLoading

LEMMA ClearKeeps ==
  ASSUME PluginInv, ClearHooks
  PROVE  PluginInv'
<1>1. PluginTypeOK'
  BY DEF PluginInv, PluginTypeOK, ClearHooks, loaderVars
<1>2. OrderHasTheNamed'
  BY DEF ClearHooks, OrderHasTheNamed, Registered, HookOrder
<1>3. ArraysGrow
  BY DEF ClearHooks, PluginInv, PluginTypeOK, ArraysGrow
<1>4. MustBeAsked'
  BY <1>3, GrowthKeepsMustBeAsked DEF PluginInv, ClearHooks
<1> QED BY <1>1, <1>2, <1>4
  DEF PluginInv, ClearHooks, loaderVars, OneLoader, ActiveOnce, IsLoading

LEMMA RegisteredAreHandlers ==
  ASSUME PluginTypeOK
  PROVE  Registered \subseteq Handlers
  BY DEF PluginTypeOK, Registered, HookEntries

\* One execution changes, and is one that asks its handlers in full.
LEMMA ExecutionMoves ==
  ASSUME PluginInv, NEW e \in Executions, NEW x \in Asking,
         execution' = [execution EXCEPT ![e] = x],
         UNCHANGED <<named, order, arrays, used, loaderVars>>,
         x.pc = "asking" => /\ x.array \in 1..Len(arrays) /\ x.at <= Len(arrays[x.array])
                            /\ x.must \subseteq x.asked \union StillAsked(x),
         x.pc = "done" /\ x.result => x.must \subseteq x.asked
  PROVE  PluginInv'
<1>1. \A d \in Executions : execution'[d] = (IF d = e THEN x ELSE execution[d])
  BY DEF PluginInv, PluginTypeOK
<1>2. PluginTypeOK'
  BY DEF PluginInv, PluginTypeOK, loaderVars
<1>3. MustBeAsked'
  BY <1>1 DEF PluginInv, MustBeAsked, StillAsked
<1> QED BY <1>2, <1>3
  DEF PluginInv, loaderVars, OneLoader, ActiveOnce, IsLoading, OrderHasTheNamed, Registered, HookOrder

LEMMA ExecuteKeeps ==
  ASSUME PluginInv, NEW e \in Executions, ExecuteHooks(e)
  PROVE  PluginInv'
<1> DEFINE x == [pc |-> IF HasHooks /\ HookOrder # {} THEN "asking" ELSE "done",
                 array |-> order, at |-> 1, asked |-> {}, must |-> Registered, strict |-> FALSE,
                 result |-> TRUE]
<1>1. execution' = [execution EXCEPT ![e] = x]
  BY DEF ExecuteHooks
<1>2. x \in Asking
  BY RegisteredAreHandlers DEF PluginInv, PluginTypeOK, Asking
<1>3. Registered \subseteq HookOrder
  BY DEF PluginInv, OrderHasTheNamed
<1>4. CASE HasHooks /\ HookOrder # {}
  <2>1. order \in 1..Len(arrays) /\ arrays[order] \in Seq(Handlers)
    BY <1>4 DEF PluginInv, PluginTypeOK, HookOrder
  <2>2. HookOrder = {arrays[order][k] : k \in 1..Len(arrays[order])}
    BY <2>1 DEF HookOrder, ToSet
  <2>3. 1 <= Len(arrays[order])
    BY <1>4, <2>1, <2>2
  <2> HIDE DEF x
  <2>4. x.pc = "asking" /\ x.array = order /\ x.at = 1 /\ x.must = Registered /\ x.asked = {}
    BY <1>4 DEF x
  <2>5. StillAsked(x) = HookOrder
    BY <2>2, <2>4 DEF StillAsked
  <2> QED BY <1>1, <1>2, <1>3, <2>1, <2>3, <2>4, <2>5, ExecutionMoves DEF ExecuteHooks
<1>5. CASE ~(HasHooks /\ HookOrder # {})
  <2>1. Registered = {}
    BY <1>3, <1>5 DEF HasHooks, Registered
  <2> HIDE DEF x
  <2>2. x.pc = "done" /\ x.must = {}
    BY <1>5, <2>1 DEF x
  <2> QED BY <1>1, <1>2, <2>2, ExecutionMoves DEF ExecuteHooks
<1> QED BY <1>4, <1>5

LEMMA HandlerAnswersKeeps ==
  ASSUME PluginInv, NEW e \in Executions, HandlerAnswers(e)
  PROVE  PluginInv'
<1> DEFINE x == execution[e]
           h == arrays[x.array][x.at]
           inquiry == [x EXCEPT !.asked = @ \union {h}, !.at = @ + 1]
           last == x.at >= Len(arrays[x.array])
<1>1. /\ x \in Asking /\ x.array \in 1..Len(arrays) /\ x.at <= Len(arrays[x.array])
      /\ x.must \subseteq x.asked \union StillAsked(x) /\ x.pc = "asking"
  BY DEF HandlerAnswers, PluginInv, PluginTypeOK, MustBeAsked
<1>2. /\ arrays[x.array] \in Seq(Handlers) /\ Len(arrays[x.array]) \in Nat
      /\ x.at \in 1..Len(arrays[x.array]) /\ h \in Handlers
  BY <1>1 DEF PluginInv, PluginTypeOK, Asking
<1>3. StillAsked(x) = {h} \union {arrays[x.array][k] : k \in (x.at + 1)..Len(arrays[x.array])}
  BY <1>2 DEF StillAsked
<1>4. /\ inquiry \in Asking /\ inquiry.pc = "asking" /\ inquiry.array = x.array /\ inquiry.at = x.at + 1
      /\ inquiry.must = x.must /\ inquiry.asked = x.asked \union {h}
  <2>1. x.at + 1 \in Nat \ {0} /\ x.asked \union {h} \in SUBSET Handlers
    BY <1>1, <1>2 DEF Asking
  <2>2. inquiry = [x EXCEPT !.asked = x.asked \union {h}, !.at = x.at + 1]
    OBVIOUS
  <2> HIDE DEF x, h, inquiry
  <2> DEFINE n == x.at + 1
             a == x.asked \union {h}
  <2>3. x \in Asking /\ n \in Nat \ {0} /\ a \in SUBSET Handlers
    BY <1>1, <2>1
  <2>4. inquiry = [x EXCEPT !.asked = a, !.at = n]
    BY <2>2
  <2> HIDE DEF n, a
  <2>5. /\ inquiry \in Asking /\ inquiry.pc = x.pc /\ inquiry.must = x.must /\ inquiry.array = x.array
        /\ inquiry.at = n /\ inquiry.asked = a
    BY <2>3, <2>4 DEF Asking
  <2> QED BY <1>1, <2>5 DEF n, a
<1>5. inquiry.must \subseteq inquiry.asked \union StillAsked(inquiry)
  BY <1>1, <1>3, <1>4 DEF StillAsked
<1>6. PICK next \in {FinishHooks(e, FALSE)} \union
                      IF x.at < Len(arrays[x.array]) THEN {inquiry, [inquiry EXCEPT !.strict = TRUE]}
                      ELSE {[inquiry EXCEPT !.pc = "done"],
                            [inquiry EXCEPT !.pc = "done", !.strict = TRUE]} :
        execution' = [execution EXCEPT ![e] = next]
  BY DEF HandlerAnswers
<1>7. UNCHANGED <<named, order, arrays, used, loaderVars>>
  BY DEF HandlerAnswers
<1>8. CASE next = FinishHooks(e, FALSE)
  <2>1. next \in Asking /\ next.pc = "done" /\ next.result = FALSE
    BY <1>1, <1>8 DEF FinishHooks, Asking
  <2> QED BY <1>6, <1>7, <2>1, ExecutionMoves
<1> HIDE DEF inquiry
<1>9. CASE x.at < Len(arrays[x.array]) /\ next \in {inquiry, [inquiry EXCEPT !.strict = TRUE]}
  <2>1. /\ next \in Asking /\ next.pc = "asking" /\ next.array = x.array /\ next.at = x.at + 1
        /\ next.must = inquiry.must /\ next.asked = inquiry.asked
    BY <1>4, <1>9 DEF Asking
  <2>2. StillAsked(next) = StillAsked(inquiry)
    BY <1>4, <2>1 DEF StillAsked
  <2>3. next.at <= Len(arrays[next.array])
    BY <1>2, <1>9, <2>1
  <2> QED BY <1>1, <1>5, <1>6, <1>7, <2>1, <2>2, <2>3, ExecutionMoves
<1>10. CASE /\ ~(x.at < Len(arrays[x.array]))
            /\ next \in {[inquiry EXCEPT !.pc = "done"], [inquiry EXCEPT !.pc = "done", !.strict = TRUE]}
  <2>1. /\ next \in Asking /\ next.pc = "done"
        /\ next.must = inquiry.must /\ next.asked = inquiry.asked
    BY <1>4, <1>10 DEF Asking
  <2>2. StillAsked(inquiry) = {}
    BY <1>2, <1>4, <1>10 DEF StillAsked
  <2> QED BY <1>5, <1>6, <1>7, <2>1, <2>2, ExecutionMoves
<1> QED BY <1>6, <1>8, <1>9, <1>10

Activated(p) == {l \in Loaders : loading[l].pc = "activated" /\ loading[l].plugin = p}

\* How many activations of a plugin are under way that nobody else loads.
LEMMA OneActivated ==
  ASSUME OneLoader, NEW p \in DOMAIN Plugins \ overlapped, NEW l \in Loaders, IsLoading(l, p)
  PROVE  /\ p \notin loaded
         /\ loading[l].pc = "activated" => Cardinality(Activated(p)) = 1
         /\ loading[l].pc # "activated" => Cardinality(Activated(p)) = 0
<1>1. p \notin loaded /\ \A m \in Loaders : IsLoading(m, p) => m = l
  BY DEF OneLoader
<1>2. Activated(p) \subseteq {l}
  BY <1>1 DEF Activated, IsLoading
<1>3. CASE loading[l].pc = "activated"
  <2>1. Activated(p) = {l}
    BY <1>2, <1>3 DEF Activated, IsLoading
  <2> QED BY <1>1, <1>3, <2>1, FS_Singleton
<1>4. CASE loading[l].pc # "activated"
  <2>1. Activated(p) = {}
    BY <1>2, <1>4 DEF Activated
  <2> QED BY <1>1, <1>4, <2>1, FS_EmptySet
<1> QED BY <1>3, <1>4

LEMMA NoneActivated ==
  ASSUME NEW p, \A l \in Loaders : ~IsLoading(l, p)
  PROVE  Cardinality(Activated(p)) = 0
<1>1. Activated(p) = {}
  BY DEF Activated, IsLoading
<1> QED BY <1>1, FS_EmptySet

\* One caller's load moves, and with it what is loaded and active of one plugin.
LEMMA LoaderMoves ==
  ASSUME PluginInv, NEW l \in Loaders, NEW p \in DOMAIN Plugins,
         NEW y \in {[pc |-> "off"]} \union Loading,
         loading' = [loading EXCEPT ![l] = y],
         y.pc # "off" => y.plugin = p,
         overlapped \subseteq overlapped' /\ overlapped' \subseteq DOMAIN Plugins,
         loaded' \subseteq DOMAIN Plugins, active' \in [DOMAIN Plugins -> Int],
         loading[l].pc # "off" => loading[l].plugin = p,
         \A q \in DOMAIN Plugins \ {p} : active'[q] = active[q] /\ (q \in loaded' <=> q \in loaded),
         OneLoader',
         p \notin overlapped' =>
             active'[p] = (IF p \in loaded' THEN 1 ELSE 0) + Cardinality(Activated(p)')
  PROVE  OneLoader' /\ ActiveOnce' /\ loading' \in [Loaders -> {[pc |-> "off"]} \union Loading]
<1>1. loading' \in [Loaders -> {[pc |-> "off"]} \union Loading]
  BY DEF PluginInv, PluginTypeOK
<1>2. ASSUME NEW q \in DOMAIN Plugins \ overlapped', q # p
      PROVE  Activated(q)' = Activated(q)
  <2>1. loading \in [Loaders -> {[pc |-> "off"]} \union Loading]
    BY DEF PluginInv, PluginTypeOK
  <2>2. \A m \in Loaders : m # l => loading'[m] = loading[m]
    BY <2>1
  <2>3. loading'[l] = y
    BY <2>1
  <2>4. l \notin Activated(q) /\ l \notin Activated(q)'
    BY <1>2, <2>3 DEF Activated
  <2> QED BY <2>2, <2>4 DEF Activated
<1>3. ASSUME NEW q \in DOMAIN Plugins \ overlapped'
      PROVE  active'[q] = (IF q \in loaded' THEN 1 ELSE 0) + Cardinality(Activated(q)')
  <2>1. CASE q = p
    BY <1>3, <2>1
  <2>2. CASE q # p
    <3>1. Activated(q)' = Activated(q)
      BY <1>2, <1>3, <2>2
    <3>2. q \in DOMAIN Plugins \ overlapped
      BY <1>3
    <3>3. active[q] = (IF q \in loaded THEN 1 ELSE 0) + Cardinality(Activated(q))
      BY <3>2 DEF PluginInv, ActiveOnce, Activated
    <3> QED BY <1>3, <2>2, <3>1, <3>3
  <2> QED BY <2>1, <2>2
<1>4. ActiveOnce'
  BY <1>3 DEF ActiveOnce, Activated
<1> QED BY <1>1, <1>4

LEMMA LoadKeeps ==
  ASSUME PluginInv, NEW l \in Loaders, NEW p \in DOMAIN Plugins, LoadPlugin(l, p)
  PROVE  PluginInv'
<1> DEFINE y == [pc |-> "activating", plugin |-> p]
<1>1. /\ loading[l].pc = "off" /\ p \notin loaded /\ loading' = [loading EXCEPT ![l] = y]
      /\ UNCHANGED <<loaded, active, hookVars>>
      /\ overlapped' = IF \E m \in Loaders : IsLoading(m, p) THEN overlapped \union {p} ELSE overlapped
  BY DEF LoadPlugin, IsLoading
<1>2. y \in Loading /\ y.pc = "activating" /\ y.plugin = p
  BY DEF Loading
<1>3. \A m \in Loaders : loading'[m] = (IF m = l THEN y ELSE loading[m])
  BY <1>1 DEF PluginInv, PluginTypeOK
<1> HIDE DEF y
<1>4. \A m \in Loaders, q \in DOMAIN Plugins \ overlapped' :
        IsLoading(m, q)' <=> IF m = l THEN q = p ELSE IsLoading(m, q)
  BY <1>2, <1>3 DEF IsLoading
<1>5. OneLoader'
  <2>1. ASSUME NEW q \in DOMAIN Plugins \ overlapped', NEW m \in Loaders, IsLoading(m, q)'
        PROVE  q \notin loaded' /\ \A k \in Loaders : IsLoading(k, q)' => k = m
    <3>1. CASE q = p
      <4>1. \A k \in Loaders : ~IsLoading(k, p)
        BY <1>1, <2>1, <3>1
      <4> QED BY <1>1, <1>4, <2>1, <3>1, <4>1
    <3>2. CASE q # p
      <4>1. q \in DOMAIN Plugins \ overlapped
        BY <1>1, <2>1
      <4> QED BY <1>1, <1>4, <2>1, <3>2, <4>1 DEF PluginInv, OneLoader
    <3> QED BY <3>1, <3>2
  <2> QED BY <2>1 DEF OneLoader
<1>6. p \notin overlapped' =>
        active'[p] = (IF p \in loaded' THEN 1 ELSE 0) + Cardinality(Activated(p)')
  <2> SUFFICES ASSUME p \notin overlapped'
               PROVE  active'[p] = 0 /\ p \notin loaded' /\ Cardinality(Activated(p)') = 0
    OBVIOUS
  <2>1. p \notin overlapped /\ \A m \in Loaders : ~IsLoading(m, p)
    BY <1>1
  <2>2. Cardinality(Activated(p)) = 0
    BY <2>1, NoneActivated
  <2>3. active[p] = (IF p \in loaded THEN 1 ELSE 0) + Cardinality(Activated(p))
    BY <2>1 DEF PluginInv, ActiveOnce, Activated
  <2>4. IsLoading(l, p)' /\ loading'[l].pc # "activated"
    BY <1>2, <1>3 DEF IsLoading
  <2>5. Activated(p)' = {}
    BY <1>2, <1>3, <2>1 DEF Activated, IsLoading
  <2> QED BY <1>1, <2>2, <2>3, <2>5, FS_EmptySet
<1>7. OneLoader' /\ ActiveOnce' /\ loading' \in [Loaders -> {[pc |-> "off"]} \union Loading]
  <2>1. loaded' \subseteq DOMAIN Plugins /\ active' \in [DOMAIN Plugins -> Int]
    BY <1>1 DEF PluginInv, PluginTypeOK
  <2>2. overlapped \subseteq overlapped' /\ overlapped' \subseteq DOMAIN Plugins
    BY <1>1 DEF PluginInv, PluginTypeOK
  <2>3. \A q \in DOMAIN Plugins \ {p} : active'[q] = active[q] /\ (q \in loaded' <=> q \in loaded)
    BY <1>1
  <2> QED BY <1>1, <1>2, <1>5, <1>6, <2>1, <2>2, <2>3, LoaderMoves
<1>8. PluginTypeOK'
  BY <1>1, <1>7 DEF PluginInv, PluginTypeOK, hookVars
<1> QED BY <1>1, <1>7, <1>8 DEF PluginInv, OrderHasTheNamed, Registered, HookOrder, MustBeAsked,
                                StillAsked, hookVars

\* The plugin stays the same: who loads what is as before, or one load less.
LEMMA SamePlugin ==
  ASSUME PluginInv, NEW l \in Loaders, NEW y \in {[pc |-> "off"]} \union Loading,
         loading[l].pc # "off", y.pc # "off" => y.plugin = loading[l].plugin,
         loading' = [loading EXCEPT ![l] = y], UNCHANGED overlapped,
         loaded' \subseteq loaded \union IF y.pc = "off" THEN {loading[l].plugin} ELSE {}
  PROVE  OneLoader'
<1>1. \A m \in Loaders : loading'[m] = (IF m = l THEN y ELSE loading[m])
  BY DEF PluginInv, PluginTypeOK
<1>2. ASSUME NEW q \in DOMAIN Plugins \ overlapped', NEW m \in Loaders, IsLoading(m, q)'
      PROVE  q \notin loaded' /\ \A k \in Loaders : IsLoading(k, q)' => k = m
  <2>1. \A k \in Loaders : IsLoading(k, q)' => IsLoading(k, q)
    BY <1>1 DEF IsLoading
  <2>2. q \notin loaded /\ \A k \in Loaders : IsLoading(k, q) => k = m
    BY <1>2, <2>1 DEF PluginInv, OneLoader
  <2>3. y.pc = "off" => q # loading[l].plugin
    <3> SUFFICES ASSUME y.pc = "off", q = loading[l].plugin PROVE FALSE
      OBVIOUS
    <3>1. IsLoading(l, q)
      BY DEF IsLoading
    <3>2. m = l
      BY <2>2, <3>1
    <3> QED BY <1>1, <1>2, <3>2 DEF IsLoading
  <2> QED BY <2>1, <2>2, <2>3
<1> QED BY <1>2 DEF OneLoader

LEMMA ActivatesKeeps ==
  ASSUME PluginInv, NEW l \in Loaders, Activates(l)
  PROVE  PluginInv'
<1>a. loading[l] \in Loading
  BY DEF Activates, PluginInv, PluginTypeOK
<1>b. PICK p \in DOMAIN Plugins : p = loading[l].plugin
  BY <1>a DEF Loading
<1> DEFINE y == [loading[l] EXCEPT !.pc = "activated"]
<1>1. /\ loading[l] \in Loading /\ loading[l].pc = "activating" /\ p \in DOMAIN Plugins
      /\ UNCHANGED <<execution, loaded, loadCalls, overlapped>>
      /\ active' = [active EXCEPT ![p] = @ + 1] /\ loading' = [loading EXCEPT ![l] = y]
  BY <1>a, <1>b DEF Activates
<1>2. y \in Loading /\ y.pc = "activated" /\ y.plugin = p
  <2>1. loading[l] = [pc |-> "activating", plugin |-> p]
    BY <1>1, <1>b DEF Loading
  <2> QED BY <1>1, <2>1 DEF Loading
<1>3. PICK handler \in Handlers : RegisterHook(Plugins[p], handler)
  BY <1>b DEF Activates
<1>4. <<Plugins[p], handler>> \in HookEntries
  BY <1>1 DEF HookEntries
<1> HIDE DEF y
<1>5. /\ named' \in Seq(HookEntries) /\ order' \in 0..Len(arrays') /\ used' \subseteq Handlers
      /\ ArraysGrow /\ OrderHasTheNamed'
  BY <1>3, <1>4, RegisterEffect DEF PluginInv
<1>6. MustBeAsked'
  BY <1>1, <1>5, GrowthKeepsMustBeAsked DEF PluginInv
<1>7. OneLoader'
  BY <1>1, <1>2, <1>b, SamePlugin
<1>8. active' \in [DOMAIN Plugins -> Int] /\ active'[p] = active[p] + 1
      /\ \A q \in DOMAIN Plugins \ {p} : active'[q] = active[q]
  BY <1>1 DEF PluginInv, PluginTypeOK
<1>9. ASSUME p \notin overlapped'
      PROVE  active'[p] = (IF p \in loaded' THEN 1 ELSE 0) + Cardinality(Activated(p)')
  <2>1. p \in DOMAIN Plugins \ overlapped /\ IsLoading(l, p)
    BY <1>1, <1>9, <1>b DEF IsLoading
  <2>2. p \notin loaded /\ Cardinality(Activated(p)) = 0
    BY <1>1, <2>1, OneActivated DEF PluginInv
  <2>3. active[p] = 0
    BY <2>1, <2>2 DEF PluginInv, ActiveOnce, Activated
  <2>4. \A m \in Loaders : loading'[m] = (IF m = l THEN y ELSE loading[m])
    BY <1>1 DEF PluginInv, PluginTypeOK
  <2>5. \A m \in Loaders : IsLoading(m, p) => m = l
    BY <2>1 DEF PluginInv, OneLoader
  <2>6. Activated(p)' = {l}
    BY <1>2, <2>4, <2>5 DEF Activated, IsLoading
  <2> QED BY <1>1, <1>8, <2>2, <2>3, <2>6, FS_Singleton
<1>10. ActiveOnce' /\ loading' \in [Loaders -> {[pc |-> "off"]} \union Loading]
  <2>1. overlapped \subseteq overlapped' /\ overlapped' \subseteq DOMAIN Plugins
        /\ loaded' \subseteq DOMAIN Plugins
    BY <1>1 DEF PluginInv, PluginTypeOK
  <2>2. loading[l].pc # "off" => loading[l].plugin = p
    BY <1>b
  <2> QED BY <1>1, <1>2, <1>7, <1>8, <1>9, <2>1, <2>2, LoaderMoves
<1>11. PluginTypeOK'
  BY <1>1, <1>5, <1>8, <1>10 DEF PluginInv, PluginTypeOK, ArraysGrow
<1> QED BY <1>5, <1>6, <1>7, <1>10, <1>11 DEF PluginInv

LEMMA LoadEndsKeeps ==
  ASSUME PluginInv, NEW l \in Loaders, LoadEnds(l)
  PROVE  PluginInv'
<1>a. loading[l] \in Loading
  BY DEF LoadEnds, PluginInv, PluginTypeOK
<1>b. PICK p \in DOMAIN Plugins : p = loading[l].plugin
  BY <1>a DEF Loading
<1> DEFINE y == [pc |-> "off"]
<1>1. /\ loading[l] \in Loading /\ loading[l].pc = "activated" /\ p \in DOMAIN Plugins
      /\ UNCHANGED <<overlapped, hookVars>> /\ loading' = [loading EXCEPT ![l] = y]
      /\ \/ loaded' = loaded \union {p} /\ UNCHANGED active
         \/ active' = [active EXCEPT ![p] = @ - 1] /\ UNCHANGED loaded
  BY <1>a, <1>b DEF LoadEnds
<1>2. active' \in [DOMAIN Plugins -> Int] /\ loaded' \subseteq DOMAIN Plugins
      /\ \A q \in DOMAIN Plugins \ {p} : active'[q] = active[q] /\ (q \in loaded' <=> q \in loaded)
  BY <1>1 DEF PluginInv, PluginTypeOK
<1>3. OneLoader'
  BY <1>1, <1>b, SamePlugin
<1>4. ASSUME p \notin overlapped'
      PROVE  active'[p] = (IF p \in loaded' THEN 1 ELSE 0) + Cardinality(Activated(p)')
  <2>1. p \in DOMAIN Plugins \ overlapped /\ IsLoading(l, p)
    BY <1>1, <1>4, <1>b DEF IsLoading
  <2>2. p \notin loaded /\ Cardinality(Activated(p)) = 1
    BY <1>1, <2>1, OneActivated DEF PluginInv
  <2>3. active[p] = 1
    BY <2>1, <2>2 DEF PluginInv, ActiveOnce, Activated
  <2>4. \A m \in Loaders : loading'[m] = (IF m = l THEN y ELSE loading[m])
    BY <1>1 DEF PluginInv, PluginTypeOK
  <2>5. \A m \in Loaders : IsLoading(m, p) => m = l
    BY <2>1 DEF PluginInv, OneLoader
  <2>6. Activated(p)' = {}
    BY <2>4, <2>5 DEF Activated, IsLoading
  <2>7. Cardinality(Activated(p)') = 0
    BY <2>6, FS_EmptySet
  <2>8. active'[p] = (IF p \in loaded' THEN 1 ELSE 0)
    BY <1>1, <2>1, <2>2, <2>3 DEF PluginInv, PluginTypeOK
  <2> QED BY <2>7, <2>8
<1>5. ActiveOnce' /\ loading' \in [Loaders -> {[pc |-> "off"]} \union Loading]
  <2>1. overlapped \subseteq overlapped' /\ overlapped' \subseteq DOMAIN Plugins
    BY <1>1 DEF PluginInv, PluginTypeOK
  <2>2. loading[l].pc # "off" => loading[l].plugin = p
    BY <1>b
  <2> QED BY <1>1, <1>2, <1>3, <1>4, <2>1, <2>2, LoaderMoves
<1>6. PluginTypeOK'
  BY <1>1, <1>2, <1>5 DEF PluginInv, PluginTypeOK, hookVars
<1> QED BY <1>1, <1>3, <1>5, <1>6 DEF PluginInv, OrderHasTheNamed, Registered, HookOrder,
                                      MustBeAsked, StillAsked, hookVars

LEMMA UnloadKeeps ==
  ASSUME PluginInv, NEW p \in DOMAIN Plugins, UnloadPlugin(p)
  PROVE  PluginInv'
<1>1. /\ p \in loaded /\ loaded' = loaded \ {p} /\ active' = [active EXCEPT ![p] = @ - 1]
      /\ UNCHANGED <<loading, overlapped, hookVars>>
  BY DEF UnloadPlugin
<1>2. OneLoader'
  BY <1>1 DEF PluginInv, OneLoader, IsLoading
<1>3. active' \in [DOMAIN Plugins -> Int] /\ active'[p] = active[p] - 1
      /\ \A q \in DOMAIN Plugins \ {p} : active'[q] = active[q]
  BY <1>1 DEF PluginInv, PluginTypeOK
<1>4. ASSUME NEW q \in DOMAIN Plugins \ overlapped'
      PROVE  active'[q] = (IF q \in loaded' THEN 1 ELSE 0) + Cardinality(Activated(q)')
  <2>1. active[q] = (IF q \in loaded THEN 1 ELSE 0) + Cardinality(Activated(q))
    BY <1>1, <1>4 DEF PluginInv, ActiveOnce, Activated
  <2>2. Activated(q)' = Activated(q)
    BY <1>1 DEF Activated
  <2>3. CASE q = p
    <3>1. \A l \in Loaders : ~IsLoading(l, p)
      BY <1>1, <1>4, <2>3 DEF PluginInv, OneLoader
    <3>2. Cardinality(Activated(p)) = 0
      BY <3>1, NoneActivated
    <3> QED BY <1>1, <1>3, <2>1, <2>2, <2>3, <3>2
  <2>4. CASE q # p
    BY <1>1, <1>3, <1>4, <2>1, <2>2, <2>4
  <2> QED BY <2>3, <2>4
<1>5. ActiveOnce'
  BY <1>4 DEF ActiveOnce, Activated
<1>6. PluginTypeOK'
  BY <1>1, <1>3 DEF PluginInv, PluginTypeOK, hookVars
<1> QED BY <1>1, <1>2, <1>5, <1>6 DEF PluginInv, OrderHasTheNamed, Registered, HookOrder,
                                      MustBeAsked, StillAsked, hookVars

LEMMA PluginInvKept ==
  ASSUME PluginInv, [PluginNext]_pluginVars
  PROVE  PluginInv'
<1>1. CASE UNCHANGED pluginVars
  BY <1>1 DEF pluginVars, hookVars, loaderVars, PluginInv, PluginTypeOK, OrderHasTheNamed, Registered,
              HookOrder, MustBeAsked, StillAsked, OneLoader, IsLoading, ActiveOnce
<1>2. CASE PluginNext
  BY <1>2, HostRegistersKeeps, UnregisterKeeps, ClearKeeps, ExecuteKeeps, HandlerAnswersKeeps,
     LoadKeeps, ActivatesKeeps, LoadEndsKeeps, UnloadKeeps DEF PluginNext
<1> QED BY <1>1, <1>2

LEMMA PluginsHold == PluginInv => NoHookIsSkipped /\ ActiveOnce
<1> SUFFICES ASSUME PluginInv PROVE NoHookIsSkipped
  BY DEF PluginInv
<1>1. HasHooks <=> HookOrder # {}
  <2>1. named # <<>> => Registered # {}
    BY DEF PluginInv, PluginTypeOK, Registered
  <2> QED BY <2>1 DEF PluginInv, OrderHasTheNamed, HasHooks
<1> QED BY <1>1 DEF PluginInv, OrderHasTheNamed, MustBeAsked, NoHookIsSkipped

-----------------------------------------------------------------------------
(* The runtime: tools, messages, scripts *)

LEMMA ToolSteps ==
  ASSUME [Next]_agentVars
  PROVE  /\ [ToolsNext]_toolVars /\ [MessagesNext]_messageVars /\ [ScriptsNext]_script
<1>1. CASE UNCHANGED agentVars
  BY <1>1 DEF agentVars, loopVars
<1>2. CASE Next
  BY <1>2 DEF Next, loopVars
<1> QED BY <1>1, <1>2

\* A plugin of the host is the registered one.
ToolInv ==
    /\ plugins \in [LoopTools -> {"none", "builtin", "host"}]
    /\ hosts \subseteq LoopTools /\ HostPluginsStay

LEMMA InstallKeeps ==
  ASSUME ToolInv, NEW profile, NEW loop, NEW context, Install(profile, loop, context)
  PROVE  ToolInv'
<1>1. /\ plugins' = [t \in LoopTools |-> IF plugins[t] = "none" THEN "builtin" ELSE plugins[t]]
      /\ UNCHANGED hosts
  BY DEF Install, WithBuiltins
<1> QED BY <1>1 DEF ToolInv, HostPluginsStay

LEMMA ToolInvKept ==
  ASSUME ToolInv, [ToolsNext]_toolVars
  PROVE  ToolInv'
<1>1. CASE UNCHANGED toolVars
  BY <1>1 DEF toolVars, ToolInv, HostPluginsStay
<1>2. CASE StartNode
  BY <1>2, InstallKeeps DEF StartNode
<1>3. ASSUME NEW p \in LoopProfiles, NEW loop \in LoopIds, StartTurn(p, loop) PROVE ToolInv'
  BY <1>3, InstallKeeps DEF StartTurn
<1>4. ASSUME NEW t \in LoopTools, HostRegisters(t) PROVE ToolInv'
  BY <1>4 DEF HostRegisters, ToolInv, HostPluginsStay
<1> QED BY <1>1, <1>2, <1>3, <1>4 DEF ToolsNext

\* A conversation's identifier says what it was created with, and so does its row.
MessageInv ==
    /\ DOMAIN made = AgentConversations /\ DOMAIN rowOf = AgentConversations
    /\ \A c \in AgentConversations :
         /\ made[c] # NoAgent => made[c] = Infer(c)
         /\ rowOf[c] # NoAgent => rowOf[c] = Infer(c)
    /\ ran # NoRun /\ ran.asked = NoAgent =>
         /\ ran.conversation \in AgentConversations /\ made[ran.conversation] # NoAgent
         /\ ran.agent = Infer(ran.conversation)

LEMMA InferWhatWasAppended ==
  ASSUME NEW a \in AgentIds, NEW s \in Stamps
  PROVE  Infer(Append(a, s)) = a /\ a # NoAgent
<1>1. a \in Seq(STRING) /\ a # <<>> /\ s \in STRING
  BY LoopAssumption
<1> DEFINE c == Append(a, s)
<1>2. /\ c \in Seq(STRING) /\ Len(c) = Len(a) + 1 /\ Len(a) \in Nat /\ Len(a) >= 1
      /\ \A i \in 1..Len(a) : c[i] = a[i]
  <2> DEFINE S == STRING
  <2>1. a \in Seq(S) /\ s \in S
    BY <1>1
  <2> HIDE DEF S
  <2>2. /\ c \in Seq(S) /\ Len(c) = Len(a) + 1 /\ \A i \in 1..Len(a) : c[i] = a[i]
    BY <2>1, AppendProperties
  <2>3. Len(a) \in Nat /\ Len(a) >= 1
    BY <1>1, <2>1, EmptySeq
  <2> QED BY <2>2, <2>3 DEF S
<1> HIDE DEF c
<1>3. Infer(c) = SubSeq(c, 1, Len(a))
  BY <1>2 DEF Infer, Front
<1>4. SubSeq(c, 1, Len(a)) \in Seq(STRING) /\ Len(SubSeq(c, 1, Len(a))) = Len(a)
      /\ \A i \in 1..Len(a) : SubSeq(c, 1, Len(a))[i] = c[i]
  BY <1>2
<1>5. SubSeq(c, 1, Len(a)) = a
  BY <1>1, <1>2, <1>4, SeqEqual
<1> QED BY <1>1, <1>3, <1>5 DEF c, NoAgent

LEMMA MessageInvKept ==
  ASSUME MessageInv, [MessagesNext]_messageVars
  PROVE  MessageInv'
<1>1. CASE UNCHANGED messageVars
  BY <1>1 DEF messageVars, MessageInv
<1>2. ASSUME NEW a \in AgentIds, NEW s \in Stamps, CreateAgent(a, s) PROVE MessageInv'
  <2> DEFINE c == Append(a, s)
  <2>1. Infer(c) = a /\ a # NoAgent /\ c \in AgentConversations
    BY InferWhatWasAppended DEF AgentConversations
  <2>2. /\ rowOf' = [rowOf EXCEPT ![c] = a] /\ made' = [made EXCEPT ![c] = a]
        /\ ran'.asked = a \/ ran' = ran
    BY <1>2 DEF CreateAgent, Hands
  <2> HIDE DEF c
  <2> QED BY <2>1, <2>2 DEF MessageInv
<1>3. ASSUME NEW a \in AgentIds, NEW place, DefinitionMoves(a, place) PROVE MessageInv'
  BY <1>3 DEF DefinitionMoves, MessageInv
<1>4. ASSUME NEW c \in AgentConversations, DeleteRow(c) PROVE MessageInv'
  BY <1>4 DEF DeleteRow, MessageInv
<1>5. ASSUME NEW c \in AgentConversations, NEW inquiry, NEW readable, SendTo(c, inquiry, readable)
      PROVE  MessageInv'
  <2>1. /\ made[c] # NoAgent /\ made' = made
        /\ rowOf' = [rowOf EXCEPT ![c] = IF @ = NoAgent THEN Infer(c) ELSE @]
        /\ ran'.asked = inquiry /\ ran'.conversation = c
        /\ ran'.agent = IF inquiry # NoAgent THEN inquiry ELSE AgentOf(c, readable)
    BY <1>5 DEF SendTo, Hands
  <2>2. AgentOf(c, readable) = Infer(c)
    BY DEF MessageInv, AgentOf
  <2> QED BY <2>1, <2>2 DEF MessageInv
<1> QED BY <1>1, <1>2, <1>3, <1>4, <1>5 DEF MessagesNext

LEMMA MessagesHold == MessageInv => MessageRunsItsDefinition
  BY DEF MessageInv, MessageRunsItsDefinition

LEMMA ScriptsKept ==
  ASSUME ScriptsArePermitted, [ScriptsNext]_script
  PROVE  ScriptsArePermitted'
<1>1. CASE UNCHANGED script
  BY <1>1 DEF ScriptsArePermitted
<1>2. ASSUME NEW r \in References, NEW given, LoadScript(r, given) PROVE ScriptsArePermitted'
  <2>1. CASE Loads(r, given) /\ \E end \in {"runs", "no function"} :
               script' = [reference |-> r, given |-> given, outcome |-> end]
    <3> PICK end : script' = [reference |-> r, given |-> given, outcome |-> end]
      BY <2>1
    <3>1. script'.reference = r /\ script'.given = given
      OBVIOUS
    <3> QED BY <2>1, <3>1 DEF Loads, SpecifierAllowed, ScriptsArePermitted, References
  <2>2. CASE script' = [reference |-> r, given |-> given, outcome |-> "refused"]
    BY <2>2 DEF ScriptsArePermitted
  <2> QED BY <1>2, <2>1, <2>2 DEF LoadScript
<1> QED BY <1>1, <1>2 DEF ScriptsNext

LEMMA LoopInitially ==
  ASSUME LoopInit
  PROVE  ToolInv /\ MessageInv /\ ScriptsArePermitted
<1>1. ToolInv
  BY DEF LoopInit, ToolInv, HostPluginsStay
<1>2. MessageInv
  BY DEF LoopInit, MessageInv
<1>3. ScriptsArePermitted
  BY DEF LoopInit, NoScript, ScriptsArePermitted
<1> QED BY <1>1, <1>2, <1>3

-----------------------------------------------------------------------------
(* Tools that start something outside the node *)

LEMMA NodeToolSteps ==
  ASSUME [Next]_agentVars
  PROVE  [NodeToolsNext]_nodeToolVars
<1>1. CASE UNCHANGED agentVars
  BY <1>1 DEF agentVars
<1>2. CASE Next
  BY <1>2 DEF Next
<1> QED BY <1>1, <1>2

Uses == [tool : {"none", "start", "shot", "picture", "code", "list", "call"},
         pc : {"off", "settling", "waiting", "launching", "shooting", "closing", "running",
               "connecting", "asking", "answered"},
         port : Ports \union {0}, at : Nat, out : SUBSET STRING, ok : BOOLEAN]

ServersBefore(n) == {McpServers[i] : i \in 1..(n - 1)}

\* A process that is up is waited for or remembered; a browser and a client are open only where
\* they are used; a list has the tools of every server before the one it is at.
CallInv(c) ==
    LET u == use[c] IN
    /\ process[c] = "up" =>
         u.pc \in {"settling", "waiting", "running"} \/ c \in runningServers
    /\ c \in browser => u.pc \in {"shooting", "closing"}
    /\ c \in client => u.pc = "asking"
    /\ u.pc = "off" => u.tool = "none" /\ u.out = {}
    /\ u.tool = "list" => u.pc \in {"connecting", "asking", "answered"}
    /\ u.pc \in {"connecting", "asking"} => u.at \in 1..Len(McpServers)
    /\ u.tool = "list" /\ u.pc \in {"connecting", "asking"} =>
         u.out = ServersBefore(u.at)
    /\ u.tool = "list" /\ u.pc = "answered" /\ u.ok => u.out = ServersBefore(Len(McpServers) + 1)

NodeTypeOK ==
    /\ use \in [NodeCalls -> Uses]
    /\ DOMAIN process = NodeCalls

NodeInv == NodeTypeOK /\ \A c \in NodeCalls : CallInv(c)

\* A step of one call leaves what the others have.
OneCall(c) ==
    /\ DOMAIN use' = NodeCalls /\ DOMAIN process' = NodeCalls
    /\ \A d \in NodeCalls \ {c} :
         /\ use'[d] = use[d] /\ process'[d] = process[d]
         /\ d \in runningServers' <=> d \in runningServers
         /\ d \in browser' => d \in browser
         /\ d \in client' => d \in client

LEMMA OthersKept ==
  ASSUME NodeInv, NEW c \in NodeCalls, OneCall(c), use' \in [NodeCalls -> Uses], CallInv(c)'
  PROVE  NodeInv'
<1>1. \A d \in NodeCalls \ {c} : CallInv(d)'
  BY DEF NodeInv, OneCall, CallInv
<1> QED BY <1>1 DEF NodeInv, NodeTypeOK, OneCall

LEMMA NodeInitially ==
  ASSUME NodeToolsInit
  PROVE  NodeInv
<1>1. use \in [NodeCalls -> Uses]
  BY DEF NodeToolsInit, Uses
<1> QED BY <1>1 DEF NodeToolsInit, NodeInv, NodeTypeOK, CallInv

\* Killing touches one process and leaves it no longer up.
LEMMA KillEffect ==
  ASSUME NodeInv, NEW c \in NodeCalls, Kill(c)
  PROVE  /\ DOMAIN process' = NodeCalls /\ process'[c] # "up"
         /\ \A d \in NodeCalls \ {c} : process'[d] = process[d]
  BY DEF Kill, NodeInv, NodeTypeOK

LEMMA BeginningKeeps ==
  ASSUME NodeInv, NEW c \in NodeCalls
  PROVE  /\ \A tool \in {"start", "shot"}, port \in Ports \union {0} :
              BeginDemo(c, tool, port) => NodeInv'
         /\ BeginPicture(c) => NodeInv'
         /\ RunCode(c) => NodeInv'
         /\ \A tool \in {"list", "call"}, at \in Nat \ {0} :
              BeginMcp(c, tool, at) /\ (tool = "list" => at = 1) => NodeInv'
<1>1. use[c] \in Uses /\ CallInv(c)
  BY DEF NodeInv, NodeTypeOK
<1>2. ASSUME NEW tool \in {"start", "shot"}, NEW port \in Ports \union {0}, BeginDemo(c, tool, port)
      PROVE  NodeInv'
  <2>1. use'[c] = [use[c] EXCEPT !.tool = tool, !.pc = "settling", !.port = port]
        /\ use[c].pc = "off"
    BY <1>2 DEF BeginDemo, Begins, CallAt, NodeInv, NodeTypeOK
  <2>2. use' \in [NodeCalls -> Uses] /\ OneCall(c)
    BY <1>1, <1>2 DEF BeginDemo, Begins, OneCall, NodeInv, NodeTypeOK, kept, Uses
  <2>3. CallInv(c)'
    BY <1>1, <1>2, <2>1 DEF BeginDemo, CallInv, kept, NodeInv, NodeTypeOK, Uses
  <2> QED BY <2>2, <2>3, OthersKept
<1>3. ASSUME BeginPicture(c) PROVE NodeInv'
  <2>1. use'[c] = [use[c] EXCEPT !.tool = "picture", !.pc = "launching", !.port = 0]
        /\ use[c].pc = "off"
    BY <1>3 DEF BeginPicture, Begins, CallAt, NodeInv, NodeTypeOK
  <2>2. use' \in [NodeCalls -> Uses] /\ OneCall(c)
    BY <1>1, <1>3 DEF BeginPicture, Begins, OneCall, NodeInv, NodeTypeOK, kept, outside, Uses
  <2>3. CallInv(c)'
    BY <1>1, <1>3, <2>1 DEF BeginPicture, CallInv, kept, outside, NodeInv, NodeTypeOK, Uses
  <2> QED BY <2>2, <2>3, OthersKept
<1>4. ASSUME RunCode(c) PROVE NodeInv'
  <2>1. use'[c] = [use[c] EXCEPT !.tool = "code", !.pc = "running", !.port = 0]
        /\ use[c].pc = "off"
    BY <1>4 DEF RunCode, Begins, CallAt, NodeInv, NodeTypeOK
  <2>2. use' \in [NodeCalls -> Uses] /\ OneCall(c)
    BY <1>1, <1>4 DEF RunCode, Begins, OneCall, NodeInv, NodeTypeOK, kept, Uses
  <2>3. CallInv(c)'
    BY <1>1, <1>4, <2>1 DEF RunCode, CallInv, kept, NodeInv, NodeTypeOK, Uses
  <2> QED BY <2>2, <2>3, OthersKept
<1>5. ASSUME NEW tool \in {"list", "call"}, NEW at \in Nat \ {0}, tool = "list" => at = 1,
             BeginMcp(c, tool, at)
      PROVE  NodeInv'
  <2>1. use[c].pc = "off" /\ Len(McpServers) \in Nat
    BY <1>5, NodeToolsAssumption DEF BeginMcp, CallAt
  <2>2. use'[c] = [use[c] EXCEPT !.tool = tool, !.at = at,
                       !.pc = IF at > Len(McpServers) THEN "answered" ELSE "connecting",
                       !.ok = at > Len(McpServers)]
    BY <1>5 DEF BeginMcp, NodeInv, NodeTypeOK
  <2>3. use' \in [NodeCalls -> Uses] /\ OneCall(c)
    <3>1. (at > Len(McpServers)) \in BOOLEAN
      BY <2>1
    <3>2. use'[c] \in Uses
      BY <1>1, <2>2, <3>1 DEF Uses
    <3>3. \A d \in NodeCalls \ {c} : use'[d] = use[d]
      BY <1>5 DEF BeginMcp, NodeInv, NodeTypeOK
    <3>4. DOMAIN use' = NodeCalls /\ use' = [d \in NodeCalls |-> use'[d]]
      BY <1>5 DEF BeginMcp, NodeInv, NodeTypeOK
    <3> QED BY <1>5, <3>2, <3>3, <3>4 DEF BeginMcp, OneCall, NodeInv, NodeTypeOK, kept, outside
  <2>4. CallInv(c)'
    <3>1. ServersBefore(1) = {}
      BY DEF ServersBefore
    <3>2. /\ use'[c].tool = tool /\ use'[c].at = at /\ use'[c].out = {}
          /\ use'[c].pc = IF at > Len(McpServers) THEN "answered" ELSE "connecting"
      BY <1>1, <2>1, <2>2 DEF CallInv, Uses
    <3>3. tool = "list" /\ at > Len(McpServers) => ServersBefore(Len(McpServers) + 1) = {}
      BY <1>5, <2>1 DEF ServersBefore
    <3>4. /\ process' = process /\ browser' = browser /\ client' = client
          /\ runningServers' = runningServers
      BY <1>5 DEF BeginMcp, kept, outside
    <3>5. process[c] = "up" => c \in runningServers
      BY <1>1, <2>1 DEF CallInv
    <3>6. c \notin browser /\ c \notin client
      BY <1>1, <2>1 DEF CallInv
    <3>7. CASE at > Len(McpServers)
      BY <3>2, <3>3, <3>4, <3>5, <3>6, <3>7 DEF CallInv
    <3>8. CASE ~(at > Len(McpServers))
      <4>1. at \in 1..Len(McpServers) /\ (tool = "list" => ServersBefore(at) = {})
        BY <1>5, <2>1, <3>1, <3>8
      <4> QED BY <3>2, <3>4, <3>5, <3>6, <3>8, <4>1 DEF CallInv
    <3> QED BY <3>7, <3>8
  <2> QED BY <2>3, <2>4, OthersKept
<1> QED BY <1>2, <1>3, <1>4, <1>5

\* A call whose process or browser is not touched by the others, before its own step.
LEMMA ServerStepsKeep ==
  ASSUME NodeInv, NEW c \in NodeCalls
  PROVE  /\ \A port \in Ports : Listens(c, port) \/ PortDetected(c, port) => NodeInv'
         /\ ProcessEnds(c) \/ StopDemo(c) => NodeInv'
         /\ DemoSettled(c) \/ PortReady(c) \/ NotReady(c) => NodeInv'
<1>1. use[c] \in Uses /\ CallInv(c) /\ DefaultPort \in Ports
  BY NodeToolsAssumption DEF NodeInv, NodeTypeOK
<1>2. ASSUME NEW port \in Ports, Listens(c, port) PROVE NodeInv'
  BY <1>2 DEF Listens, kept, NodeInv, NodeTypeOK, CallInv
<1>3. ASSUME NEW port \in Ports, PortDetected(c, port) PROVE NodeInv'
  <2>1. use'[c] = [use[c] EXCEPT !.port = port]
    BY <1>3 DEF PortDetected, NodeInv, NodeTypeOK
  <2>2. use' \in [NodeCalls -> Uses] /\ OneCall(c)
    BY <1>1, <1>3 DEF PortDetected, OneCall, NodeInv, NodeTypeOK, kept, outside, Uses
  <2>3. CallInv(c)'
    BY <1>1, <1>3, <2>1 DEF PortDetected, CallInv, kept, outside, Uses
  <2> QED BY <2>2, <2>3, OthersKept
<1>4. ASSUME ProcessEnds(c) PROVE NodeInv'
  <2>1. use' \in [NodeCalls -> Uses] /\ OneCall(c)
    BY <1>4 DEF ProcessEnds, OneCall, NodeInv, NodeTypeOK, kept
  <2>2. CallInv(c)'
    BY <1>1, <1>4 DEF ProcessEnds, CallInv, kept, NodeInv, NodeTypeOK
  <2> QED BY <2>1, <2>2, OthersKept
<1>5. ASSUME StopDemo(c) PROVE NodeInv'
  <2>1. DOMAIN process' = NodeCalls /\ process'[c] # "up"
        /\ \A d \in NodeCalls \ {c} : process'[d] = process[d]
    BY <1>5, KillEffect DEF StopDemo
  <2>2. use' \in [NodeCalls -> Uses] /\ OneCall(c)
    BY <1>5, <2>1 DEF StopDemo, OneCall, NodeInv, NodeTypeOK
  <2>3. CallInv(c)'
    BY <1>1, <1>5, <2>1 DEF StopDemo, CallInv
  <2> QED BY <2>2, <2>3, OthersKept
<1>6. ASSUME NEW port \in Ports \union {0}, Remember(c, port), use[c].pc \in {"settling", "waiting"}
      PROVE  NodeInv'
  <2>1. \/ /\ use[c].tool = "start"
           /\ use'[c] = [use[c] EXCEPT !.pc = "answered", !.ok = TRUE, !.port = port]
        \/ use[c].tool = "shot" /\ use'[c] = [use[c] EXCEPT !.pc = "launching", !.port = port]
    BY <1>6 DEF Remember, NodeInv, NodeTypeOK
  <2>2. use' \in [NodeCalls -> Uses] /\ OneCall(c)
    BY <1>1, <1>6 DEF Remember, OneCall, NodeInv, NodeTypeOK, outside, Uses
  <2>3. CallInv(c)'
    BY <1>1, <1>6, <2>1 DEF Remember, CallInv, outside, Uses
  <2> QED BY <2>2, <2>3, OthersKept
<1>7. ASSUME DemoSettled(c) PROVE NodeInv'
  <2>1. CASE Remember(c, DefaultPort)
    BY <1>1, <1>6, <1>7, <2>1 DEF DemoSettled, CallAt
  <2>2. CASE Goes(c, "waiting") /\ UNCHANGED <<outside, kept>>
    <3>1. use'[c] = [use[c] EXCEPT !.pc = "waiting"] /\ use[c].pc = "settling"
      BY <1>7, <2>2 DEF DemoSettled, CallAt, Goes, NodeInv, NodeTypeOK
    <3>2. use' \in [NodeCalls -> Uses] /\ OneCall(c)
      BY <1>1, <2>2 DEF Goes, OneCall, NodeInv, NodeTypeOK, kept, outside, Uses
    <3>3. CallInv(c)'
      BY <1>1, <2>2, <3>1 DEF CallInv, kept, outside, Uses
    <3> QED BY <3>2, <3>3, OthersKept
  <2> QED BY <1>7, <2>1, <2>2 DEF DemoSettled
<1>8. ASSUME PortReady(c) PROVE NodeInv'
  BY <1>1, <1>6, <1>8 DEF PortReady, CallAt, Uses
<1>9. ASSUME NotReady(c) PROVE NodeInv'
  <2>1. DOMAIN process' = NodeCalls /\ process'[c] # "up"
        /\ \A d \in NodeCalls \ {c} : process'[d] = process[d]
    BY <1>9, KillEffect DEF NotReady
  <2>2. use'[c] = [use[c] EXCEPT !.pc = "answered", !.ok = FALSE] /\ use[c].pc = "waiting"
    BY <1>9 DEF NotReady, Ends, CallAt, NodeInv, NodeTypeOK
  <2>3. use' \in [NodeCalls -> Uses] /\ OneCall(c)
    BY <1>1, <1>9, <2>1 DEF NotReady, Ends, OneCall, NodeInv, NodeTypeOK, kept, Uses
  <2>4. CallInv(c)'
    BY <1>1, <1>9, <2>1, <2>2 DEF NotReady, CallInv, kept, Uses
  <2> QED BY <2>3, <2>4, OthersKept
<1> QED BY <1>2, <1>3, <1>4, <1>5, <1>7, <1>8, <1>9

LEMMA PictureStepsKeep ==
  ASSUME NodeInv, NEW c \in NodeCalls
  PROVE  /\ NoBrowser(c) \/ Launched(c) \/ CloseBrowser(c) => NodeInv'
         /\ \A ok \in BOOLEAN : Shot(c, ok) => NodeInv'
         /\ CodeCloses(c) \/ CodeTimesOut(c) => NodeInv'
<1>1. use[c] \in Uses /\ CallInv(c)
  BY DEF NodeInv, NodeTypeOK
<1>2. ASSUME NoBrowser(c) PROVE NodeInv'
  <2>1. use'[c] = [use[c] EXCEPT !.pc = "answered", !.ok = FALSE] /\ use[c].pc = "launching"
    BY <1>2 DEF NoBrowser, Pictured, Ends, CallAt, NodeInv, NodeTypeOK
  <2>2. use' \in [NodeCalls -> Uses] /\ OneCall(c)
    BY <1>1, <1>2 DEF NoBrowser, Pictured, Ends, OneCall, NodeInv, NodeTypeOK, outside, Uses
  <2>3. CallInv(c)'
    BY <1>1, <1>2, <2>1 DEF NoBrowser, Pictured, CallInv, outside, Uses
  <2> QED BY <2>2, <2>3, OthersKept
<1>3. ASSUME Launched(c) PROVE NodeInv'
  <2>1. use'[c] = [use[c] EXCEPT !.pc = "shooting"] /\ use[c].pc = "launching"
    BY <1>3 DEF Launched, Goes, CallAt, NodeInv, NodeTypeOK
  <2>2. use' \in [NodeCalls -> Uses] /\ OneCall(c)
    BY <1>1, <1>3 DEF Launched, Goes, OneCall, NodeInv, NodeTypeOK, outside, Uses
  <2>3. CallInv(c)'
    BY <1>1, <1>3, <2>1 DEF Launched, CallInv, outside, Uses
  <2> QED BY <2>2, <2>3, OthersKept
<1>4. ASSUME CloseBrowser(c) PROVE NodeInv'
  <2>1. use'[c] = [use[c] EXCEPT !.pc = "answered", !.ok = use[c].ok] /\ use[c].pc = "closing"
    BY <1>4 DEF CloseBrowser, Pictured, Ends, CallAt, NodeInv, NodeTypeOK
  <2>2. use' \in [NodeCalls -> Uses] /\ OneCall(c)
    BY <1>1, <1>4 DEF CloseBrowser, Pictured, Ends, OneCall, NodeInv, NodeTypeOK, outside, Uses
  <2>3. CallInv(c)'
    BY <1>1, <1>4, <2>1 DEF CloseBrowser, CallInv, outside, Uses
  <2> QED BY <2>2, <2>3, OthersKept
<1>5. ASSUME NEW ok \in BOOLEAN, Shot(c, ok) PROVE NodeInv'
  <2>1. use'[c] = [use[c] EXCEPT !.pc = "closing", !.ok = ok] /\ use[c].pc = "shooting"
    BY <1>5 DEF Shot, CallAt, NodeInv, NodeTypeOK
  <2>2. use' \in [NodeCalls -> Uses] /\ OneCall(c)
    BY <1>1, <1>5 DEF Shot, OneCall, NodeInv, NodeTypeOK, outside, kept, Uses
  <2>3. CallInv(c)'
    <3>1. use'[c].pc = "closing" /\ use'[c].tool = use[c].tool
      BY <1>1, <2>1 DEF Uses
    <3> QED BY <1>1, <1>5, <2>1, <3>1 DEF Shot, CallInv, outside, kept
  <2> QED BY <2>2, <2>3, OthersKept
<1>6. ASSUME CodeCloses(c) PROVE NodeInv'
  <2>1. use'[c] = [use[c] EXCEPT !.pc = "answered", !.ok = TRUE] /\ use[c].pc = "running"
    BY <1>6 DEF CodeCloses, Ends, CallAt, NodeInv, NodeTypeOK
  <2>2. use' \in [NodeCalls -> Uses] /\ OneCall(c)
    BY <1>1, <1>6 DEF CodeCloses, Ends, OneCall, NodeInv, NodeTypeOK, outside, kept, Uses
  <2>3. CallInv(c)'
    BY <1>1, <1>6, <2>1 DEF CodeCloses, CallInv, outside, kept, Uses
  <2> QED BY <2>2, <2>3, OthersKept
<1>7. ASSUME CodeTimesOut(c) PROVE NodeInv'
  <2>1. DOMAIN process' = NodeCalls /\ process'[c] # "up"
        /\ \A d \in NodeCalls \ {c} : process'[d] = process[d]
    BY <1>7, KillEffect DEF CodeTimesOut
  <2>2. use'[c] = [use[c] EXCEPT !.pc = "answered", !.ok = FALSE] /\ use[c].pc = "running"
    BY <1>7 DEF CodeTimesOut, Ends, CallAt, NodeInv, NodeTypeOK
  <2>3. use' \in [NodeCalls -> Uses] /\ OneCall(c)
    BY <1>1, <1>7, <2>1 DEF CodeTimesOut, Ends, OneCall, NodeInv, NodeTypeOK, kept, Uses
  <2>4. CallInv(c)'
    BY <1>1, <1>7, <2>1, <2>2 DEF CodeTimesOut, CallInv, kept, Uses
  <2> QED BY <2>3, <2>4, OthersKept
<1> QED BY <1>2, <1>3, <1>4, <1>5, <1>6, <1>7

LEMMA McpStepsKeep ==
  ASSUME NodeInv, NEW c \in NodeCalls, NEW ok \in BOOLEAN
  PROVE  Connects(c, ok) \/ McpAnswers(c, ok) => NodeInv'
<1>1. use[c] \in Uses /\ CallInv(c) /\ Len(McpServers) \in Nat
      /\ \A i \in 1..Len(McpServers) : McpServers[i] \in STRING
  BY NodeToolsAssumption DEF NodeInv, NodeTypeOK
<1>2. ASSUME Connects(c, ok) PROVE NodeInv'
  <2>1. /\ use[c].pc = "connecting"
        /\ \/ use'[c] = [use[c] EXCEPT !.pc = "asking"]
           \/ use'[c] = [use[c] EXCEPT !.pc = "answered", !.ok = FALSE] /\ client' = client
    BY <1>2 DEF Connects, Goes, Ends, CallAt, NodeInv, NodeTypeOK
  <2>2. use' \in [NodeCalls -> Uses] /\ OneCall(c)
    BY <1>1, <1>2 DEF Connects, Goes, Ends, OneCall, NodeInv, NodeTypeOK, outside, Uses
  <2>3. CallInv(c)'
    BY <1>1, <1>2, <2>1 DEF Connects, CallInv, outside, Uses
  <2> QED BY <2>2, <2>3, OthersKept
<1>3. ASSUME McpAnswers(c, ok) PROVE NodeInv'
  <2> DEFINE at == use[c].at
             got == use[c].out \union {McpServers[at]}
  <2>1. use[c].pc = "asking" /\ at \in Nat
    BY <1>1, <1>3 DEF McpAnswers, CallAt, Uses
  <2>2. /\ at \in 1..Len(McpServers) /\ got \subseteq STRING /\ at + 1 \in Nat
        /\ use[c].tool = "list" => got = ServersBefore(at + 1)
    BY <1>1, <2>1 DEF CallInv, ServersBefore, Uses
  <2>3. /\ DOMAIN use' = NodeCalls /\ DOMAIN process' = NodeCalls /\ process' = process
        /\ \A d \in NodeCalls \ {c} : use'[d] = use[d]
        /\ runningServers' = runningServers /\ browser' = browser
        /\ client' = client \ {c}
    BY <1>3 DEF McpAnswers, Ends, NodeInv, NodeTypeOK, outside
  <2>4. \/ use'[c] = [use[c] EXCEPT !.pc = "answered", !.ok = FALSE]
        \/ /\ use[c].tool = "list" /\ at < Len(McpServers)
           /\ use'[c] = [use[c] EXCEPT !.pc = "connecting", !.at = at + 1, !.out = got]
        \/ /\ ~(use[c].tool = "list" /\ at < Len(McpServers))
           /\ use'[c] = [use[c] EXCEPT !.pc = "answered", !.ok = TRUE, !.out = got]
    BY <1>3 DEF McpAnswers, Ends, NodeInv, NodeTypeOK
  <2> PICK n \in Nat : n = at + 1
    BY <2>2
  <2> PICK out \in SUBSET STRING : out = got
    BY <2>2
  <2>5. use'[c] \in Uses
    <3>1. \/ use'[c] = [use[c] EXCEPT !.pc = "answered", !.ok = FALSE]
          \/ use'[c] = [use[c] EXCEPT !.pc = "connecting", !.at = n, !.out = out]
          \/ use'[c] = [use[c] EXCEPT !.pc = "answered", !.ok = TRUE, !.out = out]
      BY <2>4
    <3> QED BY <1>1, <3>1 DEF Uses
  <2>6. use' \in [NodeCalls -> Uses] /\ OneCall(c)
    <3>1. use' = [d \in NodeCalls |-> use'[d]]
      BY <1>3, <2>3 DEF McpAnswers, Ends, NodeInv, NodeTypeOK
    <3> QED BY <2>3, <2>5, <3>1 DEF OneCall, NodeInv, NodeTypeOK
  <2>7. CallInv(c)'
    <3>1. /\ process[c] = "up" => c \in runningServers
          /\ c \notin browser /\ c \notin client'
      BY <1>1, <2>1, <2>3 DEF CallInv
    <3>2. CASE use'[c] = [use[c] EXCEPT !.pc = "answered", !.ok = FALSE]
      BY <1>1, <2>3, <3>1, <3>2 DEF CallInv, Uses
    <3>3. CASE /\ use[c].tool = "list" /\ at < Len(McpServers)
               /\ use'[c] = [use[c] EXCEPT !.pc = "connecting", !.at = n, !.out = out]
      <4>1. n \in 1..Len(McpServers) /\ out = ServersBefore(n)
        BY <1>1, <2>1, <2>2, <3>3
      <4>2. /\ use'[c].tool = "list" /\ use'[c].pc = "connecting" /\ use'[c].at = n
            /\ use'[c].out = out
        BY <1>1, <3>3 DEF Uses
      <4> QED BY <2>3, <3>1, <4>1, <4>2 DEF CallInv
    <3>4. CASE /\ ~(use[c].tool = "list" /\ at < Len(McpServers))
               /\ use'[c] = [use[c] EXCEPT !.pc = "answered", !.ok = TRUE, !.out = out]
      <4>1. use[c].tool = "list" => out = ServersBefore(Len(McpServers) + 1)
        <5>1. ASSUME use[c].tool = "list" PROVE at = Len(McpServers)
          BY <1>1, <2>1, <2>2, <3>4, <5>1
        <5> QED BY <2>2, <5>1
      <4>2. use'[c].tool = use[c].tool /\ use'[c].pc = "answered" /\ use'[c].out = out
        BY <1>1, <3>4 DEF Uses
      <4> QED BY <2>3, <3>1, <4>1, <4>2 DEF CallInv
    <3> QED BY <2>4, <3>2, <3>3, <3>4
  <2> QED BY <2>6, <2>7, OthersKept
<1> QED BY <1>2, <1>3

LEMMA NodeInvKept ==
  ASSUME NodeInv, [NodeToolsNext]_nodeToolVars
  PROVE  NodeInv'
<1>1. CASE UNCHANGED nodeToolVars
  BY <1>1 DEF nodeToolVars, outside, kept, NodeInv, NodeTypeOK, CallInv
<1>2. CASE NodeToolsNext
  <2> PICK c \in NodeCalls :
        \/ \E tool \in {"start", "shot"}, port \in Ports \union {0} : BeginDemo(c, tool, port)
        \/ \E port \in Ports : Listens(c, port) \/ PortDetected(c, port)
        \/ ProcessEnds(c) \/ StopDemo(c)
        \/ BeginPicture(c) \/ RunCode(c)
        \/ BeginMcp(c, "list", 1) \/ \E at \in 1..Len(McpServers) : BeginMcp(c, "call", at)
        \/ CallSteps(c)
    BY <1>2 DEF NodeToolsNext
  <2>1. CASE \E tool \in {"start", "shot"}, port \in Ports \union {0} : BeginDemo(c, tool, port)
    BY <2>1, BeginningKeeps
  <2>2. CASE \E port \in Ports : Listens(c, port) \/ PortDetected(c, port)
    BY <2>2, ServerStepsKeep
  <2>3. CASE ProcessEnds(c) \/ StopDemo(c)
    BY <2>3, ServerStepsKeep
  <2>4. CASE BeginPicture(c) \/ RunCode(c)
    BY <2>4, BeginningKeeps
  <2>5. CASE BeginMcp(c, "list", 1)
    BY <2>5, BeginningKeeps
  <2>6. CASE \E at \in 1..Len(McpServers) : BeginMcp(c, "call", at)
    <3> PICK at \in 1..Len(McpServers) : BeginMcp(c, "call", at)
      BY <2>6
    <3>1. at \in Nat \ {0}
      BY NodeToolsAssumption
    <3> QED BY <3>1, BeginningKeeps
  <2>7. CASE CallSteps(c)
    BY <2>7, ServerStepsKeep, PictureStepsKeep, McpStepsKeep DEF CallSteps
  <2> QED BY <2>1, <2>2, <2>3, <2>4, <2>5, <2>6, <2>7
<1> QED BY <1>1, <1>2

LEMMA NodeToolsHold == NodeInv => NodeToolsAreSound
<1> SUFFICES ASSUME NodeInv, NEW c \in NodeCalls, CallAt(c, "answered")
             PROVE  /\ process[c] = "up" => c \in runningServers
                    /\ c \notin browser \union client
                    /\ use[c].tool = "list" /\ use[c].ok =>
                         use[c].out = {McpServers[i] : i \in DOMAIN McpServers}
  BY DEF NodeToolsAreSound, NoProcessIsLost, NothingStaysOpen
<1>1. ServersBefore(Len(McpServers) + 1) = {McpServers[i] : i \in DOMAIN McpServers}
  BY NodeToolsAssumption DEF ServersBefore
<1> QED BY <1>1 DEF NodeInv, CallInv, CallAt

-----------------------------------------------------------------------------
(* Batches of one tool *)

LEMMA BatchSteps ==
  ASSUME [Next]_agentVars
  PROVE  [BatchNext]_batchVars
<1>1. CASE UNCHANGED agentVars
  BY <1>1 DEF agentVars
<1>2. CASE Next
  BY <1>2 DEF Next
<1> QED BY <1>1, <1>2

\* The timers of a tool's calls are shorter than the timer of their batch, as the defaults are.
ShortTimers == \A t \in CallTimeouts : t < BatchTimeout

Results == {"ok", "error", "timeout"}
Messages == [call : Calls, outcome : Results \union {"denied", "invalid"}]

BatchTypeOK ==
    /\ batch \in [pc : {"off", "asking", "running", "telling", "hook", "dropped", "ended"},
                  parallel : BOOLEAN, timeout : Nat, at : Nat]
    /\ executor \in [Calls -> {"waiting", "running", "invalid", "ok", "error"}]
    /\ promise \in [Calls -> Results \union {"none"}]
    /\ began \in [Calls -> Nat]
    /\ report \in Seq(Messages) /\ told \in Seq(Messages) /\ clock \in Nat

\* A list of messages is about the calls of a set, each once.
About(list, S) ==
    /\ \A c \in S : \E k \in DOMAIN list : list[k].call = c
    /\ \A k \in DOMAIN list : list[k].call \in S
    /\ \A j, k \in DOMAIN list : j < k => list[j].call # list[k].call

\* After a result only results of later calls follow.
Ascends(list) ==
    \A j, k \in DOMAIN list : j < k /\ list[j].outcome \in Results => list[j].call < list[k].call

Refused(list) == \A k \in DOMAIN list : list[k].outcome \in {"denied", "invalid"}

\* What a list says of calls with a timer is what their promises resolved with.
Truth(list, timeout, resolved) ==
    \A k \in DOMAIN list : timeout > 0 /\ list[k].outcome \in Results
                             => list[k].outcome = resolved[list[k].call]

\* Calls that never became entries have been told so; from then on the messages that are told and
\* those that are not are about all calls.  Of a batch whose calls have a timer no call runs past
\* it, and the batch's own timer never fires.
BatchInv ==
    /\ BatchTypeOK
    /\ batch.pc \in {"off", "asking"} => told = <<>> /\ batch.timeout < BatchTimeout
    /\ batch.pc \in {"off", "asking", "running", "ended"} => report = <<>>
    /\ batch.pc = "running" => About(told, Calls \ Entries) /\ Refused(told)
    /\ batch.pc \in {"telling", "hook", "dropped", "ended"} =>
         /\ About(told \o report, Calls) /\ Ascends(told \o report)
         /\ Truth(told \o report, batch.timeout, promise)
    /\ batch.pc \in {"hook", "dropped"} => Len(told) > 0 /\ told[Len(told)].outcome \in Results
    /\ \A k \in DOMAIN report : report[k].outcome \in Results
    /\ batch.pc = "running" /\ batch.parallel /\ batch.timeout > 0 =>
         /\ \A c \in Calls : began[c] = batch.at
         /\ clock <= batch.at + batch.timeout /\ batch.timeout < BatchTimeout

\* Lists of messages, one after the other.
LEMMA Joined ==
  ASSUME NEW s \in Seq(Messages), NEW t \in Seq(Messages)
  PROVE  /\ s \o t \in Seq(Messages) /\ Len(s \o t) = Len(s) + Len(t)
         /\ \A k \in DOMAIN s : k \in DOMAIN (s \o t) /\ (s \o t)[k] = s[k]
         /\ \A k \in DOMAIN t : Len(s) + k \in DOMAIN (s \o t) /\ (s \o t)[Len(s) + k] = t[k]
         /\ \A k \in DOMAIN (s \o t) :
              \/ k \in DOMAIN s
              \/ k - Len(s) \in DOMAIN t /\ (s \o t)[k] = t[k - Len(s)] /\ k > Len(s)
<1> PICK R : R = Messages
  OBVIOUS
<1> DEFINE q == s \o t
<1>1. s \in Seq(R) /\ t \in Seq(R)
  OBVIOUS
<1>2. /\ q \in Seq(R) /\ Len(q) = Len(s) + Len(t) /\ Len(s) \in Nat /\ Len(t) \in Nat
      /\ \A i \in 1..Len(s) : q[i] = s[i]
      /\ \A i \in 1..Len(t) : q[Len(s) + i] = t[i]
      /\ DOMAIN s = 1..Len(s) /\ DOMAIN t = 1..Len(t) /\ DOMAIN q = 1..Len(q)
  BY <1>1
<1> HIDE DEF q
<1>3. \A k \in DOMAIN t : Len(s) + k \in DOMAIN q /\ q[Len(s) + k] = t[k]
  BY <1>2
<1>4. \A k \in DOMAIN q : k \notin DOMAIN s =>
        k - Len(s) \in DOMAIN t /\ Len(s) + (k - Len(s)) = k /\ k > Len(s)
  BY <1>2
<1>5. \A k \in DOMAIN s : k \in DOMAIN q
  BY <1>2
<1>6. \A k \in DOMAIN q : k \notin DOMAIN s => q[k] = t[k - Len(s)]
  BY <1>3, <1>4
<1> QED BY <1>2, <1>3, <1>4, <1>5, <1>6 DEF q

LEMMA CallsAreNumbers == \A c \in Calls : c \in Nat
  BY BatchAssumption DEF Calls

\* A report of some calls with an outcome for each.
LEMMA Reported ==
  ASSUME NEW S \in SUBSET Calls, NEW outcome \in [Calls -> Results \union {"denied", "invalid"}]
  PROVE  LET list == [k \in 1..Cardinality(S) |->
                        [call |-> InOrder(S)[k], outcome |-> outcome[InOrder(S)[k]]]]
         IN  /\ list \in Seq(Messages) /\ About(list, S)
             /\ \A j, k \in DOMAIN list : j < k => list[j].call < list[k].call
             /\ \A k \in DOMAIN list : list[k].outcome = outcome[list[k].call]
<1> PICK q : q = InOrder(S)
  OBVIOUS
<1> PICK n : n = Cardinality(S)
  OBVIOUS
<1>1. /\ n \in Nat /\ q \in [1..n -> S] /\ Increasing(q)
      /\ \A c \in S : \E k \in 1..n : q[k] = c
  BY InOrderNamesAll, BatchAssumption DEF Calls
<1> DEFINE list == [k \in 1..n |-> [call |-> q[k], outcome |-> outcome[q[k]]]]
<1>2. list \in Seq(Messages) /\ DOMAIN list = 1..n
  <2>1. list \in [1..n -> Messages]
    BY <1>1 DEF Messages
  <2> HIDE DEF list
  <2> QED BY <1>1, <2>1, IsSeqOf
<1>3. \A k \in 1..n : list[k].call = q[k] /\ list[k].outcome = outcome[q[k]]
  OBVIOUS
<1>4. \A j, k \in 1..n : j < k => q[j] < q[k]
  BY <1>1 DEF Increasing
<1> HIDE DEF list
<1>5. \A j, k \in DOMAIN list : j < k => list[j].call < list[k].call
  BY <1>2, <1>3, <1>4
<1>6. \A k \in DOMAIN list : list[k].call \in S /\ list[k].call \in Nat
  BY <1>1, <1>2, <1>3, CallsAreNumbers
<1>7. About(list, S)
  <2>1. \A j, k \in DOMAIN list : j < k => list[j].call # list[k].call
    BY <1>5, <1>6
  <2>2. \A c \in S : \E k \in DOMAIN list : list[k].call = c
    BY <1>1, <1>2, <1>3
  <2> QED BY <1>6, <2>1, <2>2 DEF About
<1>8. \A k \in DOMAIN list : list[k].outcome = outcome[list[k].call]
  BY <1>2, <1>3
<1> QED BY <1>2, <1>5, <1>7, <1>8 DEF list

LEMMA ReportOfAll ==
  ASSUME NEW S \in SUBSET Calls, NEW outcome \in Results \union {"denied", "invalid"}
  PROVE  LET list == Report(InOrder(S), outcome)
         IN  /\ list \in Seq(Messages) /\ About(list, S)
             /\ \A j, k \in DOMAIN list : j < k => list[j].call < list[k].call
             /\ \A k \in DOMAIN list : list[k].outcome = outcome
<1> PICK q : q = InOrder(S)
  OBVIOUS
<1>1. q \in [1..Cardinality(S) -> S] /\ Cardinality(S) \in Nat
  BY InOrderNamesAll, BatchAssumption DEF Calls
<1>2. Len(q) = Cardinality(S)
  BY <1>1
<1> DEFINE all == [c \in Calls |-> outcome]
<1>3. all \in [Calls -> Results \union {"denied", "invalid"}]
  OBVIOUS
<1> DEFINE list == [k \in 1..Cardinality(S) |->
                      [call |-> InOrder(S)[k], outcome |-> all[InOrder(S)[k]]]]
<1>4. \A k \in 1..Cardinality(S) : InOrder(S)[k] \in Calls
  BY <1>1
<1>5. Report(InOrder(S), outcome) = list
  BY <1>2, <1>4 DEF Report
<1>6. /\ list \in Seq(Messages) /\ About(list, S)
      /\ \A j, k \in DOMAIN list : j < k => list[j].call < list[k].call
      /\ \A k \in DOMAIN list : list[k].outcome = all[list[k].call]
  BY <1>3, Reported
<1> HIDE DEF list
<1>7. \A k \in DOMAIN list : list[k].outcome = outcome
  BY <1>6 DEF About
<1> QED BY <1>5, <1>6, <1>7

LEMMA BatchInitially ==
  ASSUME BatchInit
  PROVE  BatchInv
<1>1. BatchTypeOK
  BY DEF BatchInit, BatchTypeOK, Results
<1> QED BY <1>1, BatchAssumption DEF BatchInit, BatchInv

\* A batch that ends with refusals only.
LEMMA RefusedAll ==
  ASSUME NEW list \in Seq(Messages), About(list, Calls), Refused(list), told' = list,
         report' = <<>>, batch'.pc = "ended", BatchTypeOK'
  PROVE  BatchInv'
<1> DEFINE q == told' \o report'
<1>1. q = list
  BY ConcatEmptySeq
<1>2. \A k \in DOMAIN list : list[k].outcome \notin Results
  BY DEF Refused, Results
<1> HIDE DEF q
<1>3. About(q, Calls) /\ Ascends(q) /\ Truth(q, batch'.timeout, promise')
  BY <1>1, <1>2 DEF Ascends, Truth
<1> QED BY <1>3 DEF BatchInv, q

LEMMA DenyKeeps ==
  ASSUME BatchInv, batch.pc \in {"off", "asking"}, Deny, UNCHANGED clock
  PROVE  BatchInv'
<1> DEFINE list == Report(InOrder(Calls), "denied")
<1>1. /\ list \in Seq(Messages) /\ About(list, Calls)
      /\ \A k \in DOMAIN list : list[k].outcome = "denied"
  BY ReportOfAll
<1>2. told' = list
  <2>1. told' = <<>> \o list
    BY DEF Deny, BatchInv
  <2> QED BY <1>1, <2>1, ConcatEmptySeq
<1> HIDE DEF list
<1>3. BatchTypeOK'
  BY <1>1, <1>2 DEF Deny, BatchInv, BatchTypeOK
<1>4. batch'.pc = "ended" /\ report' = <<>>
  BY DEF Deny, BatchInv, BatchTypeOK
<1> QED BY <1>1, <1>2, <1>3, <1>4, RefusedAll DEF Refused

LEMMA LaunchKeeps ==
  ASSUME BatchInv, batch.pc \in {"off", "asking"}, UNCHANGED clock,
         NEW b, b.timeout < BatchTimeout,
         b \in [pc : {"off", "asking"}, parallel : BOOLEAN, timeout : Nat, at : Nat], Launch(b)
  PROVE  BatchInv'
<1> PICK bad \in SUBSET Calls :
      LET good == Calls \ bad
          moment == IF b.parallel THEN good
                 ELSE {c \in good : \A d \in good : c <= d}
      IN /\ told' = told \o Report(InOrder(bad), "invalid")
         /\ executor' = [c \in Calls |-> IF c \in bad THEN "invalid"
                                         ELSE IF c \in moment THEN "running" ELSE "waiting"]
         /\ began' = [c \in Calls |-> clock]
         /\ batch' = [b EXCEPT !.pc = IF good = {} THEN "ended" ELSE "running", !.at = clock]
         /\ UNCHANGED <<promise, report>>
  BY DEF Launch
<1> DEFINE list == Report(InOrder(bad), "invalid")
<1>1. /\ list \in Seq(Messages) /\ About(list, bad)
      /\ \A k \in DOMAIN list : list[k].outcome = "invalid"
  BY ReportOfAll
<1>2. told' = list
  <2>1. told' = <<>> \o list
    BY DEF BatchInv
  <2> QED BY <1>1, <2>1, ConcatEmptySeq
<1> HIDE DEF list
<1>3. bad = Calls \ Entries'
  BY DEF Entries
<1>4. /\ batch' \in [pc : {"ended", "running"}, parallel : BOOLEAN, timeout : Nat, at : Nat]
      /\ batch'.timeout = b.timeout /\ batch'.at = clock
      /\ batch'.pc = "ended" => bad = Calls
  BY DEF BatchInv, BatchTypeOK
<1>5. BatchTypeOK'
  <2>1. executor' \in [Calls -> {"waiting", "running", "invalid", "ok", "error"}]
        /\ began' \in [Calls -> Nat]
    BY DEF BatchInv, BatchTypeOK
  <2> QED BY <1>1, <1>2, <1>4, <2>1 DEF BatchInv, BatchTypeOK
<1>6. report' = <<>> /\ Refused(list)
  BY <1>1 DEF BatchInv, Refused
<1>7. CASE batch'.pc = "ended"
  BY <1>1, <1>2, <1>4, <1>5, <1>6, <1>7, RefusedAll
<1>8. CASE batch'.pc = "running"
  <2>1. About(told', Calls \ Entries') /\ Refused(told')
    BY <1>1, <1>2, <1>3, <1>6
  <2>2. batch'.timeout > 0 => clock' <= batch'.at + batch'.timeout
    BY <1>4 DEF BatchInv, BatchTypeOK
  <2>3. \A c \in Calls : began'[c] = batch'.at
    BY <1>4
  <2> QED BY <1>4, <1>5, <1>6, <1>8, <2>1, <2>2, <2>3 DEF BatchInv
<1> QED BY <1>4, <1>7, <1>8

\* What the promises resolve with later takes nothing back.
LEMMA StaysTrue ==
  ASSUME NEW list, NEW t, NEW old, NEW new, Truth(list, t, old),
         \A k \in DOMAIN list : list[k].call \in Calls,
         \A d \in Calls : old[d] \in Results => new[d] = old[d]
  PROVE  Truth(list, t, new)
  BY DEF Truth

LEMMA PromisesKeep ==
  ASSUME BatchInv, BatchTypeOK', UNCHANGED <<batch, began, report, told, clock>>, Entries' = Entries,
         \A d \in Calls : promise[d] \in Results => promise'[d] = promise[d]
  PROVE  BatchInv'
<1>1. CASE batch.pc \in {"telling", "hook", "dropped", "ended"}
  <2> PICK q : q = told \o report
    OBVIOUS
  <2>1. /\ About(q, Calls) /\ Ascends(q) /\ Truth(q, batch.timeout, promise)
        /\ told' \o report' = q
    BY <1>1 DEF BatchInv
  <2>2. Truth(q, batch.timeout, promise')
    BY <2>1, StaysTrue DEF About
  <2> QED BY <1>1, <2>1, <2>2 DEF BatchInv
<1>2. CASE batch.pc \in {"off", "asking", "running"}
  BY <1>2 DEF BatchInv, Refused, About
<1> QED BY <1>1, <1>2 DEF BatchInv, BatchTypeOK

LEMMA ExecutorEndsKeeps ==
  ASSUME BatchInv, NEW c \in Calls, ExecutorEnds(c)
  PROVE  BatchInv'
<1>1. BatchTypeOK'
  BY DEF ExecutorEnds, BatchInv, BatchTypeOK, Results
<1>2. Entries' = Entries
  BY DEF ExecutorEnds, Entries, BatchInv, BatchTypeOK
<1>3. \A d \in Calls : promise[d] \in Results => promise'[d] = promise[d]
  BY DEF ExecutorEnds, BatchInv, BatchTypeOK, Results
<1> QED BY <1>1, <1>2, <1>3, PromisesKeep DEF ExecutorEnds

LEMMA CallTimerKeeps ==
  ASSUME BatchInv, NEW c \in Calls, CallTimer(c)
  PROVE  BatchInv'
<1>1. BatchTypeOK'
  BY DEF CallTimer, BatchInv, BatchTypeOK, Results
<1>2. Entries' = Entries
  BY DEF CallTimer, Entries
<1>3. \A d \in Calls : promise[d] \in Results => promise'[d] = promise[d]
  BY DEF CallTimer, Open, BatchInv, BatchTypeOK, Results
<1> QED BY <1>1, <1>2, <1>3, PromisesKeep DEF CallTimer

LEMMA NextCallKeeps ==
  ASSUME BatchInv, NextCall
  PROVE  BatchInv'
<1>1. BatchTypeOK'
  BY DEF NextCall, BatchInv, BatchTypeOK, Entries
<1>2. Entries' = Entries
  BY DEF NextCall, Entries, BatchInv, BatchTypeOK
<1> QED BY <1>1, <1>2 DEF NextCall, BatchInv, About, Refused

LEMMA TickKeeps ==
  ASSUME BatchInv, Tick
  PROVE  BatchInv'
<1>1. BatchTypeOK'
  BY DEF Tick, BatchInv, BatchTypeOK
<1>2. Entries' = Entries
  BY DEF Tick, Entries
<1>3. batch.parallel /\ batch.timeout > 0 => clock' <= batch.at + batch.timeout
  BY DEF Tick, Open, Entries, Due, BatchInv, BatchTypeOK
<1> QED BY <1>1, <1>2, <1>3 DEF Tick, BatchInv, About, Refused

\* Results of the entries that follow the refusals of the calls that never were.
LEMMA Accounted ==
  ASSUME NEW S \in SUBSET Calls, NEW s \in Seq(Messages), NEW t \in Seq(Messages),
         About(s, Calls \ S), Refused(s), About(t, S),
         \A j, k \in DOMAIN t : j < k => t[j].call < t[k].call
  PROVE  About(s \o t, Calls) /\ Ascends(s \o t)
<1> DEFINE q == s \o t
<1>1. \A k \in DOMAIN s : k \in DOMAIN q /\ q[k] = s[k] /\ k \in 1..Len(s)
  BY Joined
<1>2. \A k \in DOMAIN t : Len(s) + k \in DOMAIN q /\ q[Len(s) + k] = t[k]
  BY Joined
<1>3. \A k \in DOMAIN q : \/ k \in DOMAIN s
                          \/ k - Len(s) \in DOMAIN t /\ q[k] = t[k - Len(s)] /\ k > Len(s)
  BY Joined
<1>4. q \in Seq(Messages) /\ Len(s) \in Nat
  BY Joined
<1> HIDE DEF q
<1>5. \A k \in DOMAIN q : k \in Nat
  BY <1>4
<1>6. ASSUME NEW c \in Calls PROVE \E k \in DOMAIN q : q[k].call = c
  <2>1. CASE c \in S
    <3> PICK k \in DOMAIN t : t[k].call = c
      BY <2>1 DEF About
    <3> QED BY <1>2
  <2>2. CASE c \notin S
    <3> PICK k \in DOMAIN s : s[k].call = c
      BY <2>2 DEF About
    <3> QED BY <1>1
  <2> QED BY <2>1, <2>2
<1>7. \A k \in DOMAIN q : k \in DOMAIN s => q[k].call \in Calls \ S /\ q[k].outcome \notin Results
  BY <1>1 DEF About, Refused, Results
<1>8. \A k \in DOMAIN q : k \notin DOMAIN s => q[k].call \in S
  BY <1>3 DEF About
<1>9. ASSUME NEW j \in DOMAIN q, NEW k \in DOMAIN q, j < k
      PROVE  /\ q[j].call # q[k].call
             /\ q[j].outcome \in Results => q[j].call < q[k].call
  <2>1. CASE j \in DOMAIN s /\ k \in DOMAIN s
    BY <1>1, <1>7, <1>9, <2>1 DEF About
  <2>2. CASE j \in DOMAIN s /\ k \notin DOMAIN s
    BY <1>7, <1>8, <2>2
  <2>3. CASE j \notin DOMAIN s
    <3>1. k \notin DOMAIN s
      BY <1>1, <1>3, <1>4, <1>5, <1>9, <2>3
    <3>2. j - Len(s) \in DOMAIN t /\ k - Len(s) \in DOMAIN t /\ j - Len(s) < k - Len(s)
      BY <1>3, <1>4, <1>5, <1>9, <2>3, <3>1
    <3>3. t[j - Len(s)].call < t[k - Len(s)].call
      BY <3>2
    <3>4. q[j].call < q[k].call
      BY <1>3, <2>3, <3>1, <3>3
    <3>5. q[j].call \in Nat /\ q[k].call \in Nat
      BY <1>8, <2>3, <3>1, CallsAreNumbers
    <3> QED BY <3>4, <3>5
  <2> QED BY <2>1, <2>2, <2>3
<1>10. \A k \in DOMAIN q : q[k].call \in Calls
  BY <1>7, <1>8
<1> QED BY <1>6, <1>9, <1>10 DEF About, Ascends, q

LEMMA EntriesReported ==
  ASSUME BatchInv, batch.pc = "running", batch' = [batch EXCEPT !.pc = "telling"],
         NEW list \in Seq(Messages), About(list, Entries), report' = list,
         UNCHANGED <<executor, promise, began, told, clock>>,
         \A j, k \in DOMAIN list : j < k => list[j].call < list[k].call,
         \A k \in DOMAIN list : /\ list[k].outcome \in Results
                                /\ batch.timeout > 0 => list[k].outcome = promise[list[k].call]
  PROVE  BatchInv'
<1>1. Entries \in SUBSET Calls
  BY DEF Entries
<1> PICK s \in Seq(Messages) : s = told
  BY DEF BatchInv, BatchTypeOK
<1>2. About(s, Calls \ Entries) /\ Refused(s)
  BY DEF BatchInv
<1> DEFINE q == s \o list
<1>3. About(q, Calls) /\ Ascends(q)
  BY <1>1, <1>2, Accounted
<1>4. Truth(q, batch.timeout, promise)
  <2>1. \A k \in DOMAIN s : q[k] = s[k]
    BY Joined
  <2>2. \A k \in DOMAIN q : \/ k \in DOMAIN s
                            \/ k - Len(s) \in DOMAIN list /\ q[k] = list[k - Len(s)]
    BY Joined
  <2> HIDE DEF q
  <2>3. \A k \in DOMAIN s : s[k].outcome \notin Results
    BY <1>2 DEF Refused, Results
  <2> QED BY <2>1, <2>2, <2>3 DEF Truth
<1>5. BatchTypeOK'
  BY DEF BatchInv, BatchTypeOK
<1>6. batch'.pc = "telling" /\ batch'.timeout = batch.timeout /\ told' \o report' = q
  BY DEF BatchInv, BatchTypeOK
<1> HIDE DEF q
<1> QED BY <1>3, <1>4, <1>5, <1>6 DEF BatchInv

LEMMA BatchEndingsKeep ==
  ASSUME BatchInv, BatchResolves \/ BatchTimer
  PROVE  BatchInv'
<1>1. Entries \in SUBSET Calls
  BY DEF Entries
<1>2. CASE BatchResolves
  <2> DEFINE outcome == [c \in Calls |-> IF c \in Entries THEN promise[c] ELSE "invalid"]
             list == [k \in 1..Cardinality(Entries) |->
                        [call |-> InOrder(Entries)[k], outcome |-> outcome[InOrder(Entries)[k]]]]
  <2>1. /\ outcome \in [Calls -> Results \union {"denied", "invalid"}]
        /\ \A c \in Entries : promise[c] \in Results
    BY <1>1, <1>2 DEF BatchResolves, BatchInv, BatchTypeOK, Results
  <2>2. /\ list \in Seq(Messages) /\ About(list, Entries)
        /\ \A j, k \in DOMAIN list : j < k => list[j].call < list[k].call
        /\ \A k \in DOMAIN list : list[k].outcome = outcome[list[k].call]
    <3> HIDE DEF outcome
    <3> QED BY <1>1, <2>1, Reported
  <2>3. \A k \in 1..Cardinality(Entries) : InOrder(Entries)[k] \in Entries
    BY <1>1, InOrderNamesAll, BatchAssumption DEF Calls
  <2>4. report' = list
    BY <1>1, <1>2, <2>3 DEF BatchResolves
  <2>5. \A k \in DOMAIN list : list[k].outcome = promise[list[k].call]
                               /\ list[k].outcome \in Results
    <3> HIDE DEF list
    <3> QED BY <1>1, <2>1, <2>2 DEF About
  <2> HIDE DEF list
  <2> QED BY <1>2, <2>2, <2>4, <2>5, EntriesReported DEF BatchResolves
<1>3. CASE BatchTimer
  <2> DEFINE list == Report(InOrder(Entries), "timeout")
  <2>1. /\ list \in Seq(Messages) /\ About(list, Entries)
        /\ \A j, k \in DOMAIN list : j < k => list[j].call < list[k].call
        /\ \A k \in DOMAIN list : list[k].outcome = "timeout"
    BY <1>1, ReportOfAll DEF Results
  <2>2. ~(batch.timeout > 0)
    <3>1. /\ clock \in Nat /\ batch.at \in Nat /\ batch.timeout \in Nat
          /\ clock >= batch.at + BatchTimeout /\ BatchTimeout \in Nat
      BY <1>3, BatchAssumption DEF BatchTimer, BatchInv, BatchTypeOK
    <3>2. batch.timeout > 0 => clock <= batch.at + batch.timeout /\ batch.timeout < BatchTimeout
      BY <1>3 DEF BatchTimer, BatchInv
    <3> QED BY <3>1, <3>2
  <2> HIDE DEF list
  <2>3. report' = list
    BY <1>3 DEF BatchTimer, list
  <2> QED BY <1>3, <2>1, <2>2, <2>3, EntriesReported DEF BatchTimer, Results
<1> QED BY <1>2, <1>3

\* A message is told: the messages in all are the same.
LEMMA Retold ==
  ASSUME NEW R, NEW s \in Seq(R), NEW t \in Seq(R), t # <<>>
  PROVE  /\ Append(s, Head(t)) \in Seq(R) /\ Tail(t) \in Seq(R)
         /\ Append(s, Head(t)) \o Tail(t) = s \o t
         /\ Append(s, Head(t))[Len(Append(s, Head(t)))] = t[1] /\ Len(Append(s, Head(t))) > 0
         /\ \A k \in DOMAIN Tail(t) : \E j \in DOMAIN t : Tail(t)[k] = t[j]
         /\ 1 \in DOMAIN t
  OBVIOUS

LEMMA TellResultKeeps ==
  ASSUME BatchInv, TellResult
  PROVE  BatchInv'
<1> PICK s \in Seq(Messages), t \in Seq(Messages) : s = told /\ t = report
  BY DEF BatchInv, BatchTypeOK
<1>1. CASE t = <<>>
  <2>1. batch'.pc = "ended" /\ batch'.timeout = batch.timeout /\ UNCHANGED <<report, told>>
    BY <1>1 DEF TellResult, BatchInv, BatchTypeOK
  <2>2. BatchTypeOK'
    BY <1>1 DEF TellResult, BatchInv, BatchTypeOK
  <2> QED BY <1>1, <2>1, <2>2 DEF TellResult, BatchInv
<1>2. CASE t # <<>>
  <2> PICK u : u = Append(s, Head(t))
    OBVIOUS
  <2> PICK v : v = Tail(t)
    OBVIOUS
  <2>1. /\ u \in Seq(Messages) /\ v \in Seq(Messages) /\ u \o v = s \o t
        /\ u[Len(u)] = t[1] /\ Len(u) > 0 /\ 1 \in DOMAIN t
        /\ \A k \in DOMAIN v : \E j \in DOMAIN t : v[k] = t[j]
    BY <1>2, Retold
  <2>2. /\ batch'.pc = "hook" /\ batch'.timeout = batch.timeout /\ told' = u /\ report' = v
        /\ UNCHANGED <<executor, promise, began, clock>>
    BY <1>2 DEF TellResult, BatchInv, BatchTypeOK
  <2>3. BatchTypeOK'
    BY <1>2, <2>1, <2>2 DEF TellResult, BatchInv, BatchTypeOK
  <2>4. \A k \in DOMAIN t : t[k].outcome \in Results
    BY DEF BatchInv
  <2>5. LET q == told' \o report' IN
        About(q, Calls) /\ Ascends(q) /\ Truth(q, batch'.timeout, promise')
    <3> PICK q : q = s \o t
      OBVIOUS
    <3>1. About(q, Calls) /\ Ascends(q) /\ Truth(q, batch.timeout, promise)
      BY DEF BatchInv, TellResult
    <3>2. told' \o report' = q
      BY <2>1, <2>2
    <3> QED BY <2>2, <3>1, <3>2
  <2>6. /\ \A k \in DOMAIN v : v[k].outcome \in Results
        /\ u[Len(u)].outcome \in Results
    BY <2>1, <2>4
  <2> QED BY <2>1, <2>2, <2>3, <2>5, <2>6 DEF BatchInv
<1> QED BY <1>1, <1>2

LEMMA HookAnswersKeeps ==
  ASSUME BatchInv, HookAnswers
  PROVE  BatchInv'
<1>1. batch'.pc \in {"telling", "dropped"} /\ batch'.timeout = batch.timeout
  BY DEF HookAnswers, BatchInv, BatchTypeOK
<1>2. BatchTypeOK'
  BY DEF HookAnswers, BatchInv, BatchTypeOK
<1> PICK q : q = told \o report
  OBVIOUS
<1>3. /\ About(q, Calls) /\ Ascends(q) /\ Truth(q, batch.timeout, promise)
      /\ told' \o report' = q /\ UNCHANGED <<promise, report, told>>
  BY DEF BatchInv, HookAnswers
<1> QED BY <1>1, <1>2, <1>3 DEF HookAnswers, BatchInv

LEMMA BatchInvKept ==
  ASSUME ShortTimers, BatchInv, [BatchNext]_batchVars
  PROVE  BatchInv'
<1>1. CASE UNCHANGED batchVars
  <2>1. BatchTypeOK' /\ Entries' = Entries
    BY <1>1 DEF batchVars, BatchInv, BatchTypeOK, Entries
  <2> QED BY <1>1, <2>1, PromisesKeep DEF batchVars
<1>2. ASSUME NEW side \in BOOLEAN, NEW t \in CallTimeouts, batch.pc = "off", UNCHANGED clock,
             NEW b, b = [batch EXCEPT !.parallel = side, !.timeout = t],
             \/ Deny
             \/ /\ batch' = [b EXCEPT !.pc = "asking"]
                /\ UNCHANGED <<executor, promise, began, report, told>>
             \/ Launch(b)
      PROVE  BatchInv'
  <2>1. /\ b \in [pc : {"off", "asking"}, parallel : BOOLEAN, timeout : Nat, at : Nat]
        /\ b.timeout < BatchTimeout
    BY <1>2, BatchAssumption DEF ShortTimers, BatchInv, BatchTypeOK
  <2>2. CASE Deny
    BY <1>2, <2>2, DenyKeeps
  <2>3. CASE Launch(b)
    BY <1>2, <2>1, <2>3, LaunchKeeps
  <2>4. CASE batch' = [b EXCEPT !.pc = "asking"] /\ UNCHANGED <<executor, promise, began, report, told>>
    <3>1. /\ batch' \in [pc : {"asking"}, parallel : BOOLEAN, timeout : Nat, at : Nat]
          /\ batch'.timeout = b.timeout
      BY <2>1, <2>4
    <3> QED BY <1>2, <2>1, <2>4, <3>1 DEF BatchInv, BatchTypeOK
  <2> QED BY <1>2, <2>2, <2>3, <2>4
<1>3. CASE BeginBatch
  <2> PICK side \in BOOLEAN, t \in CallTimeouts :
        LET b == [batch EXCEPT !.parallel = side, !.timeout = t]
        IN \/ Deny
           \/ /\ batch' = [b EXCEPT !.pc = "asking"]
              /\ UNCHANGED <<executor, promise, began, report, told>>
           \/ Launch(b)
    BY <1>3 DEF BeginBatch
  <2> QED BY <1>2, <1>3 DEF BeginBatch
<1>4. CASE BatchAnswered
  <2>1. batch \in [pc : {"off", "asking"}, parallel : BOOLEAN, timeout : Nat, at : Nat]
    BY <1>4 DEF BatchAnswered, BatchInv, BatchTypeOK
  <2>2. batch.timeout < BatchTimeout
    BY <1>4 DEF BatchAnswered, BatchInv
  <2> QED BY <1>4, <2>1, <2>2, DenyKeeps, LaunchKeeps DEF BatchAnswered
<1> QED BY <1>1, <1>3, <1>4, ExecutorEndsKeeps, CallTimerKeeps, NextCallKeeps, TickKeeps,
        BatchEndingsKeep, TellResultKeeps, HookAnswersKeeps DEF BatchNext, BatchContinues

\* What was told is a beginning of the messages in all.
LEMMA BatchHolds == BatchInv => EveryCallReported
<1> SUFFICES ASSUME BatchInv PROVE EveryCallReported
  OBVIOUS
<1> PICK s \in Seq(Messages), t \in Seq(Messages) : s = told /\ t = report
  BY DEF BatchInv, BatchTypeOK
<1>1. \A k \in DOMAIN s : k \in Nat
  OBVIOUS
<1>2. ASSUME NEW S, About(s, S)
      PROVE  \A j, k \in DOMAIN s : s[j].call = s[k].call => j = k
  BY <1>1, <1>2 DEF About
<1>3. CASE batch.pc \in {"off", "asking"}
  BY <1>3 DEF BatchInv, EveryCallReported
<1>4. CASE batch.pc = "running"
  BY <1>2, <1>4 DEF BatchInv, EveryCallReported, Refused
<1>5. CASE batch.pc \in {"telling", "hook", "dropped", "ended"}
  <2> DEFINE q == s \o t
  <2>1. About(q, Calls) /\ Ascends(q) /\ Truth(q, batch.timeout, promise)
    BY <1>5 DEF BatchInv
  <2>2. \A k \in DOMAIN s : k \in DOMAIN q /\ q[k] = s[k]
    BY Joined
  <2>3. \A k \in DOMAIN q : k \in DOMAIN s \/ k > Len(s)
    BY Joined
  <2> HIDE DEF q
  <2>4. \A j, k \in DOMAIN s : s[j].call = s[k].call => j = k
    BY <1>1, <2>1, <2>2 DEF About
  <2>5. \A k \in DOMAIN s : batch.timeout > 0 /\ s[k].outcome \in {"ok", "error", "timeout"}
                              => s[k].outcome = promise[s[k].call]
    BY <2>1, <2>2 DEF Truth, Results
  <2>6. ASSUME NEW c \in Calls, ~\E k \in DOMAIN s : s[k].call = c
        PROVE  \E k \in DOMAIN q : q[k].call = c /\ k > Len(s)
    BY <2>1, <2>2, <2>3, <2>6 DEF About
  <2>7. CASE batch.pc = "ended"
    <3>1. q = s
      BY <2>7, ConcatEmptySeq DEF BatchInv, q
    <3>2. \A c \in Calls : \E k \in DOMAIN s : s[k].call = c
      BY <2>1, <3>1 DEF About
    <3> QED BY <2>4, <2>5, <2>7, <3>2 DEF EveryCallReported, Told
  <2>8. CASE batch.pc = "dropped"
    <3>1. Len(s) > 0 /\ s[Len(s)].outcome \in Results /\ Len(s) \in DOMAIN s
      BY <2>8 DEF BatchInv
    <3>2. ASSUME NEW c \in Calls, ~\E k \in DOMAIN s : s[k].call = c
          PROVE  c > s[Len(s)].call
      <4> PICK k \in DOMAIN q : q[k].call = c /\ k > Len(s)
        BY <2>6, <3>2
      <4>1. s[Len(s)].call < c
        BY <2>1, <2>2, <3>1 DEF Ascends
      <4>2. s[Len(s)].call \in Nat /\ c \in Nat
        BY <2>1, <2>2, <3>1, CallsAreNumbers DEF About
      <4> QED BY <4>1, <4>2
    <3> QED BY <2>4, <2>5, <2>8, <3>2 DEF EveryCallReported, Told
  <2>9. CASE batch.pc \in {"telling", "hook"}
    BY <2>4, <2>5, <2>9 DEF EveryCallReported
  <2> QED BY <1>5, <2>7, <2>8, <2>9
<1> QED BY <1>3, <1>4, <1>5 DEF BatchInv, BatchTypeOK

-----------------------------------------------------------------------------
(* Agents of other devices *)

LEMMA RemoteSteps ==
  ASSUME [Next]_agentVars
  PROVE  [RemoteNext]_remoteVars
<1>1. CASE UNCHANGED agentVars
  BY <1>1 DEF agentVars
<1>2. CASE Next
  BY <1>2 DEF Next
<1> QED BY <1>1, <1>2

\* Increasing numbers of an interval are all of them, one after the other.
LEMMA IntervalInOrder ==
  ASSUME NEW n \in Nat, NEW m \in Nat, NEW s \in [1..m -> (n + 1)..(n + m)], Increasing(s)
  PROVE  \A k \in 1..m : s[k] = n + k
<1>1. \A k \in 1..m : s[k] \in Nat
  OBVIOUS
<1>2. \A j, k \in 1..m : j < k => s[j] < s[k]
  BY DEF Increasing
<1>3. \A k \in 1..m : s[k] >= n + k
  <2> SUFFICES ASSUME NEW i \in 1..m, s[i] < n + i PROVE FALSE
    BY <1>1
  <2> DEFINE Bad == {k \in 1..m : s[k] < n + k}
  <2>1. Bad \subseteq Nat /\ Bad # {}
    OBVIOUS
  <2>2. PICK k \in Bad : \A j \in Bad : k <= j
    BY <2>1, NatMin
  <2>3. k \in 1..m /\ s[k] < n + k /\ s[k] \in Nat
    BY <1>1, <2>2
  <2>4. CASE k = 1
    BY <2>3, <2>4
  <2>5. CASE k # 1
    <3>1. k - 1 \in 1..m /\ k - 1 \notin Bad
      BY <2>2, <2>3, <2>5
    <3>2. s[k - 1] >= n + (k - 1) /\ s[k - 1] < s[k] /\ s[k - 1] \in Nat
      BY <1>1, <1>2, <2>3, <3>1
    <3> QED BY <2>3, <3>2
  <2> QED BY <2>4, <2>5
<1>4. \A k \in 1..m : s[k] <= n + k
  <2> SUFFICES ASSUME NEW i \in 1..m, s[i] > n + i PROVE FALSE
    BY <1>1
  <2> DEFINE Late == {d \in 0..m : \E k \in 1..m : m - k = d /\ s[k] > n + k}
  <2>1. Late \subseteq Nat /\ Late # {}
    <3>1. m - i \in 0..m
      OBVIOUS
    <3>2. m - i \in Late
      BY <3>1
    <3>3. Late \subseteq Nat
      OBVIOUS
    <3> HIDE DEF Late
    <3> QED BY <3>2, <3>3
  <2>2. PICK d \in Late : \A e \in Late : d <= e
    BY <2>1, NatMin
  <2>3. PICK k \in 1..m : m - k = d /\ s[k] > n + k
    BY <2>2
  <2>4. CASE k = m
    BY <2>3, <2>4
  <2>5. CASE k # m
    <3>1. k + 1 \in 1..m /\ m - (k + 1) \in 0..m /\ m - (k + 1) < d /\ d \in Nat
      BY <2>2, <2>3, <2>5
    <3>2. m - (k + 1) \notin Late
      <4> PICK e \in Nat : e = m - (k + 1) /\ e < d
        BY <3>1
      <4> HIDE DEF Late
      <4> QED BY <2>2, <3>1
    <3>3. ~(s[k + 1] > n + (k + 1))
      BY <3>1, <3>2
    <3>4. s[k] < s[k + 1] /\ s[k] \in Nat /\ s[k + 1] \in Nat
      BY <1>1, <1>2, <2>3, <3>1
    <3> QED BY <2>3, <3>3, <3>4
  <2> QED BY <2>4, <2>5
<1> SUFFICES ASSUME NEW k \in 1..m PROVE s[k] = n + k
  OBVIOUS
<1>5. s[k] \in Nat /\ s[k] >= n + k /\ s[k] <= n + k
  BY <1>1, <1>3, <1>4
<1> HIDE DEF Increasing
<1> QED BY <1>5

Stages == {"off", "send", "stream", "poll", "sleep", "returned"}
Outcomes == {None, "error", "stream", "summary"}

RemoteTypeOK ==
    /\ call \in [pc : Stages, device : Devices \union {None}, polls : Nat, idle : Nat,
                 known : SUBSET Nat, collected : Seq(Nat), subscribed : BOOLEAN, result : Outcomes]
    /\ stream \in Seq(Nat)
    /\ log \in [Devices -> Int]

\* Consecutive messages of a log, the task not among them.
PartOf(list, end) == \A k \in DOMAIN list : list[k] \in 2..end /\ (k > 1 => list[k] = list[k - 1] + 1)

\* What is known is what was collected, a beginning of the log; what a stream brought ends with
\* the last message of the log.
RemoteInv ==
    /\ RemoteTypeOK
    /\ \A d \in Devices : log[d] >= NoConversation
    /\ call.pc \in {"off", "send", "stream"} => call.collected = <<>> /\ call.known = {}
    /\ call.pc \in {"send", "stream", "poll", "sleep"} => call.device \in Devices /\ call.result = None
    /\ call.pc = "off" => call.result = None /\ ~call.subscribed
    /\ call.pc = "send" => log[call.device] = 0 /\ ~call.subscribed
    /\ call.pc \in {"stream", "poll", "sleep"} => log[call.device] >= 1
    /\ call.pc \in {"off", "send"} \/ ~call.subscribed => stream = <<>>
    /\ call.pc = "stream" /\ call.subscribed =>
         /\ PartOf(stream, log[call.device])
         /\ stream # <<>> => stream[Len(stream)] = log[call.device]
    /\ call.pc \in {"poll", "sleep"} =>
         /\ call.known = 1..Len(call.collected)
         /\ \A k \in DOMAIN call.collected : call.collected[k] = k
         /\ Len(call.collected) <= log[call.device]
    /\ call.result \in {"stream", "summary"} => call.pc = "returned" /\ call.device \in Devices
    /\ SummaryIsFaithful

LEMMA RemoteInitially ==
  ASSUME RemoteInit
  PROVE  RemoteInv
<1>1. RemoteTypeOK
  BY DEF RemoteInit, RemoteTypeOK, Stages, Outcomes, NoConversation
<1> QED BY <1>1 DEF RemoteInit, RemoteInv, SummaryIsFaithful, None, NoConversation

LEMMA StreamGrows ==
  ASSUME NEW s \in Seq(Nat), NEW e \in Nat, e >= 1, PartOf(s, e), s # <<>> => s[Len(s)] = e
  PROVE  LET t == Append(s, e + 1)
         IN  t \in Seq(Nat) /\ PartOf(t, e + 1) /\ t # <<>> /\ t[Len(t)] = e + 1
<1> DEFINE n == e + 1
           t == Append(s, n)
           l == Len(s)
<1>1. n \in Nat /\ n = e + 1 /\ l \in Nat
  OBVIOUS
<1> HIDE DEF n
<1>2. /\ t \in Seq(Nat) /\ Len(t) = l + 1 /\ DOMAIN t = 1..(l + 1)
      /\ \A k \in 1..l : t[k] = s[k]
      /\ t[l + 1] = n /\ t # <<>> /\ DOMAIN s = 1..l
  <2> PICK R : R = Nat
    OBVIOUS
  <2>1. s \in Seq(R) /\ n \in R
    BY <1>1
  <2>2. t \in Seq(R) /\ Len(t) = l + 1 /\ (\A k \in 1..l : t[k] = s[k]) /\ t[l + 1] = n
    BY <2>1, AppendProperties
  <2>3. DOMAIN t = 1..Len(t) /\ DOMAIN s = 1..l
    BY <2>1, <2>2
  <2>4. t # <<>>
    BY <1>1, <2>2
  <2> HIDE DEF t
  <2> QED BY <2>2, <2>3, <2>4
<1> HIDE DEF t
<1>3. \A k \in 1..l : s[k] \in 2..e /\ (k > 1 => s[k] = s[k - 1] + 1)
  BY <1>2 DEF PartOf
<1>4. l >= 1 => s[l] = e
  OBVIOUS
<1> HIDE DEF l
<1>5. ASSUME NEW k \in 1..(l + 1)
      PROVE  t[k] \in 2..n /\ (k > 1 => t[k] = t[k - 1] + 1)
  <2>1. CASE k \in 1..l
    <3>1. t[k] = s[k] /\ s[k] \in 2..e /\ (k > 1 => s[k] = s[k - 1] + 1)
      BY <1>2, <1>3, <2>1
    <3>2. k > 1 => k - 1 \in 1..l
      BY <1>1, <2>1
    <3>3. k > 1 => t[k - 1] = s[k - 1]
      BY <1>2, <3>2
    <3> QED BY <1>1, <3>1, <3>3
  <2>2. CASE k = l + 1
    <3>1. k > 1 => l >= 1 /\ l \in 1..l /\ k - 1 = l
      BY <1>1, <2>2
    <3>2. k > 1 => t[k - 1] = e
      BY <1>2, <1>4, <3>1
    <3> QED BY <1>1, <1>2, <2>2, <3>2
  <2> QED BY <1>1, <2>1, <2>2
<1>6. PartOf(t, n)
  BY <1>2, <1>5 DEF PartOf
<1> QED BY <1>1, <1>2, <1>6 DEF t, n

\* A new message goes to the end of the log and of the stream.
LEMMA RemoteWritesKeeps ==
  ASSUME RemoteInv, NEW d \in Devices, RemoteWrites(d)
  PROVE  RemoteInv'
<1>1. /\ \A e \in Devices : log[e] \in Int /\ log'[e] \in Int /\ log'[e] >= log[e]
      /\ log[d] >= 1 /\ log'[d] = log[d] + 1 /\ log' \in [Devices -> Int]
      /\ \A e \in Devices \ {d} : log'[e] = log[e]
      /\ call' = call
  BY RemoteAssumption DEF RemoteWrites, RemoteInv, RemoteTypeOK
<1>2. CASE call.pc = "stream" /\ call.device = d /\ call.subscribed
  <2> DEFINE n == log[d] + 1
             t == Append(stream, n)
  <2>1. stream' = t
    BY <1>2 DEF RemoteWrites
  <2>2. /\ stream \in Seq(Nat) /\ log[d] \in Nat /\ log[d] >= 1 /\ PartOf(stream, log[d])
        /\ stream # <<>> => stream[Len(stream)] = log[d]
    BY <1>1, <1>2 DEF RemoteInv, RemoteTypeOK
  <2>3. /\ t \in Seq(Nat) /\ PartOf(t, n) /\ t # <<>> /\ t[Len(t)] = n
    BY <2>2, StreamGrows
  <2>4. n = log'[d]
    BY <1>1
  <2> HIDE DEF t, n
  <2>7. /\ call.collected = <<>> /\ call.known = {} /\ call.result = None /\ call.device \in Devices
        /\ call.pc = "stream" /\ call.subscribed
    BY <1>2 DEF RemoteInv
  <2>8. RemoteTypeOK'
    BY <1>1, <2>1, <2>3 DEF RemoteInv, RemoteTypeOK
  <2>9. SummaryIsFaithful'
    BY <1>1, <2>7 DEF SummaryIsFaithful, None
  <2>10. \A e \in Devices : log'[e] >= NoConversation
    BY <1>1 DEF RemoteInv, NoConversation
  <2> QED BY <1>1, <1>2, <2>1, <2>3, <2>4, <2>7, <2>8, <2>9, <2>10 DEF RemoteInv, None
<1>3. CASE ~(call.pc = "stream" /\ call.device = d /\ call.subscribed)
  <2>1. stream' = stream
    BY <1>3 DEF RemoteWrites
  <2>2. RemoteTypeOK'
    BY <1>1, <2>1 DEF RemoteInv, RemoteTypeOK
  <2>3. call.device \in Devices => log[call.device] \in Int /\ log'[call.device] >= log[call.device]
    BY <1>1
  <2>4. SummaryIsFaithful'
    <3>1. ASSUME call.result = "summary" PROVE Len(call.collected) <= log'[call.device]
      <4>1. Len(call.collected) \in Nat /\ call.device \in Devices
            /\ Len(call.collected) <= log[call.device]
        BY <3>1 DEF RemoteInv, RemoteTypeOK, SummaryIsFaithful
      <4> QED BY <1>1, <2>3, <4>1
    <3>2. ASSUME call.result = "stream", NEW k \in DOMAIN call.collected
          PROVE  call.collected[k] \in 2..log'[call.device]
      <4>1. call.collected[k] \in 2..log[call.device] /\ call.device \in Devices
        BY <3>2 DEF RemoteInv, SummaryIsFaithful
      <4> QED BY <1>1, <2>3, <4>1
    <3> QED BY <1>1, <3>1, <3>2 DEF RemoteInv, SummaryIsFaithful
  <2>5. \A e \in Devices : log'[e] >= NoConversation
    BY <1>1 DEF RemoteInv, NoConversation
  <2>6. call.pc = "send" => log'[call.device] = 0
    BY <1>1 DEF RemoteInv
  <2>7. call.pc \in {"stream", "poll", "sleep"} => log'[call.device] >= 1
    BY <1>1, <2>3 DEF RemoteInv
  <2>8. call.pc \in {"poll", "sleep"} => Len(call.collected) <= log'[call.device]
    <3>1. Len(call.collected) \in Nat
      BY DEF RemoteInv, RemoteTypeOK
    <3> QED BY <1>1, <2>3, <3>1 DEF RemoteInv
  <2>9. call.pc = "stream" /\ call.subscribed => log'[call.device] = log[call.device]
    BY <1>1, <1>3 DEF RemoteInv
  <2> QED BY <1>1, <2>1, <2>2, <2>4, <2>5, <2>6, <2>7, <2>8, <2>9 DEF RemoteInv
<1> QED BY <1>2, <1>3


LEMMA RequestsKeep ==
  ASSUME RemoteInv, CreateRemote \/ SendTask \/ Subscribed
  PROVE  RemoteInv'
<1>1. CASE CreateRemote
  <2> PICK d \in Devices :
         \/ /\ call' = [call EXCEPT !.pc = "send", !.device = d]
            /\ log' = [log EXCEPT ![d] = 0]
         \/ /\ Return("error")
            /\ log' \in {log, [log EXCEPT ![d] = 0]}
    BY <1>1 DEF CreateRemote
  <2>1. call.pc = "off" /\ stream' = stream /\ stream = <<>> /\ call.collected = <<>> /\ call.known = {}
    BY <1>1 DEF CreateRemote, RemoteInv
  <2>2. /\ log' \in [Devices -> Int] /\ \A e \in Devices : log'[e] >= NoConversation
    <3>1. log' = log \/ log' = [log EXCEPT ![d] = 0]
      OBVIOUS
    <3>2. CASE log' = log
      BY <3>2 DEF RemoteInv, RemoteTypeOK
    <3>3. CASE log' = [log EXCEPT ![d] = 0]
      BY <3>3 DEF RemoteInv, RemoteTypeOK, NoConversation
    <3> QED BY <3>1, <3>2, <3>3
  <2>3. /\ call'.collected = call.collected /\ call'.known = call.known
        /\ call'.subscribed = call.subscribed
        /\ \/ call'.pc = "send" /\ call'.device = d /\ call'.result = call.result /\ log'[d] = 0
           \/ call'.pc = "returned" /\ call'.result = "error"
    BY DEF Return, RemoteInv, RemoteTypeOK
  <2>4. call' \in [pc : Stages, device : Devices \union {None}, polls : Nat, idle : Nat,
                    known : SUBSET Nat, collected : Seq(Nat), subscribed : BOOLEAN,
                    result : Outcomes]
    BY DEF Return, RemoteInv, RemoteTypeOK, Stages, Outcomes
  <2>5. ~call.subscribed /\ call.result = None
    BY <2>1 DEF RemoteInv
  <2>6. SummaryIsFaithful'
    BY <2>3, <2>5 DEF SummaryIsFaithful, None
  <2> QED BY <2>1, <2>2, <2>3, <2>4, <2>5, <2>6 DEF RemoteInv, RemoteTypeOK, None
<1>2. CASE SendTask
  <2>1. /\ call.pc = "send" /\ stream' = stream /\ stream = <<>> /\ call.collected = <<>>
        /\ call.known = {} /\ ~call.subscribed /\ call.device \in Devices /\ call.result = None
    BY <1>2 DEF SendTask, RemoteInv
  <2>2. /\ log' \in [Devices -> Int] /\ \A e \in Devices : log'[e] >= NoConversation
    BY <1>2 DEF SendTask, RemoteInv, RemoteTypeOK, NoConversation
  <2>3. /\ call'.collected = call.collected /\ call'.known = call.known
        /\ call'.subscribed = call.subscribed /\ call'.device = call.device
        /\ \/ /\ call'.pc \in {"stream", "poll"} /\ call'.result = call.result
              /\ log'[call.device] = 1
           \/ call'.pc = "returned" /\ call'.result = "error"
    BY <1>2, <2>1 DEF SendTask, Return, RemoteInv, RemoteTypeOK
  <2>4. call' \in [pc : Stages, device : Devices \union {None}, polls : Nat, idle : Nat,
                    known : SUBSET Nat, collected : Seq(Nat), subscribed : BOOLEAN,
                    result : Outcomes]
    BY <1>2 DEF SendTask, Return, RemoteInv, RemoteTypeOK, Stages, Outcomes
  <2>5. SummaryIsFaithful'
    BY <2>1, <2>3 DEF SummaryIsFaithful, None
  <2> QED BY <2>1, <2>2, <2>3, <2>4, <2>5 DEF RemoteInv, RemoteTypeOK, None
<1>3. CASE Subscribed
  <2>1. /\ call.pc = "stream" /\ ~call.subscribed /\ stream' = stream /\ stream = <<>>
        /\ log' = log /\ call' = [call EXCEPT !.subscribed = TRUE] /\ call.result = None
        /\ call.device \in Devices /\ call.collected = <<>> /\ call.known = {}
    BY <1>3 DEF Subscribed, RemoteInv
  <2>2. /\ call' \in [pc : Stages, device : Devices \union {None}, polls : Nat, idle : Nat,
                       known : SUBSET Nat, collected : Seq(Nat), subscribed : BOOLEAN,
                       result : Outcomes]
        /\ call'.pc = "stream" /\ call'.device = call.device /\ call'.result = call.result
        /\ call'.collected = <<>> /\ call'.known = {}
    BY <2>1 DEF RemoteInv, RemoteTypeOK
  <2>3. PartOf(<<>>, log[call.device])
    BY DEF PartOf
  <2>4. SummaryIsFaithful'
    BY <2>1, <2>2 DEF SummaryIsFaithful, None
  <2> QED BY <2>1, <2>2, <2>3, <2>4 DEF RemoteInv, RemoteTypeOK, None
<1> QED BY <1>1, <1>2, <1>3

LEMMA WaitsKeep ==
  ASSUME RemoteInv, StreamOver \/ WakeUp
  PROVE  RemoteInv'
<1>1. CASE StreamOver
  <2>1. /\ call.pc = "stream" /\ stream' = stream /\ log' = log /\ call.collected = <<>>
        /\ call.known = {} /\ call.device \in Devices /\ call.result = None
        /\ log[call.device] >= 1 /\ log \in [Devices -> Int]
    BY <1>1 DEF StreamOver, RemoteInv, RemoteTypeOK
  <2>2. CASE stream # <<>>
    <3>1. /\ call' = [call EXCEPT !.pc = "returned", !.result = "stream", !.collected = stream]
          /\ stream \in Seq(Nat) /\ PartOf(stream, log[call.device])
          /\ call.subscribed
      BY <1>1, <2>1, <2>2 DEF StreamOver, RemoteInv, RemoteTypeOK
    <3>2. call' \in [pc : Stages, device : Devices \union {None}, polls : Nat, idle : Nat,
                      known : SUBSET Nat, collected : Seq(Nat), subscribed : BOOLEAN,
                      result : Outcomes]
      BY <3>1 DEF RemoteInv, RemoteTypeOK, Stages, Outcomes
    <3>3. /\ call'.pc = "returned" /\ call'.result = "stream" /\ call'.collected = stream
          /\ call'.device = call.device /\ call'.subscribed = call.subscribed
      BY <3>1 DEF RemoteInv, RemoteTypeOK
    <3>4. SummaryIsFaithful'
      BY <2>1, <3>1, <3>3 DEF SummaryIsFaithful, PartOf
    <3> QED BY <2>1, <3>1, <3>2, <3>3, <3>4 DEF RemoteInv, RemoteTypeOK, None
  <2>3. CASE stream = <<>>
    <3>1. call' = [call EXCEPT !.pc = "poll"]
      BY <1>1, <2>3 DEF StreamOver
    <3>2. /\ call' \in [pc : Stages, device : Devices \union {None}, polls : Nat, idle : Nat,
                         known : SUBSET Nat, collected : Seq(Nat), subscribed : BOOLEAN,
                         result : Outcomes]
          /\ call'.pc = "poll" /\ call'.device = call.device /\ call'.result = call.result
          /\ call'.collected = <<>> /\ call'.known = {} /\ call'.subscribed = call.subscribed
      BY <2>1, <3>1 DEF RemoteInv, RemoteTypeOK, Stages
    <3>3. Len(<<>>) = 0 /\ 1..0 = {} /\ 0 <= log[call.device]
      BY <2>1
    <3>4. SummaryIsFaithful'
      BY <2>1, <3>2 DEF SummaryIsFaithful, None
    <3> QED BY <2>1, <2>3, <3>2, <3>3, <3>4 DEF RemoteInv, RemoteTypeOK, None
  <2> QED BY <2>2, <2>3
<1>2. CASE WakeUp
  <2>1. /\ call.pc = "sleep" /\ stream' = stream /\ log' = log /\ call.result = None
        /\ call.device \in Devices /\ call.polls \in Nat
        /\ \/ call' = [call EXCEPT !.pc = "returned", !.result = "summary"]
           \/ \E n \in Nat : call' = [call EXCEPT !.pc = "poll", !.polls = n]
    <3>1. call.pc = "sleep" /\ call.polls \in Nat /\ call.polls + 1 \in Nat
      BY <1>2 DEF WakeUp, RemoteInv, RemoteTypeOK
    <3> PICK n \in Nat : n = call.polls + 1
      BY <3>1
    <3>2. \/ call' = [call EXCEPT !.pc = "returned", !.result = "summary"]
          \/ call' = [call EXCEPT !.pc = "poll", !.polls = n]
      BY <1>2 DEF WakeUp, Return
    <3> QED BY <1>2, <3>1, <3>2 DEF WakeUp, RemoteInv
  <2>2. /\ call' \in [pc : Stages, device : Devices \union {None}, polls : Nat, idle : Nat,
                       known : SUBSET Nat, collected : Seq(Nat), subscribed : BOOLEAN,
                       result : Outcomes]
        /\ call'.device = call.device /\ call'.collected = call.collected
        /\ call'.known = call.known /\ call'.subscribed = call.subscribed
        /\ \/ call'.pc = "returned" /\ call'.result = "summary"
           \/ call'.pc = "poll" /\ call'.result = None
    BY <2>1 DEF RemoteInv, RemoteTypeOK, Stages, Outcomes
  <2>3. SummaryIsFaithful'
    BY <2>1, <2>2 DEF RemoteInv, SummaryIsFaithful, None
  <2> QED BY <2>1, <2>2, <2>3 DEF RemoteInv, RemoteTypeOK, None
<1> QED BY <1>1, <1>2


\* What is not known yet, in order.
Unknown(n, end) ==
    LET new == {k \in 1..end : k \notin 1..n}
    IN  CHOOSE s \in [1..Cardinality(new) -> new] : \A j, k \in DOMAIN s : j < k => s[j] < s[k]

LEMMA UnknownInOrder ==
  ASSUME NEW n \in Nat, NEW end \in Nat, n <= end
  PROVE  /\ Unknown(n, end) \in Seq(Nat) /\ n + Len(Unknown(n, end)) = end
         /\ \A k \in DOMAIN Unknown(n, end) : Unknown(n, end)[k] = n + k
<1> DEFINE new == {k \in 1..end : k \notin 1..n}
           q == CHOOSE s \in [1..Cardinality(new) -> new] :
                  \A j, k \in DOMAIN s : j < k => s[j] < s[k]
           m == end - n
<1>1. new = (n + 1)..end /\ new \in SUBSET (1..end)
  OBVIOUS
<1>2. m \in Nat /\ end = n + m
  OBVIOUS
<1>3. Cardinality(new) = m
  <2>1. Cardinality((n + 1)..end) = IF n + 1 > end THEN 0 ELSE end - (n + 1) + 1
    BY FS_Interval
  <2>2. Cardinality((n + 1)..end) = m
    BY <2>1
  <2> QED BY <1>1, <2>2
<1> HIDE DEF new, m
<1>4. q \in [1..m -> new] /\ Increasing(q)
  <2>1. \E s \in [1..Cardinality(new) -> new] : Increasing(s)
    BY <1>1, OrderExists
  <2> QED BY <1>3, <2>1 DEF Increasing
<1>5. q \in [1..m -> (n + 1)..(n + m)]
  BY <1>1, <1>2, <1>4
<1> HIDE DEF q
<1>6. \A k \in 1..m : q[k] = n + k
  BY <1>2, <1>4, <1>5, IntervalInOrder
<1>7. q \in [1..m -> Nat]
  <2>1. \A k \in 1..m : q[k] \in Nat /\ DOMAIN q = 1..m
    BY <1>2, <1>5
  <2> QED BY <1>5, <2>1
<1>8. q \in Seq(Nat) /\ Len(q) = m /\ DOMAIN q = 1..m
  BY <1>2, <1>7, IsSeqOf
<1>9. q \in Seq(Nat) /\ n + Len(q) = end /\ \A k \in DOMAIN q : q[k] = n + k
  BY <1>2, <1>6, <1>8
<1>10. Unknown(n, end) = q
  BY DEF Unknown, q, new
<1> QED BY <1>9, <1>10

\* What is known, and then what is not: all of it.
LEMMA KnownAndNew ==
  ASSUME NEW n \in Nat, NEW c \in Seq(Nat), Len(c) = n, \A k \in 1..n : c[k] = k,
         NEW new \in Seq(Nat), \A k \in DOMAIN new : new[k] = n + k
  PROVE  /\ c \o new \in Seq(Nat) /\ Len(c \o new) = n + Len(new) /\ n + Len(new) \in Nat
         /\ \A k \in DOMAIN (c \o new) : (c \o new)[k] = k
         /\ (1..n) \union ToSet(new) = 1..(n + Len(new))
<1> DEFINE all == c \o new
           m == Len(new)
<1>1. /\ all \in Seq(Nat) /\ Len(all) = n + m /\ m \in Nat /\ n + m \in Nat
      /\ DOMAIN all = 1..(n + m) /\ DOMAIN new = 1..m
      /\ \A k \in 1..n : all[k] = c[k]
      /\ \A k \in 1..m : all[n + k] = new[k]
  <2> PICK R : R = Nat
    OBVIOUS
  <2>1. c \in Seq(R) /\ new \in Seq(R) /\ m \in Nat
    OBVIOUS
  <2>2. /\ all \in Seq(R) /\ Len(all) = n + m
        /\ \A i \in 1..(n + m) : all[i] = IF i <= n THEN c[i] ELSE new[i - n]
    BY <2>1, ConcatProperties
  <2>3. DOMAIN all = 1..Len(all) /\ DOMAIN new = 1..m
    BY <2>1, <2>2
  <2> HIDE DEF all, m
  <2>4. \A k \in 1..m : n + k \in 1..(n + m) /\ ~(n + k <= n) /\ (n + k) - n = k
    BY <2>1
  <2>5. \A k \in 1..n : k \in 1..(n + m) /\ k <= n
    BY <2>1
  <2>6. \A k \in 1..m : all[n + k] = new[k]
    BY <2>2, <2>4
  <2>7. \A k \in 1..n : all[k] = c[k]
    BY <2>2, <2>5
  <2> QED BY <2>1, <2>2, <2>3, <2>6, <2>7
<1> HIDE DEF all
<1>2. \A k \in 1..m : new[k] = n + k
  BY <1>1
<1>3. ToSet(new) = {new[k] : k \in 1..m}
  BY <1>1 DEF ToSet
<1> HIDE DEF m
<1>4. ASSUME NEW k \in 1..(n + m), k \notin 1..n
      PROVE  k - n \in 1..m /\ n + (k - n) = k
  BY <1>1, <1>4
<1>5. ASSUME NEW k \in 1..(n + m) PROVE all[k] = k
  <2>1. CASE k \in 1..n
    BY <1>1, <2>1
  <2>2. CASE k \notin 1..n
    <3> PICK j \in 1..m : j = k - n /\ n + j = k
      BY <1>4, <2>2
    <3> QED BY <1>1, <1>2
  <2> QED BY <2>1, <2>2
<1>6. \A k \in 1..m : n + k \in 1..(n + m)
  BY <1>1
<1>7. (1..n) \union ToSet(new) = 1..(n + m)
  <2>1. \A x \in ToSet(new) : x \in 1..(n + m)
    BY <1>2, <1>3, <1>6
  <2>2. \A x \in 1..n : x \in 1..(n + m)
    BY <1>1
  <2>3. \A x \in 1..(n + m) : x \in 1..n \/ x \in ToSet(new)
    BY <1>2, <1>3, <1>4
  <2> QED BY <2>1, <2>2, <2>3
<1> QED BY <1>1, <1>5, <1>7 DEF all, m

LEMMA PollKeeps ==
  ASSUME RemoteInv, Poll
  PROVE  RemoteInv'
<1> PICK c : c = call.collected
  OBVIOUS
<1> DEFINE new == NewMessages(call.device)
           n == Len(c)
<1>1. /\ call.pc = "poll" /\ stream' = stream /\ log' = log /\ call.result = None
      /\ call.device \in Devices /\ log[call.device] \in Int /\ log[call.device] >= 1
  BY DEF Poll, RemoteInv, RemoteTypeOK
<1>2. /\ c \in Seq(Nat) /\ n \in Nat /\ Len(c) = n /\ call.known = 1..n /\ \A k \in 1..n : c[k] = k
      /\ n <= log[call.device] /\ call.idle \in Nat /\ DOMAIN c = 1..n
  BY <1>1 DEF RemoteInv, RemoteTypeOK
<1>3. /\ new \in Seq(Nat) /\ n + Len(new) = log[call.device]
      /\ \A k \in DOMAIN new : new[k] = n + k
  <2> PICK end \in Nat : end = log[call.device]
    BY <1>1
  <2>1. new = Unknown(n, end)
    BY <1>2 DEF NewMessages, Unknown
  <2>2. n <= end
    BY <1>2
  <2> HIDE DEF n, new
  <2>3. n \in Nat
    BY <1>2
  <2>4. /\ Unknown(n, end) \in Seq(Nat) /\ n + Len(Unknown(n, end)) = end
        /\ \A k \in DOMAIN Unknown(n, end) : Unknown(n, end)[k] = n + k
    BY <2>2, <2>3, UnknownInOrder, Zenon
  <2> QED BY <2>1, <2>4, Zenon
<1>4. ASSUME call' = [call EXCEPT !.pc = "sleep", !.idle = 0, !.known = @ \cup ToSet(new),
                                 !.collected = @ \o new]
      PROVE  RemoteInv'
  <2> DEFINE all == c \o new
             seen == call.known \union ToSet(new)
             m == n + Len(new)
  <2>1. /\ all \in Seq(Nat) /\ Len(all) = m /\ m \in Nat
        /\ \A k \in DOMAIN all : all[k] = k
        /\ seen = 1..m
    <3> HIDE DEF n, new
    <3>1. \A k \in 1..n : c[k] = k
      BY <1>2
    <3>2. /\ c \o new \in Seq(Nat) /\ Len(c \o new) = m /\ m \in Nat
          /\ \A k \in DOMAIN (c \o new) : (c \o new)[k] = k
          /\ (1..n) \union ToSet(new) = 1..m
      <4>1. n \in Nat /\ c \in Seq(Nat) /\ Len(c) = n /\ new \in Seq(Nat)
            /\ \A k \in DOMAIN new : new[k] = n + k
        BY <1>2, <1>3
      <4> QED BY <3>1, <4>1, KnownAndNew, Zenon
    <3> HIDE DEF m
    <3> QED BY <1>2, <3>2
  <2>2. call' = [call EXCEPT !.pc = "sleep", !.idle = 0, !.known = seen, !.collected = all]
    BY <1>4
  <2> HIDE DEF all, seen
  <2>3. seen \in SUBSET Nat /\ seen = 1..Len(all) /\ Len(all) <= log[call.device]
    <3> HIDE DEF n, new
    <3>1. m <= log[call.device]
      BY <1>1, <1>3
    <3> HIDE DEF m
    <3> QED BY <2>1, <3>1
  <2>4. /\ call' \in [pc : Stages, device : Devices \union {None}, polls : Nat, idle : Nat,
                       known : SUBSET Nat, collected : Seq(Nat), subscribed : BOOLEAN,
                       result : Outcomes]
        /\ call'.pc = "sleep" /\ call'.device = call.device /\ call'.collected = all
        /\ call'.known = seen /\ call'.subscribed = call.subscribed /\ call'.result = None
    BY <1>1, <2>1, <2>2, <2>3 DEF RemoteInv, RemoteTypeOK, Stages
  <2>5. SummaryIsFaithful'
    BY <2>4 DEF SummaryIsFaithful, None
  <2> HIDE DEF m, n, new
  <2> QED BY <1>1, <2>1, <2>3, <2>4, <2>5 DEF RemoteInv, RemoteTypeOK, None
<1>5. ASSUME NEW result \in {"summary", "error"}, Return(result)
      PROVE  RemoteInv'
  <2>1. /\ call' \in [pc : Stages, device : Devices \union {None}, polls : Nat, idle : Nat,
                       known : SUBSET Nat, collected : Seq(Nat), subscribed : BOOLEAN,
                       result : Outcomes]
        /\ call'.pc = "returned" /\ call'.device = call.device /\ call'.collected = c
        /\ call'.subscribed = call.subscribed /\ call'.result = result
    BY <1>5 DEF Return, RemoteInv, RemoteTypeOK, Stages, Outcomes
  <2>2. DOMAIN c = 1..n
    BY <1>2
  <2>3. SummaryIsFaithful'
    BY <1>1, <1>2, <2>1, <2>2 DEF SummaryIsFaithful
  <2> QED BY <1>1, <2>1, <2>3 DEF RemoteInv, RemoteTypeOK, None
<1>6. ASSUME NEW i \in Nat, call' = [call EXCEPT !.pc = "sleep", !.idle = i]
      PROVE  RemoteInv'
  <2>1. /\ call' \in [pc : Stages, device : Devices \union {None}, polls : Nat, idle : Nat,
                       known : SUBSET Nat, collected : Seq(Nat), subscribed : BOOLEAN,
                       result : Outcomes]
        /\ call'.pc = "sleep" /\ call'.device = call.device /\ call'.collected = c
        /\ call'.known = call.known /\ call'.subscribed = call.subscribed /\ call'.result = None
    BY <1>1, <1>6 DEF RemoteInv, RemoteTypeOK, Stages
  <2>2. SummaryIsFaithful'
    BY <2>1 DEF SummaryIsFaithful, None
  <2> QED BY <1>1, <1>2, <2>1, <2>2 DEF RemoteInv, RemoteTypeOK, None
<1> DEFINE answered == \E k \in DOMAIN call.collected : call.collected[k] # 1
           quiet == IF answered THEN call.idle + 1 ELSE call.idle
<1>7. quiet \in Nat
  BY <1>2
<1> HIDE DEF n
<1>8. \/ call' = [call EXCEPT !.pc = "sleep", !.idle = 0, !.known = @ \cup ToSet(new),
                             !.collected = @ \o new]
      \/ Return("summary") \/ Return("error")
      \/ call' = [call EXCEPT !.pc = "sleep", !.idle = quiet]
  BY DEF Poll
<1> HIDE DEF quiet, new
<1> QED BY <1>4, <1>5, <1>6, <1>7, <1>8

LEMMA RemoteInvKept ==
  ASSUME RemoteInv, [RemoteNext]_remoteVars
  PROVE  RemoteInv'
<1>1. CASE UNCHANGED remoteVars
  BY <1>1 DEF remoteVars, RemoteInv, RemoteTypeOK, SummaryIsFaithful
<1> QED BY <1>1, RemoteWritesKeeps, RequestsKeep, WaitsKeep, PollKeeps DEF RemoteNext, RemoteContinues

-----------------------------------------------------------------------------
(* Delegation on one device *)

LEMMA TaskSteps ==
  ASSUME [Next]_agentVars
  PROVE  [TaskNext]_taskVars
<1>1. CASE UNCHANGED agentVars
  BY <1>1 DEF agentVars
<1>2. CASE Next
  BY <1>2 DEF Next
<1> QED BY <1>1, <1>2

TaskTypeOK ==
    /\ ms \in Nat
    /\ task \in [Turns -> [st : {"unused", "running", "ended"}, parent : Turns, background : BOOLEAN,
                            conv : [kind : {"task", "spawn"}, agent : Agents, ms : Nat],
                            round : Nat, rounds : Nat]]

\* The user's turn was started, no turn that was delegated waits for itself, and a turn that is
\* waited for belongs to the last round of the one that waits.
TaskInv ==
    /\ TaskTypeOK
    /\ task[Root].st # "unused"
    /\ \A u \in Turns \ {Root} :
         /\ task[u].st = "running" => task[u].parent \in Turns \ {u}
         /\ task[u].st = "running" /\ ~task[u].background =>
              /\ task[task[u].parent].st = "running"
              /\ task[u].round = task[task[u].parent].rounds

LEMMA TaskInitially ==
  ASSUME TaskInit
  PROVE  TaskInv
<1>1. TaskTypeOK
  BY TaskAssumption DEF TaskInit, TaskTypeOK
<1> QED BY <1>1, TaskAssumption DEF TaskInit, TaskInv

LEMMA DelegateKeeps ==
  ASSUME TaskInv, NEW t \in Turns, NEW round \in SUBSET Turns, Delegate(t, round)
  PROVE  TaskInv'
<1> PICK calls \in [round -> TaskCalls(t) \union SpawnCalls] :
      task' = [u \in Turns |->
        IF u \in round
          THEN [st |-> "running", conv |-> Conversation(calls[u].kind, calls[u].agent),
                parent |-> t, background |-> calls[u].background,
                round |-> task[t].rounds + 1, rounds |-> 0]
        ELSE IF u = t THEN [task[t] EXCEPT !.rounds = task[t].rounds + 1] ELSE task[u]]
  BY DEF Delegate
<1>0. TaskTypeOK'
  <2>1. \A u \in round :
          calls[u] \in [kind : {"task", "spawn"}, agent : Agents, background : BOOLEAN]
    BY DEF TaskCalls, SpawnCalls
  <2>2. task[t] \in [st : {"unused", "running", "ended"}, parent : Turns, background : BOOLEAN,
                     conv : [kind : {"task", "spawn"}, agent : Agents, ms : Nat],
                     round : Nat, rounds : Nat]
    BY DEF TaskInv, TaskTypeOK
  <2> QED BY <2>1, <2>2 DEF Delegate, Conversation, TaskInv, TaskTypeOK
<1>1. task[t].st = "running" /\ t \notin round /\ Root \notin round
  BY DEF Delegate, TaskInv
<1>2. /\ \A u \in Turns \ (round \union {t}) : task'[u] = task[u]
      /\ task'[t] = [task[t] EXCEPT !.rounds = task[t].rounds + 1]
      /\ \A u \in round : /\ task'[u].st = "running" /\ task'[u].parent = t
                          /\ task'[u].round = task[t].rounds + 1
  BY <1>1
<1>3. PICK n : n = task[t].rounds + 1
  OBVIOUS
<1>4. \A u \in Turns \ {Root} : task[u].st = "running" /\ ~task[u].background => task[u].parent # t
  <2>1. \A u \in Turns \ {t} : ~(task[u].st = "running" /\ task[u].parent = t /\ ~task[u].background)
    BY DEF Delegate, Blocked
  <2>2. \A u \in Turns \ {Root} : task[u].st = "running" => task[u].parent # u
    BY DEF TaskInv
  <2> QED BY <2>1, <2>2
<1>5. /\ task'[t].st = task[t].st /\ task'[t].parent = task[t].parent
      /\ task'[t].background = task[t].background /\ task'[t].round = task[t].round
  BY <1>2 DEF TaskInv, TaskTypeOK
<1>8. task'[t].rounds = n
  BY <1>2, <1>3 DEF TaskInv, TaskTypeOK
<1>7. ASSUME NEW u \in Turns \ {Root}, task'[u].st = "running"
      PROVE  /\ task'[u].parent \in Turns \ {u}
             /\ ~task'[u].background => /\ task'[task'[u].parent].st = "running"
                                        /\ task'[u].round = task'[task'[u].parent].rounds
  <2>1. CASE u \in round
    <3>1. task'[t].st = "running" /\ task'[u].parent = t /\ u # t
      BY <1>1, <1>2, <1>5, <2>1
    <3> QED BY <1>2, <1>3, <1>8, <2>1, <3>1
  <2>2. CASE u \notin round
    <3>1. /\ task'[u].st = task[u].st /\ task'[u].parent = task[u].parent
          /\ task'[u].background = task[u].background /\ task'[u].round = task[u].round
      BY <1>2, <1>5, <2>2
    <3> SUFFICES ASSUME ~task[u].background
                 PROVE  /\ task'[task[u].parent].st = "running"
                        /\ task[u].round = task'[task[u].parent].rounds
      BY <1>7, <3>1 DEF TaskInv
    <3>2. /\ task[u].parent \in Turns /\ task[u].parent # t
          /\ task[task[u].parent].st = "running"
          /\ task[u].round = task[task[u].parent].rounds
      BY <1>4, <1>7, <3>1 DEF TaskInv
    <3>3. task[u].parent \notin round
      BY <3>2 DEF Delegate
    <3> QED BY <1>2, <3>2, <3>3
  <2> QED BY <2>1, <2>2
<1>9. task'[Root].st # "unused"
  BY <1>1, <1>2, <1>5, TaskAssumption DEF TaskInv
<1> QED BY <1>0, <1>7, <1>9 DEF TaskInv

LEMMA TaskInvKept ==
  ASSUME TaskInv, [TaskNext]_taskVars
  PROVE  TaskInv'
<1>1. CASE UNCHANGED taskVars
  BY <1>1 DEF taskVars, TaskInv, TaskTypeOK
<1>2. ASSUME NEW t \in Turns, EndTurn(t) PROVE TaskInv'
  <2>1. /\ TaskTypeOK' /\ \A v \in Turns \ {t} : task'[v] = task[v]
        /\ task'[t].st = "ended" /\ task'[t].rounds = task[t].rounds
    BY <1>2 DEF EndTurn, TaskInv, TaskTypeOK
  <2>2. \A v \in Turns \ {t} : ~(task[v].st = "running" /\ task[v].parent = t /\ ~task[v].background)
    BY <1>2 DEF EndTurn, Blocked
  <2> QED BY <2>1, <2>2, TaskAssumption DEF TaskInv
<1>3. CASE PassMs
  BY <1>3 DEF PassMs, TaskInv, TaskTypeOK
<1> QED BY <1>1, <1>2, <1>3, DelegateKeeps DEF TaskNext

LEMMA TasksHold == TaskInv => ForegroundIsAwaited
  BY DEF TaskInv, ForegroundIsAwaited

-----------------------------------------------------------------------------
(* The quality gate *)

LEMMA ScriptSteps ==
  ASSUME [Next]_agentVars
  PROVE  [ScriptNext]_scriptVars
<1>1. CASE UNCHANGED agentVars
  BY <1>1 DEF agentVars
<1>2. CASE Next
  BY <1>2 DEF Next
<1> QED BY <1>1, <1>2

MemberStates == {"waiting", "running", "done", "failed", "skipped"}
BatchMembers == [st : MemberStates, text : Seq({"approved", "other"})]
Phases == {"off", "started", "work", "worked", "review", "reviewed", "draining", "ended"}

\* A batch that was started at once: all of its agents, or none of them.
AllOrNone(b) ==
    \/ \A i \in DOMAIN b : b[i].st = "skipped"
    \/ \A i \in DOMAIN b : b[i].st \notin {"skipped", "waiting"}

\* The agents b of the batch that the script, in state s, has under way or behind it.
BatchOk(s, b) ==
    /\ b \in Seq(BatchMembers)
    /\ s.pc \notin {"work", "review"} => \A i \in DOMAIN b : Settled(b[i].st)
    /\ s.pc = "work" /\ s.mode = "parallel" =>
         \A i \in DOMAIN b : b[i].st \notin {"skipped", "waiting"}
    /\ s.pc \in {"review", "reviewed"} =>
         /\ Len(b) = Len(Reviewers)
         /\ s.reviewMode = "parallel" => AllOrNone(b)
    /\ cancels = 0 => \A i \in DOMAIN b : b[i].st # "skipped"

\* What the script has noted.
ScriptEnds == {"none", "missing", "unconfigured", "limit", "approved"}
Attempts == [done : SUBSET Nat, failed : SUBSET Nat, skipped : SUBSET Nat]
Notes == [pc : Phases, mode : Modes, reviewMode : Modes, iteration : Nat, attempt : Attempts,
          outcome : ScriptEnds]
NotesOk(s) ==
    /\ s \in Notes
    /\ s.pc = "off" => s.attempt = NoBatch
    /\ s.mode = "parallel" \/ cancels = 0 => s.attempt.skipped = {}
    /\ s.outcome = "approved" => s.pc \in {"draining", "ended"}

ApprovedOk(g) ==
    gate[g].outcome = "approved" =>
        (gate[g].reviewMode = "parallel" \/ cancels = 0 => AllApproved(g))

GateOk(g) == BatchOk(gate[g], child[g]) /\ NotesOk(gate[g]) /\ ApprovedOk(g)

ScriptInv ==
    /\ gate \in [Gates -> Notes] /\ child \in [Gates -> Seq(BatchMembers)]
    /\ cancelled \in BOOLEAN /\ cancels \in Nat /\ (cancels = 0 => ~cancelled)
    /\ \A g \in Gates : GateOk(g)

LEMMA ScriptInitially ==
  ASSUME ScriptInit
  PROVE  ScriptInv
<1> DEFINE s == [pc |-> "off", mode |-> "parallel", reviewMode |-> "parallel",
                 iteration |-> 0, attempt |-> NoBatch, outcome |-> "none"]
<1>1. NoBatch \in Attempts /\ NoBatch.skipped = {}
  BY DEF NoBatch, Attempts
<1>2. /\ s \in Notes /\ s.pc = "off" /\ s.attempt = NoBatch /\ s.outcome = "none"
  <2>1. "off" \in Phases /\ "parallel" \in Modes /\ 0 \in Nat /\ "none" \in ScriptEnds
    BY DEF Phases, Modes, ScriptEnds
  <2> QED BY <1>1, <2>1 DEF Notes
<1>3. /\ gate = [g \in Gates |-> s] /\ child = [g \in Gates |-> <<>>] /\ cancelled = FALSE
      /\ cancels = 0
  BY DEF ScriptInit
<1> HIDE DEF s
<1>4. gate \in [Gates -> Notes] /\ child \in [Gates -> Seq(BatchMembers)]
  BY <1>2, <1>3
<1>5. ASSUME NEW g \in Gates PROVE GateOk(g)
  <2>1. gate[g] = s /\ child[g] = <<>> /\ DOMAIN child[g] = {} /\ child[g] \in Seq(BatchMembers)
    BY <1>3
  <2>2. BatchOk(gate[g], child[g])
    BY <1>2, <2>1 DEF BatchOk
  <2>3. NotesOk(gate[g])
    BY <1>1, <1>2, <2>1 DEF NotesOk
  <2>4. ApprovedOk(g)
    BY <1>2, <2>1 DEF ApprovedOk
  <2> QED BY <2>2, <2>3, <2>4 DEF GateOk
<1> QED BY <1>3, <1>4, <1>5 DEF ScriptInv

LEMMA ScriptHolds == ScriptInv => ApprovalIsWhole /\ NoStrayChildren
<1> SUFFICES ASSUME ScriptInv PROVE ApprovalIsWhole /\ NoStrayChildren
  OBVIOUS
<1>1. ApprovalIsWhole
  BY DEF ScriptInv, GateOk, NotesOk, ApprovedOk, ApprovalIsWhole
<1>2. NoStrayChildren
  BY DEF ScriptInv, GateOk, BatchOk, NoStrayChildren, Members, Settled
<1> QED BY <1>1, <1>2

\* A gate that does not move stays as it should be, unless the host cancels, which asks less.
LEMMA OtherGates ==
  ASSUME ScriptInv, NEW h \in Gates, gate'[h] = gate[h], child'[h] = child[h],
         cancels' \in Nat, cancels' = 0 => cancels = 0
  PROVE  GateOk(h)'
  BY DEF ScriptInv, GateOk, BatchOk, NotesOk, ApprovedOk, AllApproved, AllOrNone, Approves, Settled

\* A gate moves to another state s with a batch b.
LEMMA GateMoves ==
  ASSUME ScriptInv, NEW g \in Gates, NEW s, NEW b,
         gate' = [gate EXCEPT ![g] = s], child' = [child EXCEPT ![g] = b],
         cancels' = cancels, cancelled' \in BOOLEAN, cancels = 0 => ~cancelled',
         BatchOk(s, b), NotesOk(s),
         s.outcome = "approved" => (s.reviewMode = "parallel" \/ cancels = 0 =>
             /\ Len(b) = Len(Reviewers)
             /\ \A i \in DOMAIN b : b[i].st = "done" /\ Approves(b[i].text))
  PROVE  ScriptInv'
<1>1. s \in Notes /\ b \in Seq(BatchMembers)
  BY DEF NotesOk, BatchOk
<1>2. /\ gate' \in [Gates -> Notes] /\ child' \in [Gates -> Seq(BatchMembers)]
      /\ gate'[g] = s /\ child'[g] = b /\ cancels' \in Nat
      /\ \A h \in Gates \ {g} : gate'[h] = gate[h] /\ child'[h] = child[h]
  BY <1>1 DEF ScriptInv
<1>3. GateOk(g)'
  <2>1. BatchOk(gate[g], child[g])'
    BY <1>2 DEF BatchOk, AllOrNone, Settled
  <2>2. NotesOk(gate[g])'
    BY <1>2 DEF NotesOk
  <2>3. ApprovedOk(g)'
    BY <1>2 DEF ApprovedOk, AllApproved, Approves
  <2> QED BY <2>1, <2>2, <2>3 DEF GateOk
<1>4. ASSUME NEW h \in Gates \ {g} PROVE GateOk(h)'
  BY <1>2, <1>4, OtherGates
<1> QED BY <1>2, <1>3, <1>4 DEF ScriptInv

\* A batch of n agents that begins now.
LEMMA BatchBegins ==
  ASSUME NEW agents \in Seq(STRING), NEW mode \in Modes
  PROVE  LET b == Batch(agents, mode)
         IN /\ b \in Seq(BatchMembers) /\ Len(b) = Len(agents) /\ DOMAIN b = 1..Len(agents)
            /\ \A i \in DOMAIN b : b[i].st = "skipped" <=> cancelled
            /\ mode = "parallel" => \A i \in DOMAIN b : b[i].st # "waiting"
<1> DEFINE b == Batch(agents, mode)
<1>1. DOMAIN b = 1..Len(agents) /\ Len(agents) \in Nat
  BY DEF Batch
<1>2. ASSUME NEW i \in 1..Len(agents)
      PROVE  /\ b[i] \in BatchMembers /\ (b[i].st = "skipped" <=> cancelled)
             /\ mode = "parallel" => b[i].st # "waiting"
  BY <1>2 DEF Batch, BatchMembers, MemberStates
<1>3. b = [i \in 1..Len(agents) |-> b[i]]
  BY <1>1 DEF Batch
<1> HIDE DEF b
<1>4. b \in Seq(BatchMembers) /\ Len(b) = Len(agents)
  BY <1>1, <1>2, <1>3, IsSeqOf
<1>5. \A i \in DOMAIN b : b[i].st = "skipped" <=> cancelled
  BY <1>1, <1>2
<1>6. mode = "parallel" => \A i \in DOMAIN b : b[i].st # "waiting"
  BY <1>1, <1>2
<1> QED BY <1>1, <1>4, <1>5, <1>6 DEF b

\* The next iteration begins, or the script returns.
LEMMA NextIterationKeeps ==
  ASSUME ScriptInv, NEW g \in Gates, NextIteration(g, gate[g]), UNCHANGED <<cancelled, cancels>>,
         gate[g].pc \in {"started", "worked", "reviewed"}
  PROVE  ScriptInv'
<1> DEFINE s == gate[g]
<1>1. /\ BatchOk(s, child[g]) /\ NotesOk(s) /\ cancelled \in BOOLEAN /\ cancels \in Nat
      /\ cancels = 0 => ~cancelled
      /\ gate = [gate EXCEPT ![g] = s] /\ child = [child EXCEPT ![g] = child[g]]
      /\ s.outcome # "approved" /\ s.pc # "off"
  BY DEF ScriptInv, GateOk, NotesOk
<1>2. CASE s.iteration = MaxIterations \/ cancelled
  <2> DEFINE t == [s EXCEPT !.pc = "draining", !.outcome = "limit"]
  <2>1. gate' = [gate EXCEPT ![g] = t] /\ child' = child
    BY <1>2 DEF NextIteration
  <2>2. t.pc = "draining" /\ t.outcome = "limit" /\ t.mode = s.mode /\ t.attempt = s.attempt
    BY <1>1 DEF NotesOk, Notes
  <2>3. NotesOk(t)
    <3>1. t \in Notes
      <4>1. "draining" \in Phases /\ "work" \in Phases /\ "limit" \in ScriptEnds
        BY DEF Phases, ScriptEnds
      <4>2. s \in Notes /\ s.iteration + 1 \in Nat
        BY <1>1 DEF NotesOk, Notes
      <4> HIDE DEF s
      <4> QED BY <4>1, <4>2 DEF Notes
    <3> QED BY <1>1, <2>2, <3>1 DEF NotesOk
  <2>4. BatchOk(t, child[g])
    BY <1>1, <2>2 DEF BatchOk
  <2> HIDE DEF t, s
  <2>5. child' = [child EXCEPT ![g] = child[g]]
    BY <1>1, <2>1
  <2> QED BY <1>1, <2>1, <2>2, <2>3, <2>4, <2>5, GateMoves
<1>3. CASE ~(s.iteration = MaxIterations \/ cancelled)
  <2> DEFINE t == [s EXCEPT !.pc = "work", !.iteration = @ + 1]
             agents == IF s.iteration = 0 THEN Workers ELSE Fixers
             b == Batch(agents, s.mode)
  <2>1. gate' = [gate EXCEPT ![g] = t] /\ child' = [child EXCEPT ![g] = b]
    BY <1>3 DEF NextIteration
  <2>2. /\ t.pc = "work" /\ t.outcome = s.outcome /\ t.mode = s.mode /\ t.attempt = s.attempt
    BY <1>1 DEF NotesOk, Notes
  <2>3. NotesOk(t)
    <3>1. t \in Notes
      <4>1. "draining" \in Phases /\ "work" \in Phases /\ "limit" \in ScriptEnds
        BY DEF Phases, ScriptEnds
      <4>2. s \in Notes /\ s.iteration + 1 \in Nat
        BY <1>1 DEF NotesOk, Notes
      <4> HIDE DEF s
      <4> QED BY <4>1, <4>2 DEF Notes
    <3> QED BY <1>1, <2>2, <3>1 DEF NotesOk
  <2>4. agents \in Seq(STRING) /\ s.mode \in Modes
    BY <1>1, ScriptAssumption DEF NotesOk, Notes
  <2> HIDE DEF agents
  <2>5. /\ b \in Seq(BatchMembers) /\ \A i \in DOMAIN b : b[i].st # "skipped"
        /\ s.mode = "parallel" => \A i \in DOMAIN b : b[i].st # "waiting"
    BY <1>3, <2>4, BatchBegins
  <2> HIDE DEF b, t, s
  <2>6. BatchOk(t, b)
    BY <2>2, <2>5 DEF BatchOk
  <2> QED BY <1>1, <2>1, <2>2, <2>3, <2>6, GateMoves
<1> QED BY <1>2, <1>3

LEMMA StartGateKeeps ==
  ASSUME ScriptInv, NEW g \in Gates, StartGate(g)
  PROVE  ScriptInv'
<1> DEFINE s == gate[g]
<1>1. /\ BatchOk(s, child[g]) /\ NotesOk(s) /\ cancelled' = FALSE /\ cancels' = cancels
      /\ s.pc = "off" /\ s.outcome # "approved" /\ s.attempt = NoBatch
      /\ child' = [child EXCEPT ![g] = child[g]]
  BY DEF ScriptInv, GateOk, NotesOk, StartGate
<1>2. NoBatch.skipped = {}
  BY DEF NoBatch
<1>3. CASE gate' = [gate EXCEPT ![g].pc = "draining", ![g].outcome = "missing"]
  <2> DEFINE t == [s EXCEPT !.pc = "draining", !.outcome = "missing"]
  <2>1. gate' = [gate EXCEPT ![g] = t]
    BY <1>3 DEF ScriptInv
  <2>2. t.pc = "draining" /\ t.outcome = "missing" /\ t.attempt = s.attempt
    BY <1>1 DEF NotesOk, Notes
  <2>3. NotesOk(t)
    <3>1. t \in Notes
      <4>1. "draining" \in Phases /\ "started" \in Phases /\ "missing" \in ScriptEnds
        BY DEF Phases, ScriptEnds
      <4>2. s \in Notes
        BY <1>1 DEF NotesOk
      <4> HIDE DEF s
      <4> QED BY <4>1, <4>2 DEF Notes
    <3> QED BY <1>1, <1>2, <2>2, <3>1 DEF NotesOk
  <2>4. BatchOk(t, child[g])
    BY <1>1, <2>2 DEF BatchOk
  <2> HIDE DEF t, s
  <2> QED BY <1>1, <2>1, <2>2, <2>3, <2>4, GateMoves
<1>4. ASSUME NEW m \in Modes, NEW r \in Modes,
             gate' = [gate EXCEPT ![g].pc = "started", ![g].mode = m, ![g].reviewMode = r]
      PROVE  ScriptInv'
  <2> DEFINE t == [s EXCEPT !.pc = "started", !.mode = m, !.reviewMode = r]
  <2>1. gate' = [gate EXCEPT ![g] = t]
    BY <1>4 DEF ScriptInv
  <2>2. t.pc = "started" /\ t.outcome = s.outcome /\ t.attempt = s.attempt
    BY <1>1 DEF NotesOk, Notes
  <2>3. NotesOk(t)
    <3>1. t \in Notes
      <4>1. "draining" \in Phases /\ "started" \in Phases /\ "missing" \in ScriptEnds
        BY DEF Phases, ScriptEnds
      <4>2. s \in Notes
        BY <1>1 DEF NotesOk
      <4> HIDE DEF s
      <4> QED BY <4>1, <4>2 DEF Notes
    <3> QED BY <1>1, <1>2, <2>2, <3>1 DEF NotesOk
  <2>4. BatchOk(t, child[g])
    BY <1>1, <2>2 DEF BatchOk
  <2> HIDE DEF t, s
  <2> QED BY <1>1, <2>1, <2>2, <2>3, <2>4, GateMoves
<1> QED BY <1>3, <1>4 DEF StartGate

\* The script goes on without a new batch; what it notes and whether it approves is given.
LEMMA ScriptMoves ==
  ASSUME ScriptInv, NEW g \in Gates, NEW s, gate' = [gate EXCEPT ![g] = s], child' = child,
         cancels' = cancels, cancelled' = cancelled, NotesOk(s), BatchOk(s, child[g]),
         s.outcome = "approved" => (s.reviewMode = "parallel" \/ cancels = 0 => AllApproved(g))
  PROVE  ScriptInv'
<1>1. child' = [child EXCEPT ![g] = child[g]] /\ cancelled \in BOOLEAN /\ (cancels = 0 => ~cancelled)
  BY DEF ScriptInv
<1> QED BY <1>1, GateMoves DEF AllApproved

\* A batch of which everything has settled resolves to the numbers of its agents.
LEMMA ResultOfBatch ==
  ASSUME NEW g \in Gates, child[g] \in Seq(BatchMembers)
  PROVE  BatchResult(g) \in Attempts /\ BatchResult(g).skipped = Members(g, "skipped")
<1>1. \A st : Members(g, st) \subseteq Nat
  BY DEF Members
<1> QED BY <1>1 DEF BatchResult, Attempts

LEMMA GateStepKeeps ==
  ASSUME ScriptInv, NEW g \in Gates, GateStep(g)
  PROVE  ScriptInv'
<1> DEFINE s == gate[g]
           b == child[g]
<1>1. /\ BatchOk(s, b) /\ NotesOk(s) /\ ApprovedOk(g) /\ s \in Notes /\ gate \in [Gates -> Notes]
      /\ cancelled \in BOOLEAN /\ cancels \in Nat /\ (cancels = 0 => ~cancelled)
  BY DEF ScriptInv, GateOk
<1>2. ASSUME NEW pc \in Phases, NEW o \in ScriptEnds, gate' = [gate EXCEPT ![g].pc = pc, ![g].outcome = o]
      PROVE  LET t == [s EXCEPT !.pc = pc, !.outcome = o]
             IN /\ gate' = [gate EXCEPT ![g] = t] /\ t \in Notes /\ t.pc = pc /\ t.outcome = o
                /\ t.mode = s.mode /\ t.reviewMode = s.reviewMode /\ t.attempt = s.attempt
  BY <1>1, <1>2 DEF Notes
<1>3. ASSUME NEW pc \in Phases, gate' = [gate EXCEPT ![g].pc = pc]
      PROVE  LET t == [s EXCEPT !.pc = pc]
             IN /\ gate' = [gate EXCEPT ![g] = t] /\ t \in Notes /\ t.pc = pc /\ t.outcome = s.outcome
                /\ t.mode = s.mode /\ t.reviewMode = s.reviewMode /\ t.attempt = s.attempt
  BY <1>1, <1>3 DEF Notes
<1>4. ASSUME NEW o \in ScriptEnds, FinishScript(g, o), UNCHANGED <<cancelled, cancels>>,
             s.pc \in {"started", "reviewed"},
             o = "approved" => (s.reviewMode = "parallel" \/ cancels = 0 => AllApproved(g))
      PROVE  ScriptInv'
  <2> DEFINE t == [s EXCEPT !.pc = "draining", !.outcome = o]
  <2>1. "draining" \in Phases /\ gate' = [gate EXCEPT ![g].pc = "draining", ![g].outcome = o]
    BY <1>4 DEF Phases, FinishScript
  <2>2. /\ gate' = [gate EXCEPT ![g] = t] /\ t \in Notes /\ t.pc = "draining" /\ t.outcome = o
        /\ t.mode = s.mode /\ t.reviewMode = s.reviewMode /\ t.attempt = s.attempt
    BY <1>2, <2>1
  <2> HIDE DEF t, s
  <2>3. NotesOk(t) /\ BatchOk(t, b)
    BY <1>1, <1>4, <2>2 DEF NotesOk, BatchOk
  <2> QED BY <1>4, <2>2, <2>3, ScriptMoves DEF FinishScript, b
<1>5. CASE BeginScript(g)
  BY <1>4, <1>5, NextIterationKeeps DEF BeginScript, ScriptEnds
<1>6. CASE NextInOrder(g)
  <2> PICK first : child' = [child EXCEPT ![g] =
             [i \in DOMAIN @ |->
                 IF cancelled /\ @[i].st = "waiting" THEN [@[i] EXCEPT !.st = "skipped"]
                 ELSE IF i = first THEN [@[i] EXCEPT !.st = "running"]
                 ELSE @[i]]]
    BY <1>6 DEF NextInOrder
  <2> DEFINE c == [i \in DOMAIN b |->
                 IF cancelled /\ b[i].st = "waiting" THEN [b[i] EXCEPT !.st = "skipped"]
                 ELSE IF i = first THEN [b[i] EXCEPT !.st = "running"]
                 ELSE b[i]]
  <2>1. /\ child' = [child EXCEPT ![g] = c] /\ UNCHANGED <<gate, cancelled, cancels>>
        /\ s.pc \in {"work", "review"} /\ \E i \in DOMAIN b : b[i].st = "waiting"
    BY <1>6 DEF NextInOrder, ScriptInv, Members
  <2>2. /\ b \in [1..Len(b) -> BatchMembers] /\ Len(b) \in Nat /\ DOMAIN b = 1..Len(b)
    BY <1>1 DEF BatchOk
  <2>3. ASSUME NEW i \in DOMAIN b
        PROVE  c[i] \in BatchMembers /\ (~cancelled /\ b[i].st # "skipped" => c[i].st # "skipped")
    BY <2>2, <2>3 DEF BatchMembers, MemberStates
  <2>4. DOMAIN c = 1..Len(b) /\ c = [i \in 1..Len(b) |-> c[i]]
    BY <2>2
  <2> HIDE DEF c
  <2>5. c \in Seq(BatchMembers) /\ Len(c) = Len(b) /\ DOMAIN c = DOMAIN b
    BY <2>2, <2>3, <2>4, IsSeqOf
  <2>6. /\ s.pc = "work" => s.mode # "parallel"
        /\ s.pc = "review" => s.reviewMode # "parallel"
    BY <1>1, <2>1 DEF BatchOk, AllOrNone
  <2>7. BatchOk(s, c)
    BY <1>1, <2>1, <2>3, <2>5, <2>6 DEF BatchOk
  <2>8. gate' = [gate EXCEPT ![g] = s] /\ s.outcome # "approved"
    BY <1>1, <2>1 DEF NotesOk
  <2> HIDE DEF s
  <2> QED BY <1>1, <2>1, <2>7, <2>8, GateMoves
<1>7. CASE WorkDone(g)
  <2> DEFINE r == BatchResult(g)
             t == [s EXCEPT !.pc = "worked", !.attempt = r]
  <2>1. /\ r \in Attempts /\ r.skipped = Members(g, "skipped") /\ "worked" \in Phases
        /\ s.pc = "work" /\ BatchOver(g) /\ UNCHANGED <<child, cancelled, cancels>>
    BY <1>1, <1>7, ResultOfBatch DEF WorkDone, BatchOk, Phases
  <2>2. gate' = [gate EXCEPT ![g] = t]
    BY <1>1, <1>7 DEF WorkDone
  <2> HIDE DEF r
  <2>3. t \in Notes /\ t.pc = "worked" /\ t.outcome = s.outcome /\ t.mode = s.mode /\ t.attempt = r
    BY <1>1, <2>1 DEF Notes
  <2> HIDE DEF t, s
  <2>4. NotesOk(t)
    BY <1>1, <2>1, <2>3 DEF NotesOk, BatchOk, Members
  <2>5. BatchOk(t, b)
    BY <1>1, <2>1, <2>3 DEF BatchOk, BatchOver
  <2> QED BY <1>1, <2>1, <2>2, <2>3, <2>4, <2>5, ScriptMoves DEF NotesOk, b
<1>8. CASE AskReview(g)
  <2> DEFINE t == [s EXCEPT !.pc = "review"]
             c == Batch(Reviewers, s.reviewMode)
  <2>1. CASE NextIteration(g, s)
    BY <1>8, <2>1, NextIterationKeeps DEF AskReview
  <2>2. CASE gate' = [gate EXCEPT ![g].pc = "review"] /\ child' = [child EXCEPT ![g] = c]
    <3>1. "review" \in Phases /\ s.pc = "worked" /\ UNCHANGED <<cancelled, cancels>>
      BY <1>8 DEF AskReview, Phases
    <3>2. /\ gate' = [gate EXCEPT ![g] = t] /\ t \in Notes /\ t.pc = "review" /\ t.outcome = s.outcome
          /\ t.mode = s.mode /\ t.reviewMode = s.reviewMode /\ t.attempt = s.attempt
      BY <1>3, <2>2, <3>1
    <3>3. s.reviewMode \in Modes /\ Reviewers \in Seq(STRING)
      BY <1>1, ScriptAssumption DEF Notes
    <3>4. /\ c \in Seq(BatchMembers) /\ Len(c) = Len(Reviewers)
          /\ \A i \in DOMAIN c : c[i].st = "skipped" <=> cancelled
          /\ s.reviewMode = "parallel" => \A i \in DOMAIN c : c[i].st # "waiting"
      BY <3>3, BatchBegins
    <3> HIDE DEF c, t, s
    <3>5. NotesOk(t)
      BY <1>1, <3>1, <3>2 DEF NotesOk
    <3>6. BatchOk(t, c)
      BY <1>1, <3>1, <3>2, <3>4 DEF BatchOk, AllOrNone
    <3> QED BY <1>1, <2>2, <3>1, <3>2, <3>5, <3>6, GateMoves DEF NotesOk
  <2> QED BY <1>8, <2>1, <2>2 DEF AskReview
<1>9. CASE ReviewDone(g)
  <2> DEFINE t == [s EXCEPT !.pc = "reviewed"]
  <2>1. /\ "reviewed" \in Phases /\ gate' = [gate EXCEPT ![g].pc = "reviewed"]
        /\ s.pc = "review" /\ BatchOver(g) /\ UNCHANGED <<child, cancelled, cancels>>
    BY <1>9 DEF ReviewDone, Phases
  <2>2. /\ gate' = [gate EXCEPT ![g] = t] /\ t \in Notes /\ t.pc = "reviewed" /\ t.outcome = s.outcome
        /\ t.mode = s.mode /\ t.reviewMode = s.reviewMode /\ t.attempt = s.attempt
    BY <1>3, <2>1
  <2> HIDE DEF t, s
  <2>3. NotesOk(t)
    BY <1>1, <2>1, <2>2 DEF NotesOk
  <2>4. BatchOk(t, b)
    BY <1>1, <2>1, <2>2 DEF BatchOk, BatchOver
  <2> QED BY <1>1, <2>1, <2>2, <2>3, <2>4, ScriptMoves DEF NotesOk, b
<1>10. CASE Judge(g)
  <2>1. s.pc = "reviewed" /\ UNCHANGED <<cancelled, cancels>>
    BY <1>10 DEF Judge
  <2>2. CASE Approved(g)
    <3>1. FinishScript(g, "approved") /\ "approved" \in ScriptEnds
      BY <1>10, <2>2 DEF Judge, ScriptEnds
    <3>2. ASSUME s.reviewMode = "parallel" \/ cancels = 0 PROVE AllApproved(g)
      <4>1. /\ \A i \in DOMAIN b : b[i].st # "failed" /\ Settled(b[i].st)
            /\ \E i \in DOMAIN b : b[i].st = "done"
            /\ \A i \in DOMAIN b : b[i].st = "done" => Approves(b[i].text)
        BY <1>1, <2>1, <2>2 DEF Approved, Members, BatchOk
      <4>2. \A i \in DOMAIN b : b[i].st # "skipped"
        BY <1>1, <2>1, <3>2, <4>1 DEF BatchOk, AllOrNone
      <4> QED BY <1>1, <2>1, <4>1, <4>2 DEF AllApproved, Settled, BatchOk
    <3> QED BY <1>4, <2>1, <3>1, <3>2
  <2>3. CASE NextIteration(g, s)
    BY <2>1, <2>3, NextIterationKeeps
  <2> QED BY <1>10, <2>2, <2>3 DEF Judge
<1>11. CASE Drain(g)
  <2> DEFINE t == [s EXCEPT !.pc = "ended"]
  <2>1. /\ "ended" \in Phases /\ gate' = [gate EXCEPT ![g].pc = "ended"]
        /\ s.pc = "draining" /\ UNCHANGED <<child, cancelled, cancels>>
    BY <1>11 DEF Drain, Phases
  <2>2. /\ gate' = [gate EXCEPT ![g] = t] /\ t \in Notes /\ t.pc = "ended" /\ t.outcome = s.outcome
        /\ t.mode = s.mode /\ t.reviewMode = s.reviewMode /\ t.attempt = s.attempt
    BY <1>3, <2>1
  <2>3. NotesOk(t)
    BY <1>1, <2>1, <2>2 DEF NotesOk
  <2>4. BatchOk(t, b)
    BY <1>1, <2>1, <2>2 DEF BatchOk
  <2>5. t.outcome = "approved" => (t.reviewMode = "parallel" \/ cancels = 0 => AllApproved(g))
    BY <1>1, <2>2 DEF ApprovedOk
  <2> HIDE DEF t, s
  <2> QED BY <2>1, <2>2, <2>3, <2>4, <2>5, ScriptMoves DEF b
<1> QED BY <1>5, <1>6, <1>7, <1>8, <1>9, <1>10, <1>11 DEF GateStep

LEMMA ChildStepKeeps ==
  ASSUME ScriptInv, NEW g \in Gates, NEW i \in DOMAIN child[g], ChildStep(g, i)
  PROVE  ScriptInv'
<1> DEFINE s == gate[g]
           b == child[g]
<1>1. /\ BatchOk(s, b) /\ NotesOk(s) /\ s \in Notes /\ gate = [gate EXCEPT ![g] = s]
      /\ cancelled \in BOOLEAN /\ (cancels = 0 => ~cancelled) /\ UNCHANGED <<gate, cancelled, cancels>>
      /\ b[i].st = "running" /\ b[i] \in BatchMembers /\ b \in Seq(BatchMembers)
  BY DEF ScriptInv, GateOk, ChildStep, ChildYields, ChildEnds, BatchOk
<1>2. PICK x \in BatchMembers : child' = [child EXCEPT ![g][i] = x] /\ x.st \in {"running", "done", "failed"}
  <2>1. ASSUME NEW st \in {"done", "failed"}
        PROVE  LET x == [b[i] EXCEPT !.st = st] IN x \in BatchMembers /\ x.st = st
    BY <1>1, <2>1 DEF BatchMembers, MemberStates
  <2>2. ASSUME NEW piece \in {"approved", "other"}
        PROVE  LET x == [b[i] EXCEPT !.text = Append(@, piece)] IN x \in BatchMembers /\ x.st = "running"
    <3>1. b[i].text \in Seq({"approved", "other"})
      BY <1>1 DEF BatchMembers
    <3>2. Append(b[i].text, piece) \in Seq({"approved", "other"})
      BY <2>2, <3>1, AppendProperties
    <3> QED BY <1>1, <3>2 DEF BatchMembers
  <2>3. CASE ChildEnds(g, i)
    BY <2>1, <2>3 DEF ChildEnds, SetChild
  <2>4. CASE ChildYields(g, i)
    <3> PICK piece \in {"approved", "other"} :
          IF cancelled
          THEN SetChild(g, i, [child[g][i] EXCEPT !.st = "failed"])
          ELSE SetChild(g, i, [child[g][i] EXCEPT !.text = Append(@, piece)])
      BY <2>4 DEF ChildYields, Chunks
    <3> QED BY <2>1, <2>2 DEF SetChild
  <2> QED BY <2>3, <2>4 DEF ChildStep
<1> DEFINE c == [b EXCEPT ![i] = x]
<1>3. child' = [child EXCEPT ![g] = c]
  BY <1>2 DEF ScriptInv
<1>4. /\ c \in Seq(BatchMembers) /\ Len(c) = Len(b) /\ DOMAIN c = DOMAIN b
      /\ \A j \in DOMAIN b : c[j] = IF j = i THEN x ELSE b[j]
  BY <1>1, <1>2
<1> HIDE DEF c
<1>5. s.pc \in {"work", "review"} /\ s.outcome # "approved"
  BY <1>1 DEF BatchOk, NotesOk, Settled
<1>6. BatchOk(s, c)
  BY <1>1, <1>2, <1>4, <1>5 DEF BatchOk, AllOrNone
<1> HIDE DEF s
<1> QED BY <1>1, <1>3, <1>5, <1>6, GateMoves

LEMMA ScriptInvKept ==
  ASSUME ScriptInv, [ScriptNext]_scriptVars
  PROVE  ScriptInv'
<1>1. ASSUME UNCHANGED <<gate, child>>, cancels' \in Nat, cancels' = 0 => cancels = 0,
             cancelled' \in BOOLEAN, cancels' = 0 => ~cancelled'
      PROVE  ScriptInv'
  BY <1>1, OtherGates DEF ScriptInv
<1>2. CASE UNCHANGED scriptVars
  BY <1>1, <1>2 DEF scriptVars, ScriptInv
<1>3. CASE CancelGates
  BY <1>1, <1>3 DEF CancelGates, ScriptInv
<1>4. CASE MessageElsewhere
  BY <1>1, <1>4 DEF MessageElsewhere, ScriptInv
<1> QED BY <1>2, <1>3, <1>4, StartGateKeeps, GateStepKeeps, ChildStepKeeps DEF ScriptNext
-----------------------------------------------------------------------------
(* Calls between devices *)

LEMMA RemoteCallSteps ==
  ASSUME [Next]_agentVars
  PROVE  [CallsNext]_callVars
<1>1. CASE UNCHANGED agentVars
  BY <1>1 DEF agentVars
<1>2. CASE Next
  BY <1>2 DEF Next
<1> QED BY <1>1, <1>2

RpcRequests == [method : Methods, conv : Conversations, def : Profiles,
                described : BOOLEAN, whole : BOOLEAN]

CallsTypeOK ==
    /\ DOMAIN sent = Requests /\ DOMAIN caller = Requests
    /\ DOMAIN serving = Requests /\ DOMAIN answer = Requests /\ DOMAIN convRows = Conversations
    /\ \A c \in Requests : caller[c] # "idle" => sent[c] \in RpcRequests
    /\ \A c \in Requests : caller[c] = "idle" => sent[c] = NoRow /\ serving[c] = "none"

Untouched(c) == c \notin appended /\ \A t \in turns : t[1] # c

\* What a call that is done has done.
Done(c) ==
    LET r == sent[c] IN
    /\ r.method = "runTurn" => (<<c, r.conv, r.def>> \in turns) # (c \in appended)
    /\ r.method = "cancel" =>
         \/ r.conv \in stopped
         \/ \E t \in turns : t[2] = r.conv
         \/ \E a \in appended : sent[a].conv = r.conv

\* A call does nothing before it sends its message; an answer that says it worked is true; the
\* message is sent when its conversation has a row.
CallOK(c) ==
    /\ serving[c] \in {"none", "describe", "check", "stub", "send", "cancel"} => Untouched(c)
    /\ serving[c] \in {"describe", "check", "stub", "send"} => sent[c].whole /\ sent[c].method = "runTurn"
    /\ serving[c] \in {"check", "stub"} => ~sent[c].described
    /\ serving[c] = "send" => convRows[sent[c].conv] # NoRow
    /\ serving[c] = "cancel" => sent[c].method = "cancel"
    /\ serving[c] = "done" => Done(c)
    /\ serving[c] = "closed" /\ answer[c].id = c /\ answer[c].ok => Done(c)
    /\ serving[c] = "closed" /\ answer[c].id # c => Untouched(c)
    /\ answer[c] # NoRow => serving[c] = "closed"
    /\ caller[c] = "result" => serving[c] = "closed" /\ answer[c].id = c /\ answer[c].ok

\* A description stays, unless a check of its conversation missed it.
DescriptionKept(c) ==
    (serving[c] = "send" \/ ~Untouched(c)) /\ sent[c].described =>
        \/ sent[c].conv \in overtaken
        \/ /\ convRows[sent[c].conv] \in Requests
           /\ \A o \in Requests : serving[o] = "stub" => sent[o].conv # sent[c].conv

TurnsOK ==
    /\ \A t \in turns : /\ t[1] \in Requests /\ t[2] = sent[t[1]].conv /\ sent[t[1]].whole
                        /\ sent[t[1]].method = "runTurn" /\ convRows[t[2]] # NoRow
    /\ \A a \in appended : a \in Requests

CallsInv ==
    /\ CallsTypeOK /\ TurnsOK
    /\ \A c \in Requests : CallOK(c) /\ DescriptionKept(c)

LEMMA CallsInitially ==
  ASSUME CallsInit
  PROVE  CallsInv
  BY DEF CallsInit, CallsInv, CallsTypeOK, TurnsOK, CallOK, DescriptionKept, Untouched

LEMMA CallsHold == CallsInv => ResultsAreTrue /\ DescriptionsStay
<1> SUFFICES ASSUME CallsInv PROVE ResultsAreTrue /\ DescriptionsStay
  OBVIOUS
<1>1. ResultsAreTrue
  <2> SUFFICES ASSUME NEW c \in Requests
               PROVE /\ caller[c] = "result" /\ sent[c].method = "runTurn" =>
                          (<<c, sent[c].conv, sent[c].def>> \in turns) # (c \in appended)
                     /\ caller[c] = "result" /\ sent[c].method = "cancel" =>
                          \/ sent[c].conv \in stopped
                          \/ \E t \in turns : t[2] = sent[c].conv
                          \/ \E a \in appended : sent[a].conv = sent[c].conv
                     /\ \A t \in turns : t[1] = c => sent[c].whole /\ sent[c].method = "runTurn"
                     /\ answer[c] # NoRow /\ answer[c].id # c =>
                          c \notin appended /\ \A t \in turns : t[1] # c
    BY DEF ResultsAreTrue
  <2>1. CallOK(c) /\ TurnsOK
    BY DEF CallsInv
  <2>2. caller[c] = "result" => Done(c)
    BY <2>1 DEF CallOK
  <2>3. answer[c] # NoRow /\ answer[c].id # c => Untouched(c)
    BY <2>1 DEF CallOK
  <2> QED BY <2>1, <2>2, <2>3 DEF Done, Untouched, TurnsOK
<1>2. DescriptionsStay
  <2>1. ASSUME NEW v \in Conversations \ overtaken, NEW t \in turns, t[2] = v, sent[t[1]].described
        PROVE  convRows[v] \in Requests
    <3>1. t[1] \in Requests /\ t[2] = sent[t[1]].conv
      BY DEF CallsInv, TurnsOK
    <3>2. DescriptionKept(t[1]) /\ ~Untouched(t[1])
      BY <3>1 DEF CallsInv, Untouched
    <3> QED BY <2>1, <3>1, <3>2 DEF DescriptionKept
  <2>2. \A t \in turns : convRows[t[2]] # NoRow
    BY DEF CallsInv, TurnsOK
  <2> QED BY <2>1, <2>2 DEF DescriptionsStay
<1> QED BY <1>1, <1>2

LEMMA CallerStepsKeep ==
  ASSUME CallsInv, NEW c \in Requests, SendRpc(c) \/ ReadResponse(c) \/ ConnectionLost(c)
  PROVE  CallsInv'
<1>1. CASE SendRpc(c)
  <2>1. /\ caller[c] = "idle" /\ serving[c] = "none" /\ Untouched(c) /\ answer[c] = NoRow
        /\ sent'[c] \in RpcRequests /\ caller'[c] = "waiting"
        /\ DOMAIN sent' = Requests /\ DOMAIN caller' = Requests
        /\ \A d \in Requests \ {c} : sent'[d] = sent[d] /\ caller'[d] = caller[d]
        /\ serving' = serving /\ answer' = answer /\ convRows' = convRows /\ turns' = turns
        /\ appended' = appended /\ stopped' = stopped /\ overtaken' = overtaken
    BY <1>1 DEF SendRpc, device, CallsInv, CallsTypeOK, CallOK, RpcRequests, Profiles
  <2>2. c \notin appended /\ (\A t \in turns : t[1] # c) /\ serving[c] = "none" /\ caller[c] = "idle"
    BY <2>1, <1>1 DEF Untouched, SendRpc, CallsInv, CallsTypeOK, CallOK
  <2>3. CallsTypeOK'
    BY <2>1, <2>2 DEF CallsInv, CallsTypeOK
  <2>4. TurnsOK'
    BY <2>1, <2>2 DEF CallsInv, TurnsOK
  <2>5. \A d \in Requests : Untouched(d)' <=> Untouched(d)
    BY <2>1 DEF Untouched
  <2>6. ASSUME NEW d \in Requests PROVE CallOK(d)' /\ DescriptionKept(d)'
    <3>1. CASE d = c
      <4>1. Untouched(c)' /\ serving'[c] = "none" /\ answer'[c] = NoRow /\ caller'[c] = "waiting"
        BY <2>1, <2>2, <2>5 DEF CallsInv, CallOK
      <4> QED BY <3>1, <4>1 DEF CallOK, DescriptionKept
    <3>2. CASE d # c
      <4>1. Done(d) => Done(d)'
        BY <2>1, <2>2, <3>2 DEF Done, CallsInv, TurnsOK
      <4>2. CallOK(d)'
        BY <2>1, <2>5, <3>2, <4>1 DEF CallsInv, CallOK
      <4>3. \A o \in Requests : serving[o] = "stub" => sent'[o] = sent[o]
        BY <2>1, <2>2
      <4>4. DescriptionKept(d)'
        BY <2>1, <2>5, <3>2, <4>3 DEF CallsInv, DescriptionKept
      <4> QED BY <4>2, <4>4
    <3> QED BY <3>1, <3>2
  <2> QED BY <2>3, <2>4, <2>6 DEF CallsInv
<1>2. CASE ReadResponse(c) \/ ConnectionLost(c)
  <2>1. /\ caller[c] = "waiting" /\ caller'[c] \in {"result", "error"} /\ DOMAIN caller' = Requests
        /\ caller'[c] = "result" => answer[c] # NoRow /\ answer[c].id = c /\ answer[c].ok
        /\ \A d \in Requests \ {c} : caller'[d] = caller[d]
        /\ sent' = sent /\ serving' = serving /\ answer' = answer /\ convRows' = convRows
        /\ turns' = turns /\ appended' = appended /\ stopped' = stopped /\ overtaken' = overtaken
    BY <1>2 DEF ReadResponse, ConnectionLost, device, CallsInv, CallsTypeOK
  <2>2. CallsTypeOK' /\ TurnsOK'
    BY <2>1 DEF CallsInv, CallsTypeOK, TurnsOK
  <2>3. ASSUME NEW d \in Requests PROVE CallOK(d)' /\ DescriptionKept(d)'
    <3>1. (Done(d)' <=> Done(d)) /\ (Untouched(d)' <=> Untouched(d))
      BY <2>1 DEF Done, Untouched
    <3> QED BY <2>1, <3>1 DEF CallsInv, CallOK, DescriptionKept
  <2> QED BY <2>2, <2>3 DEF CallsInv
<1> QED BY <1>1, <1>2

\* The call goes on to one of its next places; nothing that is stored changes.
LEMMA GoingKeeps ==
  ASSUME CallsInv, NEW c \in Requests, NEW where, Go(c, where), serving[c] # "none" \/ sent[c] # NoRow,
         UNCHANGED <<sent, caller, convRows, turns, appended, stopped>>,
         overtaken \subseteq overtaken',
         \A d \in Requests \ {c} : answer'[d] = answer[d], DOMAIN answer' = Requests,
         CallOK(c)', DescriptionKept(c)',
         where = "stub" => sent[c].conv \in overtaken' \/ convRows[sent[c].conv] \notin Requests
  PROVE  CallsInv'
<1>1. /\ DOMAIN serving' = Requests /\ serving'[c] = where
      /\ \A d \in Requests \ {c} : serving'[d] = serving[d]
  BY DEF Go, CallsInv, CallsTypeOK
<1>2. CallsTypeOK' /\ TurnsOK'
  BY <1>1 DEF CallsInv, CallsTypeOK, TurnsOK
<1>3. ASSUME NEW d \in Requests \ {c} PROVE CallOK(d)' /\ DescriptionKept(d)'
  <2>1. (Done(d)' <=> Done(d)) /\ (Untouched(d)' <=> Untouched(d))
    BY DEF Done, Untouched
  <2>2. CallOK(d)'
    BY <1>1, <2>1 DEF CallsInv, CallOK
  <2>3. DescriptionKept(d)'
    BY <1>1, <2>1 DEF CallsInv, DescriptionKept
  <2> QED BY <2>2, <2>3
<1> QED BY <1>2, <1>3 DEF CallsInv

LEMMA AnswerKeeps ==
  ASSUME CallsInv, NEW c \in Requests, NEW id, NEW ok \in BOOLEAN, WriteAnswer(c, id, ok),
         serving[c] # "none" \/ sent[c] # NoRow, UNCHANGED <<sent, caller, device>>,
         id = c /\ ok => Done(c), id # c => Untouched(c), caller[c] # "result"
  PROVE  CallsInv'
<1>1. PICK whole \in BOOLEAN : answer' = [answer EXCEPT ![c] = [id |-> id, ok |-> ok, whole |-> ok => whole]]
  BY DEF WriteAnswer
<1>2. /\ DOMAIN answer' = Requests /\ \A d \in Requests \ {c} : answer'[d] = answer[d]
      /\ answer'[c].id = id /\ answer'[c].ok = ok
  BY <1>1 DEF CallsInv, CallsTypeOK
<1>3. Go(c, "closed") /\ serving'[c] = "closed"
  BY DEF WriteAnswer, Go, CallsInv, CallsTypeOK
<1>4. (Done(c)' <=> Done(c)) /\ (Untouched(c)' <=> Untouched(c))
  BY DEF Done, Untouched, device
<1>5. CallOK(c)'
  BY <1>2, <1>3, <1>4 DEF CallOK
<1>6. DescriptionKept(c)'
  <2>1. \A o \in Requests : serving'[o] = "stub" => serving[o] = "stub"
    BY <1>3 DEF Go, CallsInv, CallsTypeOK
  <2> QED BY <1>3, <1>4, <2>1 DEF DescriptionKept, CallsInv, device
<1> QED BY <1>2, <1>3, <1>5, <1>6, GoingKeeps DEF device

LEMMA HandlingKeeps ==
  ASSUME CallsInv, NEW c \in Requests,
         HandleRpcStream(c) \/ CheckConversation(c) \/ HandlerFails(c) \/ HandlerEnds(c)
  PROVE  CallsInv'
<1>1. caller[c] = "result" => serving[c] = "closed"
  BY DEF CallsInv, CallOK
<1>2. CASE HandleRpcStream(c)
  <2>1. serving[c] = "none" /\ sent[c] # NoRow /\ sent[c] \in RpcRequests /\ Untouched(c)
    BY <1>2 DEF HandleRpcStream, CallsInv, CallsTypeOK, CallOK
  <2>2. CASE WriteAnswer(c, "unknown", FALSE) \/ WriteAnswer(c, c, FALSE)
    BY <1>1, <1>2, <2>1, <2>2, AnswerKeeps DEF HandleRpcStream
  <2>3. CASE sent[c].whole /\ sent[c].method # "other" /\ Go(c, Entry(sent[c])) /\ UNCHANGED answer
    <3>1. \/ sent[c].method = "runTurn" /\ sent[c].described /\ Entry(sent[c]) = "describe"
          \/ sent[c].method = "runTurn" /\ ~sent[c].described /\ Entry(sent[c]) = "check"
          \/ sent[c].method = "cancel" /\ Entry(sent[c]) = "cancel"
          \/ sent[c].method = "pull" /\ Entry(sent[c]) = "done"
      BY <2>1, <2>3 DEF Entry, RpcRequests, Methods
    <3>2. serving'[c] = Entry(sent[c]) /\ UNCHANGED <<sent, caller, device>>
      BY <1>2, <2>3 DEF HandleRpcStream, Go, CallsInv, CallsTypeOK
    <3>3. Untouched(c)' /\ answer[c] = NoRow
      BY <2>1, <3>2 DEF Untouched, device, CallsInv, CallOK
    <3>4. CallOK(c)'
      BY <1>1, <2>1, <2>3, <3>1, <3>2, <3>3 DEF CallOK, Done, device
    <3>5. DescriptionKept(c)'
      BY <3>1, <3>2, <3>3 DEF DescriptionKept
    <3> QED BY <2>1, <2>3, <3>1, <3>2, <3>4, <3>5, GoingKeeps DEF device, CallsInv, CallsTypeOK
  <2> QED BY <1>2, <2>2, <2>3 DEF HandleRpcStream, Readable
<1>3. CASE CheckConversation(c)
  <2>1. serving[c] = "check" /\ Untouched(c) /\ sent[c].whole /\ sent[c].method = "runTurn"
        /\ ~sent[c].described /\ answer[c] = NoRow
    BY <1>3 DEF CheckConversation, CallsInv, CallOK
  <2>2. Untouched(c)' /\ UNCHANGED <<sent, caller, answer, convRows, turns, appended, stopped>>
    BY <1>3, <2>1 DEF CheckConversation, Untouched
  <2>3. PICK where \in {"send", "stub"} :
           /\ Go(c, where) /\ overtaken \subseteq overtaken'
           /\ where = "send" => convRows[sent[c].conv] # NoRow
           /\ where = "stub" => sent[c].conv \in overtaken' \/ convRows[sent[c].conv] = NoRow
    BY <1>3 DEF CheckConversation
  <2>4. serving'[c] = where
    BY <2>3 DEF Go, CallsInv, CallsTypeOK
  <2>5. CallOK(c)' /\ DescriptionKept(c)'
    BY <1>1, <2>1, <2>2, <2>3, <2>4 DEF CallOK, DescriptionKept
  <2> QED BY <2>1, <2>2, <2>3, <2>5, GoingKeeps, CallsAssumption DEF CallsInv, CallsTypeOK
<1>4. CASE HandlerFails(c)
  BY <1>1, <1>4, AnswerKeeps DEF HandlerFails
<1>5. CASE HandlerEnds(c)
  BY <1>1, <1>5, AnswerKeeps DEF HandlerEnds, CallsInv, CallOK
<1> QED BY <1>2, <1>3, <1>4, <1>5

LEMMA RowsKeep ==
  ASSUME CallsInv, NEW c \in Requests, DescribeConversation(c) \/ StubConversation(c)
  PROVE  CallsInv'
<1> DEFINE v == sent[c].conv
<1>1. /\ serving[c] \in {"describe", "stub"} /\ Untouched(c) /\ sent[c].whole
      /\ sent[c].method = "runTurn" /\ answer[c] = NoRow /\ caller[c] # "result" /\ caller[c] # "idle"
      /\ v \in Conversations
  BY DEF DescribeConversation, StubConversation, CallsInv, CallsTypeOK, CallOK, RpcRequests
<1>2. /\ UNCHANGED <<sent, caller, answer, turns, appended, stopped>>
      /\ DOMAIN serving' = Requests /\ serving'[c] = "send"
      /\ \A d \in Requests \ {c} : serving'[d] = serving[d]
      /\ DOMAIN convRows' = Conversations
      /\ \A w \in Conversations \ {v} : convRows'[w] = convRows[w]
      /\ convRows'[v] # NoRow
      /\ serving[c] = "stub" => overtaken' = overtaken
      /\ serving[c] = "describe" =>
           /\ convRows'[v] \in Requests /\ overtaken \subseteq overtaken'
           /\ v \in overtaken' \/ \A o \in Requests : serving[o] = "stub" => sent[o].conv # v
  BY <1>1, CallsAssumption DEF DescribeConversation, StubConversation, Go, CallsInv, CallsTypeOK
<1>3. \A d \in Requests : (Done(d)' <=> Done(d)) /\ (Untouched(d)' <=> Untouched(d))
  BY <1>2 DEF Done, Untouched
<1>4. \A w : convRows[w] # NoRow /\ w \in Conversations => convRows'[w] # NoRow
  BY <1>2
<1>5. CallsTypeOK'
  BY <1>1, <1>2 DEF CallsInv, CallsTypeOK
<1>6. TurnsOK'
  <2> SUFFICES ASSUME NEW t \in turns PROVE convRows'[t[2]] # NoRow
    BY <1>2 DEF CallsInv, TurnsOK
  <2>1. t[1] \in Requests /\ t[2] = sent[t[1]].conv /\ convRows[t[2]] # NoRow /\ ~Untouched(t[1])
    BY DEF CallsInv, TurnsOK, Untouched
  <2>2. caller[t[1]] # "idle"
    BY <2>1 DEF CallsInv, CallsTypeOK, CallOK
  <2>3. t[2] \in Conversations
    BY <2>1, <2>2 DEF CallsInv, CallsTypeOK, RpcRequests
  <2> QED BY <1>4, <2>1, <2>3
<1>7. ASSUME NEW d \in Requests PROVE CallOK(d)'
  <2>1. CASE d = c
    BY <1>1, <1>2, <1>3, <2>1 DEF CallOK
  <2>2. CASE d # c
    <3>1. serving[d] = "send" => sent[d].conv \in Conversations
      BY DEF CallsInv, CallsTypeOK, RpcRequests
    <3> QED BY <1>2, <1>3, <1>4, <2>2, <3>1 DEF CallsInv, CallOK
  <2> QED BY <2>1, <2>2
<1>8. ASSUME NEW d \in Requests PROVE DescriptionKept(d)'
  <2>1. \A o \in Requests : serving'[o] = "stub" => serving[o] = "stub" /\ o # c
    BY <1>2
  <2>2. CASE d = c
    <3>1. serving[c] = "stub" => ~sent[c].described
      BY DEF CallsInv, CallOK
    <3> QED BY <1>1, <1>2, <2>1, <2>2, <3>1 DEF DescriptionKept
  <2>3. CASE d # c
    <3> SUFFICES ASSUME serving[d] = "send" \/ ~Untouched(d), sent[d].described
                 PROVE  \/ sent[d].conv \in overtaken'
                        \/ /\ convRows'[sent[d].conv] \in Requests
                           /\ \A o \in Requests : serving'[o] = "stub" => sent[o].conv # sent[d].conv
      BY <1>2, <1>3, <2>3 DEF DescriptionKept
    <3>1. \/ sent[d].conv \in overtaken
          \/ /\ convRows[sent[d].conv] \in Requests
             /\ \A o \in Requests : serving[o] = "stub" => sent[o].conv # sent[d].conv
      BY DEF CallsInv, DescriptionKept
    <3>2. caller[d] # "idle"
      BY DEF CallsInv, CallsTypeOK, CallOK
    <3>3. sent[d].conv \in Conversations
      BY <3>2 DEF CallsInv, CallsTypeOK, RpcRequests
    <3>4. CASE serving[c] = "stub"
      BY <1>1, <1>2, <2>1, <3>1, <3>3, <3>4
    <3>5. CASE serving[c] = "describe"
      BY <1>1, <1>2, <2>1, <3>1, <3>3, <3>5
    <3> QED BY <1>1, <3>4, <3>5
  <2> QED BY <2>2, <2>3
<1> QED BY <1>5, <1>6, <1>7, <1>8 DEF CallsInv

LEMMA SendMessageKeeps ==
  ASSUME CallsInv, NEW c \in Requests, SendMessage(c)
  PROVE  CallsInv'
<1> DEFINE r == sent[c]
<1>1. /\ serving[c] = "send" /\ Untouched(c) /\ r.whole /\ r.method = "runTurn"
      /\ convRows[r.conv] # NoRow /\ caller[c] # "result" /\ caller[c] # "idle"
      /\ answer[c] = NoRow
  BY DEF SendMessage, CallsInv, CallsTypeOK, CallOK
<1>2. /\ UNCHANGED <<sent, caller, answer, convRows, overtaken>>
      /\ DOMAIN serving' = Requests /\ serving'[c] = "done"
      /\ \A d \in Requests \ {c} : serving'[d] = serving[d]
      /\ stopped' = stopped \ {r.conv}
      /\ \/ turns' = turns \union {<<c, r.conv, r.def>>} /\ appended' = appended
         \/ turns' = turns /\ appended' = appended \union {c}
  BY DEF SendMessage, Go, CallsInv, CallsTypeOK
<1>3. \A d \in Requests \ {c} : Untouched(d)' <=> Untouched(d)
  BY <1>2 DEF Untouched
<1>4. CallsTypeOK'
  BY <1>1, <1>2 DEF CallsInv, CallsTypeOK
<1>5. TurnsOK'
  BY <1>1, <1>2 DEF CallsInv, TurnsOK
<1>6. Done(c)'
  BY <1>1, <1>2 DEF Done, Untouched
<1>7. ASSUME NEW d \in Requests \ {c}, Done(d) PROVE Done(d)'
  <2>1. sent[d].method = "runTurn" =>
          (<<d, sent[d].conv, sent[d].def>> \in turns') # (d \in appended')
    BY <1>2, <1>7 DEF Done
  <2>2. ASSUME sent[d].method = "cancel"
        PROVE  \/ sent[d].conv \in stopped'
               \/ \E t \in turns' : t[2] = sent[d].conv
               \/ \E a \in appended' : sent[a].conv = sent[d].conv
    <3>1. CASE sent[d].conv = r.conv
      <4>1. CASE appended' = appended \union {c}
        BY <3>1, <4>1
      <4>2. CASE turns' = turns \union {<<c, r.conv, r.def>>}
        <5> DEFINE t == <<c, r.conv, r.def>>
        <5>1. t \in turns' /\ t[2] = r.conv
          BY <4>2
        <5> QED BY <3>1, <5>1
      <4> QED BY <1>2, <4>1, <4>2
    <3>2. CASE sent[d].conv # r.conv
      BY <1>2, <1>7, <2>2, <3>2 DEF Done
    <3> QED BY <3>1, <3>2
  <2> QED BY <1>2, <2>1, <2>2 DEF Done
<1>8. ASSUME NEW d \in Requests PROVE CallOK(d)'
  <2>1. CASE d = c
    BY <1>1, <1>2, <1>6, <2>1 DEF CallOK
  <2>2. CASE d # c
    BY <1>2, <1>3, <1>7, <2>2 DEF CallsInv, CallOK
  <2> QED BY <2>1, <2>2
<1>9. ASSUME NEW d \in Requests PROVE DescriptionKept(d)'
  <2>1. \A o \in Requests : serving'[o] = "stub" => serving[o] = "stub"
    BY <1>2
  <2>2. DescriptionKept(d) /\ (d = c => serving[d] = "send")
    BY <1>1 DEF CallsInv
  <2>3. d # c => (serving'[d] = serving[d] /\ (Untouched(d)' <=> Untouched(d)))
    BY <1>2, <1>3
  <2> QED BY <1>2, <2>1, <2>2, <2>3 DEF DescriptionKept
<1> QED BY <1>4, <1>5, <1>8, <1>9 DEF CallsInv

LEMMA CancelAgentKeeps ==
  ASSUME CallsInv, NEW c \in Requests, CancelAgent(c)
  PROVE  CallsInv'
<1>1. /\ serving[c] = "cancel" /\ Untouched(c) /\ sent[c].method = "cancel"
      /\ caller[c] # "result" /\ caller[c] # "idle" /\ answer[c] = NoRow
  BY DEF CancelAgent, CallsInv, CallsTypeOK, CallOK
<1>2. /\ UNCHANGED <<sent, caller, answer, convRows, turns, appended, overtaken>>
      /\ DOMAIN serving' = Requests /\ serving'[c] = "done"
      /\ \A d \in Requests \ {c} : serving'[d] = serving[d]
      /\ stopped' = stopped \union {sent[c].conv}
  BY DEF CancelAgent, Go, CallsInv, CallsTypeOK
<1>3. \A d \in Requests : (Untouched(d)' <=> Untouched(d)) /\ (Done(d) => Done(d)')
  BY <1>2 DEF Untouched, Done
<1>4. Done(c)'
  BY <1>1, <1>2 DEF Done
<1>5. CallsTypeOK' /\ TurnsOK'
  BY <1>1, <1>2 DEF CallsInv, CallsTypeOK, TurnsOK
<1>6. ASSUME NEW d \in Requests PROVE CallOK(d)' /\ DescriptionKept(d)'
  <2>1. CASE d = c
    BY <1>1, <1>2, <1>3, <1>4, <2>1 DEF CallOK, DescriptionKept
  <2>2. CASE d # c
    <3>1. CallOK(d)'
      BY <1>2, <1>3, <2>2 DEF CallsInv, CallOK
    <3>2. DescriptionKept(d)'
      BY <1>2, <1>3, <2>2 DEF CallsInv, DescriptionKept
    <3> QED BY <3>1, <3>2
  <2> QED BY <2>1, <2>2
<1> QED BY <1>5, <1>6 DEF CallsInv

LEMMA CallsInvKept ==
  ASSUME CallsInv, [CallsNext]_callVars
  PROVE  CallsInv'
<1>1. CASE UNCHANGED callVars
  BY <1>1 DEF callVars, CallsInv, CallsTypeOK, TurnsOK, CallOK, DescriptionKept, Done, Untouched
<1>2. CASE CallsNext
  <2> PICK c \in Requests : SendRpc(c) \/ ReadResponse(c) \/ ConnectionLost(c) \/ ServeNext(c)
    BY <1>2 DEF CallsNext
  <2>1. CASE SendRpc(c) \/ ReadResponse(c) \/ ConnectionLost(c)
    BY <2>1, CallerStepsKeep
  <2>2. CASE ServeNext(c)
    BY <2>2, HandlingKeeps, RowsKeep, SendMessageKeeps, CancelAgentKeeps DEF ServeNext
  <2> QED BY <2>1, <2>2
<1> QED BY <1>1, <1>2

-----------------------------------------------------------------------------
(* Calls with grants *)

LEMMA CloudSteps ==
  ASSUME [Next]_agentVars
  PROVE  /\ [SyncNext]_syncVars
         /\ [GrantsNext]_grantVars
         /\ [DaemonNext]_daemonVars
<1>1. CASE UNCHANGED agentVars
  BY <1>1 DEF agentVars, cloudVars
<1>2. CASE Next
  BY <1>2 DEF Next, cloudVars
<1> QED BY <1>1, <1>2

Grants == [subject : Callers, allowed : SUBSET Callers, until : Nat]

\* A grant for two devices was issued before either of them left.
Issued(g, d, e) ==
    g # NoRecord =>
        /\ g \in Grants /\ g.subject = d /\ g.allowed = {e} /\ g.until <= grantNow + GrantLife
        /\ leftAt[d] # NoRecord => g.until <= leftAt[d] + GrantLife
        /\ leftAt[e] # NoRecord => g.until <= leftAt[e] + GrantLife

CallRecords == [at : {"idle", "fetch", "open", "dial", "denied", "served", "refused", "outdated", "lost"},
                from : Callers \union {NoRecord}, to : Callers \union {NoRecord},
                grant : Grants \union {NoRecord},
                since : Nat, age : Int]

\* The grant of a entry that is under way had the margin left when the entry began with it.
GrantedCall(c) ==
    LET entry == cloudCalls[c] IN
    /\ entry.at \in {"fetch", "open", "dial"} =>
         /\ entry.from \in Callers /\ entry.to \in Callers /\ entry.from # entry.to
         /\ Issued(entry.grant, entry.from, entry.to)
    /\ entry.at = "fetch" => entry.grant = NoRecord
    /\ entry.at \in {"open", "dial"} /\ entry.grant # NoRecord => entry.grant.until > entry.since + Margin
    /\ entry.at = "served" => entry.age < GrantLife
    /\ entry.at = "outdated" => entry.age > Margin

GrantsInv ==
    /\ cloudCalls \in [CloudCalls -> CallRecords] /\ grantNow \in Nat
    /\ leftAt \in [Callers -> Nat \union {NoRecord}]
    /\ trusts \in [Callers -> [Callers -> {"none", "trusted", "revoked"}]]
    /\ DOMAIN grantCache = Callers
    /\ \A d \in Callers : DOMAIN grantCache[d] = Callers
    /\ \A d \in Callers : leftAt[d] # NoRecord => leftAt[d] <= grantNow
    /\ \A d, e \in Callers : Issued(grantCache[d][e], d, e)
    /\ \A c \in CloudCalls : GrantedCall(c)

LEMMA GrantsInitially ==
  ASSUME GrantsInit
  PROVE  GrantsInv
<1>1. NoCall \in CallRecords
  BY DEF NoCall, CallRecords
<1>2. cloudCalls \in [CloudCalls -> CallRecords]
  BY <1>1 DEF GrantsInit
<1>3. \A c \in CloudCalls : GrantedCall(c)
  BY DEF GrantsInit, GrantedCall, NoCall
<1> QED BY <1>2, <1>3 DEF GrantsInit, GrantsInv, Issued

LEMMA GrantsHold == GrantsInv => RevocationTakesHold /\ GrantsOutlastCalls
  BY DEF GrantsInv, GrantedCall, RevocationTakesHold, GrantsOutlastCalls

\* Time and departures leave grants issued.
LEMMA StillIssued ==
  ASSUME NEW g, NEW d \in Callers, NEW e \in Callers, Issued(g, d, e), GrantsInv,
         GrantTick \/ \E f \in Callers : LeaveAccount(f)
  PROVE  Issued(g, d, e)'
<1>1. GrantLife \in Nat
  BY CloudAssumption
<1>2. CASE GrantTick
  BY <1>1, <1>2 DEF GrantTick, Issued, GrantsInv, Grants
<1>3. CASE \E f \in Callers : LeaveAccount(f)
  <2> PICK f \in Callers : LeaveAccount(f)
    BY <1>3
  <2>1. /\ grantNow' = grantNow /\ leftAt[f] = NoRecord
        /\ leftAt' = [leftAt EXCEPT ![f] = grantNow] /\ leftAt \in [Callers -> Nat \union {NoRecord}]
    BY DEF LeaveAccount, GrantsInv
  <2> QED BY <2>1 DEF Issued
<1> QED BY <1>2, <1>3

LEMMA TimeKeeps ==
  ASSUME GrantsInv, GrantTick \/ \E f \in Callers : LeaveAccount(f)
  PROVE  GrantsInv'
<1>1. /\ cloudCalls' = cloudCalls /\ grantCache' = grantCache /\ trusts' = trusts /\ grantNow' \in Nat
      /\ grantNow <= grantNow' /\ leftAt' \in [Callers -> Nat \union {NoRecord}]
      /\ \A d \in Callers : leftAt'[d] # NoRecord => leftAt'[d] <= grantNow'
  BY DEF GrantTick, LeaveAccount, GrantsInv
<1>2. \A d, e \in Callers : Issued(grantCache[d][e], d, e)'
  BY <1>1, StillIssued DEF GrantsInv
<1>3. ASSUME NEW c \in CloudCalls PROVE GrantedCall(c)'
  BY <1>1, StillIssued DEF GrantsInv, GrantedCall
<1> QED BY <1>1, <1>2, <1>3 DEF GrantsInv


\* A call moves to another state that is as it should be.
LEMMA CallMoves ==
  ASSUME GrantsInv, NEW c \in CloudCalls, NEW entry \in CallRecords, Continue(c, entry),
         DOMAIN grantCache' = Callers, \A d \in Callers : DOMAIN grantCache'[d] = Callers,
         \A d, e \in Callers : Issued(grantCache'[d][e], d, e),
         entry.at \in {"fetch", "open", "dial"} =>
             /\ entry.from \in Callers /\ entry.to \in Callers /\ entry.from # entry.to
             /\ Issued(entry.grant, entry.from, entry.to),
         entry.at = "fetch" => entry.grant = NoRecord,
         entry.at \in {"open", "dial"} /\ entry.grant # NoRecord =>
             entry.grant.until > entry.since + Margin,
         entry.at = "served" => entry.age < GrantLife,
         entry.at = "outdated" => entry.age > Margin
  PROVE  GrantsInv'
<1>1. /\ cloudCalls' = [cloudCalls EXCEPT ![c] = entry]
      /\ cloudCalls \in [CloudCalls -> CallRecords]
      /\ leftAt' = leftAt /\ grantNow' = grantNow /\ trusts' = trusts
  BY DEF Continue, GrantsInv
<1>2. cloudCalls' \in [CloudCalls -> CallRecords]
  BY <1>1
<1>3. ASSUME NEW b \in CloudCalls PROVE GrantedCall(b)'
  <2>1. CASE b = c
    BY <1>1, <2>1 DEF GrantedCall, Issued
  <2>2. CASE b # c
    BY <1>1, <2>2 DEF GrantedCall, Issued, GrantsInv
  <2> QED BY <2>1, <2>2
<1>4. \A d, e \in Callers : Issued(grantCache[d][e], d, e)'
  BY <1>1 DEF Issued
<1> QED BY <1>1, <1>2, <1>3, <1>4 DEF GrantsInv

LEMMA CallNodeKeeps ==
  ASSUME GrantsInv, NEW c \in CloudCalls, NEW pair \in CallPairs, CallNode(c, pair[1], pair[2])
  PROVE  GrantsInv'
<1> DEFINE d == pair[1]
           e == pair[2]
           g == grantCache[d][e]
           inquiry == [NoCall EXCEPT !.from = d, !.to = e]
           entry == IF Fresh(g) THEN [inquiry EXCEPT !.at = "open", !.grant = g, !.since = grantNow]
                   ELSE [inquiry EXCEPT !.at = "fetch"]
<1>1. d \in Callers /\ e \in Callers /\ d # e
  BY CloudAssumption
<1>2. Continue(c, entry) /\ grantCache' = grantCache
  BY DEF CallNode
<1>3. Issued(g, d, e) /\ grantNow \in Nat
  BY <1>1 DEF GrantsInv
<1> HIDE DEF d, e, g
<1>4. CASE Fresh(g)
  <2>1. entry = [at |-> "open", from |-> d, to |-> e, grant |-> g, since |-> grantNow, age |-> 0]
    BY <1>4 DEF NoCall
  <2>2. g \in Grants /\ g # NoRecord /\ g.until > grantNow + Margin
    BY <1>3, <1>4 DEF Fresh, Issued
  <2> HIDE DEF entry
  <2>3. entry \in CallRecords
    BY <1>1, <1>3, <2>1, <2>2 DEF CallRecords
  <2> QED BY <1>1, <1>2, <1>3, <2>1, <2>2, <2>3, CallMoves DEF GrantsInv
<1>5. CASE ~Fresh(g)
  <2>1. entry = [at |-> "fetch", from |-> d, to |-> e, grant |-> NoRecord, since |-> 0, age |-> 0]
    BY <1>5 DEF NoCall
  <2> HIDE DEF entry
  <2>2. entry \in CallRecords
    BY <1>1, <2>1 DEF CallRecords
  <2>3. Issued(NoRecord, d, e)
    BY DEF Issued
  <2> QED BY <1>1, <1>2, <2>1, <2>2, <2>3, CallMoves DEF GrantsInv
<1> QED BY <1>4, <1>5

LEMMA GrantAnsweredKeeps ==
  ASSUME GrantsInv, NEW c \in CloudCalls, GrantAnswered(c)
  PROVE  GrantsInv'
<1> DEFINE d == Call(c).from
           e == Call(c).to
           g == [subject |-> d, allowed |-> {e}, until |-> grantNow + GrantLife]
           given == [Call(c) EXCEPT !.at = "open", !.grant = g, !.since = grantNow]
           without == [Call(c) EXCEPT !.at = "open", !.since = grantNow]
<1>1. /\ Call(c) \in CallRecords /\ Call(c).at = "fetch" /\ d \in Callers /\ e \in Callers /\ d # e
      /\ Call(c).grant = NoRecord /\ grantNow \in Nat
      /\ GrantLife \in Nat /\ Margin \in Nat /\ GrantLife > Margin
  BY CloudAssumption DEF GrantAnswered, GrantsInv, GrantedCall, Call
<1>2. CASE /\ leftAt[d] = NoRecord /\ leftAt[e] = NoRecord
           /\ grantCache' = [grantCache EXCEPT ![d][e] = g] /\ Continue(c, given)
  <2>1. g \in Grants /\ g.until > grantNow + Margin
    BY <1>1 DEF Grants
  <2>2. Issued(g, d, e)
    BY <1>1, <1>2, <2>1 DEF Issued
  <2>4. given \in CallRecords
    BY <1>1, <2>1 DEF CallRecords
  <2>5. given.from = d /\ given.to = e /\ given.grant = g /\ given.since = grantNow /\ given.at = "open"
    BY <1>1 DEF CallRecords
  <2> HIDE DEF given, g
  <2>6. /\ DOMAIN grantCache' = Callers
        /\ \A f \in Callers : DOMAIN grantCache'[f] = Callers
        /\ \A f, h \in Callers : Issued(grantCache'[f][h], f, h)
    BY <1>1, <1>2, <2>2 DEF GrantsInv
  <2> QED BY <1>1, <1>2, <2>1, <2>2, <2>4, <2>5, <2>6, CallMoves
<1>3. CASE grantCache' = grantCache /\ Continue(c, without)
  <2>1. without \in CallRecords /\ Issued(NoRecord, d, e)
    BY <1>1 DEF CallRecords, Issued
  <2>2. without.from = d /\ without.to = e /\ without.grant = NoRecord /\ without.at = "open"
    BY <1>1 DEF CallRecords
  <2> HIDE DEF without
  <2> QED BY <1>1, <1>3, <2>1, <2>2, CallMoves DEF GrantsInv
<1> QED BY <1>2, <1>3 DEF GrantAnswered

\* A grant that is verified has not ended; a device that left is out for less than it lives.
LEMMA VerifiedInTime ==
  ASSUME GrantsInv, NEW d \in Callers, NEW e \in Callers, d # e, NEW g, Issued(g, d, e),
         g # NoRecord, g.until > grantNow
  PROVE  OutFor(d, e) \in Int /\ OutFor(d, e) < GrantLife
<1> DEFINE left == {leftAt[f] : f \in {d, e}} \ {NoRecord}
<1>1. /\ left \subseteq Nat /\ GrantLife \in Nat /\ Margin \in Nat /\ GrantLife > Margin
      /\ grantNow \in Nat /\ g.until \in Nat
      /\ \A t \in left : t <= grantNow /\ g.until <= t + GrantLife
  BY CloudAssumption DEF GrantsInv, Issued, Grants
<1>2. CASE left = {}
  BY <1>1, <1>2 DEF OutFor
<1>3. CASE left # {}
  <2>1. \E t \in left : \A u \in left : t <= u
    <3>1. left \subseteq Nat /\ left # {}
      BY <1>1, <1>3
    <3> HIDE DEF left
    <3> QED BY <3>1, NatMin
  <2> DEFINE t == CHOOSE t \in left : \A u \in left : t <= u
  <2>2. t \in left
    BY <2>1
  <2>3. OutFor(d, e) = grantNow - t
    BY <1>3 DEF OutFor
  <2>4. t \in Nat /\ g.until <= t + GrantLife
    BY <2>2, <1>1
  <2> HIDE DEF t, left
  <2> QED BY <1>1, <2>3, <2>4
<1> QED BY <1>2, <1>3

LEMMA CallEndsKeeps ==
  ASSUME GrantsInv, NEW c \in CloudCalls, NEW how, NEW age \in Int, CallEnds(c, how, age),
         grantCache' = grantCache, how \in {"denied", "served", "refused", "outdated", "lost"},
         how = "served" => age < GrantLife, how = "outdated" => age > Margin
  PROVE  GrantsInv'
<1> DEFINE entry == [NoCall EXCEPT !.at = how, !.age = age]
<1>1. NoCall \in CallRecords
  BY DEF NoCall, CallRecords
<1>2. Continue(c, entry)
  BY DEF CallEnds
<1>3. entry \in CallRecords /\ entry.at = how /\ entry.age = age
  BY <1>1 DEF CallRecords
<1> HIDE DEF entry
<1> QED BY <1>1, <1>2, <1>3, CallMoves DEF GrantsInv

LEMMA OpenStreamKeeps ==
  ASSUME GrantsInv, NEW c \in CloudCalls, OpenStream(c)
  PROVE  GrantsInv'
<1> DEFINE entry == [Call(c) EXCEPT !.at = "dial"]
<1>1. Call(c) \in CallRecords /\ Call(c).at = "open" /\ grantCache' = grantCache /\ GrantedCall(c)
  BY DEF OpenStream, GrantsInv, Call
<1>2. CASE CallEnds(c, "denied", 0)
  BY <1>1, <1>2, CallEndsKeeps
<1>3. CASE Continue(c, entry)
  <2>1. /\ entry \in CallRecords /\ entry.at = "dial" /\ entry.from = Call(c).from
        /\ entry.to = Call(c).to /\ entry.grant = Call(c).grant /\ entry.since = Call(c).since
    BY <1>1 DEF CallRecords
  <2> HIDE DEF entry
  <2> QED BY <1>1, <1>3, <2>1, CallMoves DEF GrantsInv, GrantedCall, Call
<1> QED BY <1>2, <1>3 DEF OpenStream

LEMMA RequestArrivesKeeps ==
  ASSUME GrantsInv, NEW c \in CloudCalls, RequestArrives(c)
  PROVE  GrantsInv'
<1> DEFINE d == Call(c).from
           e == Call(c).to
           g == Call(c).grant
           since == Call(c).since
<1>1. /\ d \in Callers /\ e \in Callers /\ d # e /\ Issued(g, d, e) /\ since \in Nat
      /\ g # NoRecord => g.until > since + Margin
      /\ grantCache' = grantCache /\ grantNow \in Nat
  BY DEF RequestArrives, GrantsInv, GrantedCall, Call, CallRecords
<1>2. GrantLife \in Nat /\ Margin \in Nat /\ GrantLife > Margin
  BY CloudAssumption
<1>3. (CHOOSE f \in {d, e} : f # e) = d
  BY <1>1
<1>4. CASE MayOpen(e, d, e, g)
  <2>1. CASE trusts[e][d] = "trusted"
    <3>1. CallEnds(c, "served", 0)
      BY <1>4, <2>1 DEF RequestArrives
    <3> QED BY <1>1, <1>2, <3>1, CallEndsKeeps
  <2>2. CASE trusts[e][d] # "trusted"
    <3>1. g # NoRecord /\ g.until > grantNow
      BY <1>3, <1>4, <2>2 DEF MayOpen, Verified
    <3>2. OutFor(d, e) \in Int /\ OutFor(d, e) < GrantLife
      BY <1>1, <3>1, VerifiedInTime
    <3>3. CallEnds(c, "served", OutFor(d, e))
      BY <1>4, <2>2 DEF RequestArrives
    <3> QED BY <1>1, <3>2, <3>3, CallEndsKeeps
  <2> QED BY <2>1, <2>2
<1>5. CASE ~MayOpen(e, d, e, g) /\ (g = NoRecord \/ e \notin keyed \/ trusts[e][d] = "revoked")
  <2>1. CallEnds(c, "refused", 0)
    BY <1>5 DEF RequestArrives
  <2> QED BY <1>1, <2>1, CallEndsKeeps
<1>6. CASE ~MayOpen(e, d, e, g) /\ ~(g = NoRecord \/ e \notin keyed \/ trusts[e][d] = "revoked")
  <2>1. CallEnds(c, "outdated", grantNow - since)
    BY <1>6 DEF RequestArrives
  <2>2. trusts[e][d] \in {"none", "trusted", "revoked"}
    BY <1>1 DEF GrantsInv
  <2>3. trusts[e][d] = "none"
    BY <1>3, <1>6, <2>2 DEF MayOpen
  <2>4. ~Verified(g, d, e) /\ g \in Grants /\ g.subject = d /\ g.allowed = {e}
    BY <1>1, <1>3, <1>6, <2>3 DEF MayOpen, Issued
  <2>5. g.until \in Nat /\ g.until <= grantNow
    BY <1>1, <2>4 DEF Verified, Grants
  <2>6. grantNow - since > Margin
    BY <1>1, <1>2, <1>6, <2>5
  <2> QED BY <1>1, <2>1, <2>6, CallEndsKeeps
<1> QED BY <1>4, <1>5, <1>6

LEMMA GrantsInvKept ==
  ASSUME GrantsInv, [GrantsNext]_grantVars
  PROVE  GrantsInv'
<1>1. CASE UNCHANGED grantVars
  BY <1>1 DEF grantVars, GrantsInv, GrantedCall, Issued
<1>2. CASE GrantTick \/ \E d \in Callers : LeaveAccount(d)
  BY <1>2, TimeKeeps
<1>3. ASSUME NEW d \in Callers, NEW e \in Callers, RecordChanges(d, e) PROVE GrantsInv'
  <2>1. /\ UNCHANGED <<leftAt, grantCache, cloudCalls, grantNow>>
        /\ \E r \in {"none", "trusted", "revoked"} : trusts' = [trusts EXCEPT ![d][e] = r]
    BY <1>3 DEF RecordChanges
  <2>2. trusts' \in [Callers -> [Callers -> {"none", "trusted", "revoked"}]]
    BY <2>1 DEF GrantsInv
  <2> QED BY <2>1, <2>2 DEF GrantsInv, GrantedCall, Issued
<1>4. ASSUME NEW c \in CloudCalls, CloudCallSteps(c) PROVE GrantsInv'
  <2>1. CASE DialFails(c)
    BY <2>1, CallEndsKeeps DEF DialFails
  <2> QED BY <1>4, <2>1, GrantAnsweredKeeps, OpenStreamKeeps, RequestArrivesKeeps DEF CloudCallSteps
<1>5. ASSUME NEW c \in CloudCalls, NEW pair \in CallPairs, CallNode(c, pair[1], pair[2])
      PROVE  GrantsInv'
  BY <1>5, CallNodeKeeps
<1> QED BY <1>1, <1>2, <1>3, <1>4, <1>5 DEF GrantsNext
-----------------------------------------------------------------------------
(* The devices of the account *)

NoRecords == DeviceRecords \union {NoRecord}
SyncStates == [at : {"idle", "listed", "loaded", "merge"}, listed : [CloudDevices -> NoRecords],
               loaded : [CloudDevices -> NoRecords], todo : SUBSET CloudDevices,
               overtaken : SUBSET CloudDevices]

\* A device is cached as r, and written as r was listed.
KeptAs(p, r) ==
    trustCache[p] = r /\ trustFile[p] # NoRecord /\ trustFile[p].content = r.content

\* Between the read of a load and the end of the merge.
MergeOk(p) ==
    /\ cloudSync.at = "loaded" /\ p \notin cloudSync.overtaken => trustFile[p] = cloudSync.loaded[p]
    /\ cloudSync.at = "merge" /\ mergedAs[p] # NoRecord =>
         /\ mergedAs[p] = cloudSync.listed[p]
         /\ IF p \in cloudSync.todo
            THEN /\ trustCache[p] = cloudSync.loaded[p] /\ trustFile[p] = cloudSync.loaded[p]
                 /\ cloudSync.loaded[p] # NoRecord => p \in shared
            ELSE KeptAs(p, mergedAs[p])
    /\ cloudSync.at = "merge" /\ p \in cloudSync.todo => cloudSync.listed[p] # NoRecord
    /\ cloudSync.at \in {"listed", "loaded"} => mergedAs[p] = NoRecord

SyncTypes ==
    /\ listing \in [CloudDevices -> NoRecords] /\ trustFile \in [CloudDevices -> NoRecords]
    /\ trustCache \in [CloudDevices -> NoRecords] /\ mergedAs \in [CloudDevices -> NoRecords]
    /\ cloudSync \in SyncStates
    /\ shared \subseteq CloudDevices /\ \A p \in shared : trustCache[p] \in DeviceRecords

\* What holds of one device.
DeviceOk(p) ==
    /\ MergeOk(p)
    /\ cloudSync.at = "idle" /\ mergedAs[p] # NoRecord => KeptAs(p, mergedAs[p])
    /\ p \notin unwritten =>
         IF trustFile[p] = NoRecord THEN trustCache[p] = NoRecord
         ELSE trustCache[p] # NoRecord /\ trustCache[p].content = trustFile[p].content

SyncInv == SyncTypes /\ \A p \in CloudDevices : DeviceOk(p)

LEMMA SyncHolds == SyncInv => SyncIsKept /\ CacheIsWritten
  BY DEF SyncInv, DeviceOk, SyncIsKept, CacheIsWritten, KeptAs

LEMMA SyncInitially ==
  ASSUME SyncInit
  PROVE  SyncInv
<1>1. NoDevices \in [CloudDevices -> NoRecords] /\ \A p \in CloudDevices : NoDevices[p] = NoRecord
  BY DEF NoDevices, NoRecords
<1>2. NoSync \in SyncStates /\ NoSync.at = "idle"
  BY <1>1 DEF NoSync, SyncStates
<1> QED BY <1>1, <1>2 DEF SyncInit, SyncInv, SyncTypes, DeviceOk, MergeOk

LEMMA UserChangesKeeps ==
  ASSUME SyncInv, NEW p \in CloudDevices, UserChanges(p)
  PROVE  SyncInv'
<1> DEFINE late == Overtakes(p)
           sync == [cloudSync EXCEPT !.overtaken = @ \union late]
<1> PICK r \in NoRecords :
      /\ SaveRecord(p, r) /\ cloudSync' = sync
  BY DEF UserChanges, NoRecords, DeviceRecords
<1>1. /\ shared' = shared \ {p} /\ mergedAs' = [mergedAs EXCEPT ![p] = NoRecord] /\ listing' = listing
      /\ SyncTypes /\ \A q \in CloudDevices : DeviceOk(q)
      /\ late \subseteq CloudDevices /\ (cloudSync.at = "loaded" => p \in late)
      /\ NoRecord \in NoRecords
  BY DEF SyncInv, UserChanges, Overtakes, NoRecords
<1> HIDE DEF late
<1>2. /\ cloudSync' \in SyncStates /\ cloudSync'.at = cloudSync.at /\ cloudSync'.listed = cloudSync.listed
      /\ cloudSync'.loaded = cloudSync.loaded /\ cloudSync'.todo = cloudSync.todo
      /\ cloudSync'.overtaken = cloudSync.overtaken \union late
  BY <1>1 DEF SyncTypes, SyncStates
<1>3. /\ trustCache' = [trustCache EXCEPT ![p] = r]
      /\ \/ trustFile' = [trustFile EXCEPT ![p] = r] /\ unwritten' = unwritten \ {p}
         \/ trustFile' = trustFile /\ unwritten' = unwritten \union {p}
  BY DEF SaveRecord
<1>4. SyncTypes'
  BY <1>1, <1>2, <1>3 DEF SyncTypes
<1>5. ASSUME NEW q \in CloudDevices \ {p} PROVE DeviceOk(q)'
  <2>1. /\ trustCache'[q] = trustCache[q] /\ trustFile'[q] = trustFile[q] /\ mergedAs'[q] = mergedAs[q]
        /\ (q \in shared' <=> q \in shared) /\ (q \in unwritten' <=> q \in unwritten) /\ DeviceOk(q)
    BY <1>1, <1>3 DEF SyncTypes
  <2> QED BY <1>2, <2>1 DEF DeviceOk, MergeOk, KeptAs
<1>6. DeviceOk(p)'
  <2>1. mergedAs'[p] = NoRecord /\ trustCache'[p] = r
    BY <1>1, <1>3 DEF SyncTypes
  <2>2. MergeOk(p)'
    BY <1>1, <1>2, <2>1 DEF MergeOk, DeviceOk
  <2>3. p \notin unwritten' => trustFile'[p] = r
    BY <1>1, <1>3 DEF SyncTypes
  <2> QED BY <2>1, <2>2, <2>3 DEF DeviceOk
<1> QED BY <1>4, <1>5, <1>6 DEF SyncInv

\* The steps before the merge.
LEMMA ReadKeeps ==
  ASSUME SyncInv, ListCloudDevices \/ ReadStored \/ (\E p \in CloudDevices : CloudLists(p))
  PROVE  SyncInv'
<1>1. /\ SyncTypes /\ \A q \in CloudDevices : DeviceOk(q)
      /\ NoDevices \in [CloudDevices -> NoRecords] /\ \A q \in CloudDevices : NoDevices[q] = NoRecord
      /\ UNCHANGED stores
  BY DEF SyncInv, NoDevices, NoRecords, ListCloudDevices, ReadStored, CloudLists
<1>2. NoSync \in SyncStates /\ NoSync.at = "idle"
  BY <1>1 DEF NoSync, SyncStates
<1>3. CASE ListCloudDevices
  <2>1. cloudSync' \in SyncStates /\ cloudSync'.at \in {"idle", "listed"}
    BY <1>1, <1>2, <1>3 DEF ListCloudDevices, SyncStates, SyncTypes
  <2>2. mergedAs' = NoDevices /\ listing' = listing
    BY <1>3 DEF ListCloudDevices
  <2> QED BY <1>1, <2>1, <2>2 DEF SyncInv, stores, SyncTypes, DeviceOk, MergeOk
<1>4. CASE ReadStored
  <2>1. /\ cloudSync' \in SyncStates /\ cloudSync'.at = "loaded" /\ cloudSync'.loaded = trustFile
        /\ mergedAs' = mergedAs /\ cloudSync.at = "listed" /\ listing' = listing
    BY <1>1, <1>4 DEF ReadStored, SyncStates, SyncTypes
  <2> QED BY <1>1, <2>1 DEF SyncInv, stores, SyncTypes, DeviceOk, MergeOk
<1>5. CASE \E p \in CloudDevices : CloudLists(p)
  <2>1. listing' \in [CloudDevices -> NoRecords] /\ cloudSync' = cloudSync /\ mergedAs' = mergedAs
    BY <1>1, <1>5 DEF CloudLists, SyncTypes, NoRecords
  <2> QED BY <1>1, <2>1 DEF SyncInv, stores, SyncTypes, DeviceOk, MergeOk, KeptAs
<1> QED BY <1>3, <1>4, <1>5

LEMMA RestartKeeps ==
  ASSUME SyncInv, Restart
  PROVE  SyncInv'
<1>1. /\ SyncTypes /\ trustCache' = trustFile /\ cloudSync' = NoSync /\ shared' = {} /\ unwritten' = {}
      /\ mergedAs' = NoDevices /\ listing' = listing /\ trustFile' = trustFile
      /\ NoDevices \in [CloudDevices -> NoRecords] /\ \A q \in CloudDevices : NoDevices[q] = NoRecord
  BY DEF Restart, SyncInv, NoDevices, NoRecords
<1>2. NoSync \in SyncStates /\ NoSync.at = "idle"
  BY <1>1 DEF NoSync, SyncStates
<1> QED BY <1>1, <1>2 DEF SyncInv, SyncTypes, DeviceOk, MergeOk

LEMMA CacheStoredKeeps ==
  ASSUME SyncInv, CacheStored
  PROVE  SyncInv'
<1>1. /\ SyncTypes /\ \A q \in CloudDevices : DeviceOk(q)
      /\ cloudSync.at = "loaded" /\ trustCache' = cloudSync.loaded /\ unwritten' = cloudSync.overtaken
      /\ shared' = {p \in CloudDevices : cloudSync.loaded[p] # NoRecord}
      /\ mergedAs' = [p \in CloudDevices |-> IF p \in cloudSync.overtaken THEN NoRecord
                                            ELSE cloudSync.listed[p]]
      /\ listing' = listing /\ trustFile' = trustFile
  BY DEF SyncInv, CacheStored
<1>2. /\ cloudSync' \in SyncStates /\ cloudSync'.at = "merge" /\ cloudSync'.listed = cloudSync.listed
      /\ cloudSync'.loaded = cloudSync.loaded /\ cloudSync'.todo = Listed
      /\ cloudSync.loaded \in [CloudDevices -> NoRecords]
      /\ cloudSync.listed \in [CloudDevices -> NoRecords]
  BY <1>1 DEF CacheStored, SyncTypes, SyncStates, Listed
<1>3. SyncTypes'
  <2>1. NoRecord \in NoRecords
    BY DEF NoRecords
  <2>2. mergedAs' \in [CloudDevices -> NoRecords]
    BY <1>1, <1>2, <2>1
  <2>3. \A p \in shared' : trustCache'[p] \in DeviceRecords
    BY <1>1, <1>2 DEF NoRecords
  <2> QED BY <1>1, <1>2, <2>2, <2>3 DEF SyncTypes
<1>4. ASSUME NEW p \in CloudDevices PROVE DeviceOk(p)'
  <2>1. p \notin cloudSync.overtaken => trustFile[p] = cloudSync.loaded[p]
    BY <1>1 DEF DeviceOk, MergeOk
  <2>2. mergedAs'[p] # NoRecord => p \notin cloudSync.overtaken /\ mergedAs'[p] = cloudSync.listed[p]
                                   /\ p \in Listed
    BY <1>1 DEF Listed
  <2>3. MergeOk(p)'
    BY <1>1, <1>2, <2>1, <2>2 DEF MergeOk, Listed
  <2> QED BY <1>1, <1>2, <2>1, <2>3 DEF DeviceOk
<1> QED BY <1>3, <1>4 DEF SyncInv

\* The loop has run on over the devices of quiet.
LEMMA RefreshedIs ==
  ASSUME SyncInv, cloudSync.at = "merge", NEW quiet \in SUBSET {q \in cloudSync.todo : ~IsSaved(q)}
  PROVE  /\ Refreshed(quiet) \in [CloudDevices -> NoRecords]
         /\ \A p \in CloudDevices :
              /\ p \in shared => Refreshed(quiet)[p] \in DeviceRecords
              /\ IF trustCache[p] = NoRecord THEN Refreshed(quiet)[p] = NoRecord
                 ELSE Refreshed(quiet)[p] # NoRecord /\ Refreshed(quiet)[p].content = trustCache[p].content
              /\ p \notin quiet => Refreshed(quiet)[p] = trustCache[p]
              /\ p \in quiet /\ mergedAs[p] # NoRecord =>
                   /\ Refreshed(quiet)[p] = mergedAs[p] /\ trustFile[p] # NoRecord
                   /\ trustFile[p].content = mergedAs[p].content
<1> SUFFICES ASSUME NEW p \in CloudDevices
             PROVE  /\ Refreshed(quiet)[p] \in NoRecords
                    /\ p \in shared => Refreshed(quiet)[p] \in DeviceRecords
                    /\ IF trustCache[p] = NoRecord THEN Refreshed(quiet)[p] = NoRecord
                       ELSE /\ Refreshed(quiet)[p] # NoRecord
                            /\ Refreshed(quiet)[p].content = trustCache[p].content
                    /\ p \notin quiet => Refreshed(quiet)[p] = trustCache[p]
                    /\ p \in quiet /\ mergedAs[p] # NoRecord =>
                         /\ Refreshed(quiet)[p] = mergedAs[p] /\ trustFile[p] # NoRecord
                         /\ trustFile[p].content = mergedAs[p].content
  BY DEF Refreshed
<1>1. /\ trustCache[p] \in NoRecords /\ (p \in shared => trustCache[p] \in DeviceRecords)
      /\ cloudSync.listed[p] \in NoRecords /\ MergeOk(p) /\ mergedAs[p] \in NoRecords
      /\ NoRecord \notin DeviceRecords
  BY CloudAssumption DEF SyncInv, SyncTypes, SyncStates, DeviceOk, DeviceRecords
<1>2. CASE p \notin quiet \intersect shared
  <2>1. Refreshed(quiet)[p] = trustCache[p]
    BY <1>2 DEF Refreshed
  <2>2. p \notin quiet \/ mergedAs[p] = NoRecord
    BY <1>1, <1>2 DEF MergeOk, IsSaved, IsNew
  <2> QED BY <1>1, <2>1, <2>2
<1>3. CASE p \in quiet \intersect shared
  <2> DEFINE r == [trustCache[p] EXCEPT !.revoked = cloudSync.listed[p].revoked]
  <2>1. Refreshed(quiet)[p] = r
    BY <1>3 DEF Refreshed
  <2>2. cloudSync.listed[p] \in DeviceRecords /\ trustCache[p] \in DeviceRecords
    BY <1>1, <1>3 DEF MergeOk, NoRecords
  <2>3. r \in DeviceRecords /\ r.content = trustCache[p].content
        /\ r.revoked = cloudSync.listed[p].revoked
    BY <2>2 DEF DeviceRecords
  <2>4. ASSUME mergedAs[p] # NoRecord
        PROVE  r = mergedAs[p] /\ trustFile[p] # NoRecord /\ trustFile[p].content = mergedAs[p].content
    <3>1. /\ mergedAs[p] = cloudSync.listed[p] /\ trustCache[p] = cloudSync.loaded[p]
          /\ trustFile[p] = trustCache[p] /\ trustCache[p].content = cloudSync.listed[p].content
      BY <1>1, <1>3, <2>4 DEF MergeOk, IsSaved, IsNew
    <3>2. r = cloudSync.listed[p]
      BY <2>2, <2>3, <3>1 DEF DeviceRecords
    <3> QED BY <1>1, <2>2, <3>1, <3>2
  <2> HIDE DEF r
  <2> QED BY <1>1, <1>3, <2>1, <2>2, <2>3, <2>4 DEF NoRecords
<1> QED BY <1>2, <1>3

LEMMA MergeNextKeeps ==
  ASSUME SyncInv, MergeNext
  PROVE  SyncInv'
<1> PICK p \in {q \in cloudSync.todo : IsSaved(q)},
         quiet \in SUBSET {q \in cloudSync.todo : ~IsSaved(q)} :
         /\ trustCache' = [Refreshed(quiet) EXCEPT ![p] = cloudSync.listed[p]]
         /\ \/ /\ trustFile' = [trustFile EXCEPT ![p] = cloudSync.listed[p]]
               /\ unwritten' = unwritten \ {p}
               /\ cloudSync' = [cloudSync EXCEPT !.todo = @ \ (quiet \union {p})]
               /\ UNCHANGED mergedAs
            \/ /\ unwritten' = unwritten \union {p} /\ cloudSync' = NoSync
               /\ mergedAs' = NoDevices /\ UNCHANGED trustFile
         /\ shared' = shared \ {p}
  BY DEF MergeNext
<1>1. /\ SyncTypes /\ cloudSync.at = "merge" /\ listing' = listing /\ p \in CloudDevices
      /\ cloudSync.listed[p] \in DeviceRecords /\ NoRecord \notin DeviceRecords
      /\ p \notin quiet /\ \A q \in CloudDevices : DeviceOk(q)
  BY CloudAssumption DEF SyncInv, DeviceOk, MergeOk, MergeNext, SyncTypes, SyncStates, NoRecords, DeviceRecords
<1>2. /\ trustCache' \in [CloudDevices -> NoRecords]
      /\ \A q \in shared' : trustCache'[q] \in DeviceRecords
      /\ trustCache'[p] = cloudSync.listed[p]
      /\ \A q \in CloudDevices \ {p} : trustCache'[q] = Refreshed(quiet)[q]
  BY <1>1, RefreshedIs DEF SyncTypes, NoRecords
<1>3. CASE /\ trustFile' = [trustFile EXCEPT ![p] = cloudSync.listed[p]]
           /\ unwritten' = unwritten \ {p} /\ mergedAs' = mergedAs
           /\ cloudSync' = [cloudSync EXCEPT !.todo = @ \ (quiet \union {p})]
  <2>1. /\ cloudSync' \in SyncStates /\ cloudSync'.at = "merge" /\ cloudSync'.listed = cloudSync.listed
        /\ cloudSync'.loaded = cloudSync.loaded /\ cloudSync'.todo = cloudSync.todo \ (quiet \union {p})
    BY <1>1, <1>3 DEF SyncTypes, SyncStates
  <2>2. SyncTypes'
    BY <1>1, <1>2, <1>3, <2>1 DEF SyncTypes, NoRecords
  <2>3. ASSUME NEW q \in CloudDevices \ {p} PROVE DeviceOk(q)'
    <3>1. /\ trustFile'[q] = trustFile[q] /\ trustCache'[q] = Refreshed(quiet)[q] /\ DeviceOk(q)
          /\ (q \in shared' <=> q \in shared) /\ (q \in unwritten' <=> q \in unwritten)
      BY <1>1, <1>2, <1>3 DEF SyncTypes
    <3>2. CASE q \in quiet
      <4>1. MergeOk(q)'
        BY <1>1, <1>3, <2>1, <3>1, <3>2, RefreshedIs DEF MergeOk, DeviceOk, KeptAs
      <4> QED BY <1>1, <2>1, <3>1, <4>1, RefreshedIs DEF DeviceOk
    <3>3. CASE q \notin quiet
      <4>1. trustCache'[q] = trustCache[q]
        BY <3>1, <3>3, <1>1, RefreshedIs
      <4> QED BY <1>3, <2>1, <3>1, <3>3, <4>1 DEF DeviceOk, MergeOk, KeptAs
    <3> QED BY <3>2, <3>3
  <2>4. DeviceOk(p)'
    <3>1. trustFile'[p] = cloudSync.listed[p]
      BY <1>1, <1>3 DEF SyncTypes
    <3> QED BY <1>1, <1>2, <1>3, <2>1, <3>1 DEF DeviceOk, MergeOk, KeptAs
  <2> QED BY <2>2, <2>3, <2>4 DEF SyncInv
<1>4. CASE /\ unwritten' = unwritten \union {p} /\ cloudSync' = NoSync
           /\ mergedAs' = NoDevices /\ trustFile' = trustFile
  <2>1. NoDevices \in [CloudDevices -> NoRecords] /\ \A q \in CloudDevices : NoDevices[q] = NoRecord
    BY DEF NoDevices, NoRecords
  <2>2. cloudSync' \in SyncStates /\ cloudSync'.at = "idle"
    BY <1>4, <2>1 DEF NoSync, SyncStates
  <2>3. SyncTypes'
    BY <1>1, <1>2, <1>4, <2>1, <2>2 DEF SyncTypes
  <2>4. ASSUME NEW q \in CloudDevices PROVE DeviceOk(q)'
    <3>1. DeviceOk(q)
      BY <1>1
    <3> QED BY <1>1, <1>2, <1>4, <2>1, <2>2, <3>1, RefreshedIs DEF DeviceOk, MergeOk
  <2> QED BY <2>3, <2>4 DEF SyncInv
<1> QED BY <1>3, <1>4

LEMMA MergeEndsKeeps ==
  ASSUME SyncInv, MergeEnds
  PROVE  SyncInv'
<1> DEFINE quiet == cloudSync.todo
<1>1. /\ SyncTypes /\ cloudSync.at = "merge" /\ listing' = listing /\ trustFile' = trustFile
      /\ trustCache' = Refreshed(quiet) /\ cloudSync' = NoSync /\ shared' = {}
      /\ mergedAs' = mergedAs /\ unwritten' = unwritten
      /\ quiet \in SUBSET {q \in cloudSync.todo : ~IsSaved(q)}
      /\ \A q \in CloudDevices : DeviceOk(q)
  BY DEF SyncInv, MergeEnds
<1>2. NoDevices \in [CloudDevices -> NoRecords]
  BY DEF NoDevices, NoRecords
<1>3. cloudSync' \in SyncStates /\ cloudSync'.at = "idle"
  BY <1>1, <1>2 DEF NoSync, SyncStates
<1> HIDE DEF quiet
<1>4. SyncTypes'
  BY <1>1, <1>3, RefreshedIs DEF SyncTypes
<1>5. ASSUME NEW q \in CloudDevices PROVE DeviceOk(q)'
  <2>1. DeviceOk(q)
    BY <1>1
  <2>2. mergedAs[q] # NoRecord => KeptAs(q, mergedAs[q])'
    <3>1. CASE q \in quiet
      BY <1>1, <3>1, RefreshedIs DEF KeptAs
    <3>2. CASE q \notin quiet
      BY <1>1, <2>1, <3>2, RefreshedIs DEF KeptAs, DeviceOk, MergeOk, quiet
    <3> QED BY <3>1, <3>2
  <2>3. MergeOk(q)'
    BY <1>3 DEF MergeOk
  <2> QED BY <1>1, <1>3, <2>1, <2>2, <2>3, RefreshedIs DEF DeviceOk
<1> QED BY <1>4, <1>5 DEF SyncInv

LEMMA SyncInvKept ==
  ASSUME SyncInv, [SyncNext]_syncVars
  PROVE  SyncInv'
<1>1. CASE UNCHANGED syncVars
  BY <1>1 DEF syncVars, SyncInv, SyncTypes, DeviceOk, MergeOk, KeptAs
<1> QED BY <1>1, UserChangesKeeps, ReadKeeps, RestartKeeps, CacheStoredKeeps, MergeNextKeeps,
           MergeEndsKeeps DEF SyncNext
-----------------------------------------------------------------------------
(* The daemon *)

\* A node that registers has the network; one that sends heartbeats is registered.
DaemonInv ==
    /\ network \in BOOLEAN
    /\ daemon \in {"bind", "reserve", "running"} => network
    /\ daemon \in {"reserve", "running"} => identityFile.id \in boundIds
    /\ PresenceIsSound

LEMMA DaemonInitially ==
  ASSUME DaemonInit
  PROVE  DaemonInv
  BY DEF DaemonInit, DaemonInv, PresenceIsSound

\* Heartbeats that were sent stay true of an identity that stays registered.
LEMMA BeatsStay ==
  ASSUME DaemonInv, beats' = beats, presence' = presence, boundIds \subseteq boundIds',
         boundIds' # {} => identityFile'.kind = "valid" /\ boundIds' = {identityFile'.id}
  PROVE  PresenceIsSound'
  BY DEF DaemonInv, PresenceIsSound

LEMMA HeartbeatKeeps ==
  ASSUME DaemonInv, daemon \in {"reserve", "running"}, SendHeartbeat,
         UNCHANGED <<identityFile, network, boundIds, presence>>
  PROVE  PresenceIsSound'
<1>1. beats' = beats \union {Beat} /\ Beat.id = identityFile.id /\ Beat.addresses = network
  BY DEF SendHeartbeat, Beat
<1> QED BY <1>1 DEF DaemonInv, PresenceIsSound

LEMMA DaemonInvKept ==
  ASSUME DaemonInv, [DaemonNext]_daemonVars
  PROVE  DaemonInv'
<1> USE DEF Stage, cloudSide
<1>1. CASE UNCHANGED daemonVars
  BY <1>1 DEF daemonVars, DaemonInv, PresenceIsSound
<1>2. CASE LoadIdentity
  <2>1. identityFile' = identityFile \/ identityFile.kind # "valid"
    BY <1>2 DEF LoadIdentity
  <2>2. /\ beats' = beats /\ presence' = presence /\ boundIds' = boundIds /\ network' = network
        /\ daemon' \in {"loaded", "ended"}
    BY <1>2 DEF LoadIdentity
  <2>3. PresenceIsSound'
    BY <2>1, <2>2, BeatsStay DEF DaemonInv, PresenceIsSound
  <2> QED BY <2>2, <2>3 DEF DaemonInv
<1>3. CASE StartNetwork
  <2>1. PresenceIsSound'
    BY <1>3, BeatsStay DEF StartNetwork, DaemonInv, PresenceIsSound
  <2> QED BY <1>3, <2>1 DEF StartNetwork, DaemonInv
<1>4. CASE RegisterDevice
  <2>1. UNCHANGED <<beats, presence, identityFile>>
    BY <1>4 DEF RegisterDevice
  <2>2. \/ identityFile.kind = "valid" /\ boundIds' = boundIds \union {identityFile.id}
        \/ boundIds' = boundIds
    BY <1>4 DEF RegisterDevice
  <2>3. PresenceIsSound'
    BY <2>1, <2>2, BeatsStay DEF DaemonInv, PresenceIsSound
  <2>4. CASE Stage("bind", "reserve") /\ network' = network /\ boundIds' = boundIds \union {identityFile.id}
    BY <2>1, <2>3, <2>4 DEF DaemonInv
  <2>5. CASE Stage("bind", "ended") /\ network' = FALSE
    BY <2>3, <2>5 DEF DaemonInv
  <2> QED BY <1>4, <2>4, <2>5 DEF RegisterDevice
<1>5. CASE ConfigureRelay
  BY <1>5, HeartbeatKeeps DEF ConfigureRelay, DaemonInv
<1>6. CASE Heartbeat
  BY <1>6, HeartbeatKeeps DEF Heartbeat, DaemonInv
<1>7. CASE RelayChanges
  BY <1>7, BeatsStay DEF RelayChanges, DaemonInv, PresenceIsSound
<1>8. CASE Shutdown \/ NetworkStopped \/ Killed \/ StartDaemon
  <2>1. PresenceIsSound'
    BY <1>8, BeatsStay DEF Shutdown, NetworkStopped, Killed, StartDaemon, DaemonInv, PresenceIsSound
  <2> QED BY <1>8, <2>1 DEF Shutdown, NetworkStopped, Killed, StartDaemon, DaemonInv
<1>9. ASSUME NEW b \in beats, HeartbeatLands(b) PROVE DaemonInv'
  BY <1>9 DEF HeartbeatLands, DaemonInv, PresenceIsSound
<1> QED BY <1>1, <1>2, <1>3, <1>4, <1>5, <1>6, <1>7, <1>8, <1>9 DEF DaemonNext, DaemonContinues
-----------------------------------------------------------------------------
(* Wikis and the roster *)

LEMMA WikiSteps ==
  ASSUME [Next]_agentVars
  PROVE  [RosterNext]_wikiVars
<1>1. CASE UNCHANGED agentVars
  BY <1>1 DEF agentVars
<1>2. CASE Next
  BY <1>2 DEF Next
<1> QED BY <1>1, <1>2

Texts == [WikiIds -> Nat]
WikiBoots == [wiki : WikiIds, pc : {"booting", "ready", "failed"}, from : Nat, text : Nat]
WikiCalls == [pc : {"booting", "done", "error"}, kind : {"edit", "read"}, wiki : WikiIds,
              boot : Nat, must : Nat, text : Nat]
Readings == [pc : {"reading"}, at : DOMAIN Wikis, boot : Nat, wanted : Texts]
AtRest == [pc |-> "off"]

WikiTypes ==
    /\ disk \in Texts /\ known \in Texts /\ roster \in Texts /\ rows \in Texts
    /\ settled \in Texts /\ due \in Texts /\ cache \in Texts
    /\ boots \in Seq(WikiBoots)
    /\ toolCall \in [ToolCalls -> {AtRest} \union WikiCalls]
    /\ refresh \in [Refreshes -> {AtRest} \union Readings]
    /\ writes \in Nat /\ asked \subseteq ToolCalls /\ failed \in BOOLEAN /\ crossed \in BOOLEAN

\* A text is the number of a write; what a boot found is not older than what it began with.
BootOk(b) ==
    LET boot == boots[b] IN
    /\ boot.from <= disk[boot.wiki] /\ boot.text <= writes
    /\ boot.pc = "ready" => boot.from <= boot.text

\* An edit that is settled was made in the instance that is cached.
CacheOk(w) ==
    /\ disk[w] <= writes
    /\ cache[w] # 0 => cache[w] \in DOMAIN boots /\ boots[cache[w]].wiki = w
    /\ settled[w] > 0 =>
         /\ cache[w] # 0 /\ boots[cache[w]].pc = "ready" /\ settled[w] <= boots[cache[w]].text

CallOk(c) ==
    LET entry == toolCall[c] IN
    /\ entry.pc = "booting" =>
         /\ entry.boot \in DOMAIN boots
         /\ c \in asked => entry.boot = cache[entry.wiki]
         /\ entry.must > 0 => boots[entry.boot].pc = "ready" /\ entry.must <= boots[entry.boot].text
    /\ entry.pc = "done" => entry.text >= entry.must

\* A refresh, alone, reads instances that were booted since it began.
RefreshOk(r) ==
    LET state == refresh[r] IN
    state.pc = "reading" =>
        /\ state.boot \in DOMAIN boots
        /\ ~crossed =>
             /\ boots[state.boot].wiki = Wikis[state.at]
             /\ state.wanted[Wikis[state.at]] <= boots[state.boot].from
             /\ \A w \in WikiIds :
                  /\ state.wanted[w] <= disk[w]
                  /\ cache[w] # 0 => state.wanted[w] <= boots[cache[w]].from
             /\ \A j \in DOMAIN Wikis : j < state.at => state.wanted[Wikis[j]] <= known[Wikis[j]]

WikiInv ==
    /\ WikiTypes
    /\ \A b \in DOMAIN boots : BootOk(b)
    /\ \A w \in WikiIds : CacheOk(w)
    /\ \A c \in ToolCalls : CallOk(c)
    /\ \A r \in Refreshes : RefreshOk(r)
    /\ ~crossed => \A q, r \in Underway : q = r
    /\ RosterIsFresh

LEMMA WikiIdsAre == \A j \in DOMAIN Wikis : Wikis[j] \in WikiIds
  BY DEF WikiIds

LEMMA WikiInitially ==
  ASSUME RosterInit
  PROVE  WikiInv
<1>1. /\ disk = Nowhere /\ known = Nowhere /\ roster = Nowhere /\ rows = Nowhere /\ settled = Nowhere
      /\ due = Nowhere /\ cache = Nowhere /\ boots = <<>> /\ asked = {} /\ writes = 0
      /\ failed = FALSE /\ crossed = FALSE
      /\ toolCall = [c \in ToolCalls |-> AtRest] /\ refresh = [r \in Refreshes |-> AtRest]
  BY DEF RosterInit, AtRest
<1>2. Nowhere \in Texts /\ \A w \in WikiIds : Nowhere[w] = 0
  BY DEF Nowhere, Texts
<1>3. WikiTypes
  <2>1. boots \in Seq(WikiBoots) /\ asked \subseteq ToolCalls
    BY <1>1
  <2>2. toolCall \in [ToolCalls -> {AtRest} \union WikiCalls]
    BY <1>1
  <2>3. refresh \in [Refreshes -> {AtRest} \union Readings]
    BY <1>1
  <2> QED BY <1>1, <1>2, <2>1, <2>2, <2>3 DEF WikiTypes
<1>4. DOMAIN boots = {}
  BY <1>1
<1>5. Underway = {} /\ \A c \in ToolCalls : toolCall[c].pc = "off"
  BY <1>1 DEF Underway, AtRest
<1>6. \A r \in Refreshes : refresh[r].pc = "off"
  BY <1>1 DEF AtRest
<1> QED BY <1>1, <1>2, <1>3, <1>4, <1>5, <1>6
        DEF WikiInv, CacheOk, CallOk, RefreshOk, RosterIsFresh

LEMMA WikisHold == WikiInv => ReadsFollowEdits /\ RosterIsFresh
  BY DEF WikiInv, CallOk, ReadsFollowEdits

\* A wiki that is asked for is booted or being booted, and is the one that is cached.
LEMMA GetWikiIs ==
  ASSUME WikiTypes, NEW caches \in Texts, NEW w \in WikiIds,
         caches[w] # 0 => caches[w] \in DOMAIN boots /\ boots[caches[w]].wiki = w
  PROVE  LET g == GetWiki(w, caches) IN
         /\ g.boots \in Seq(WikiBoots) /\ g.boot \in Nat \ {0} /\ g.cache = [caches EXCEPT ![w] = g.boot]
         /\ DOMAIN g.boots = DOMAIN boots \union {g.boot}
         /\ \A i \in DOMAIN boots : g.boots[i] = boots[i]
         /\ g.boots[g.boot].wiki = w
         /\ IF caches[w] # 0 THEN g.boot = caches[w]
            ELSE /\ g.boot \notin DOMAIN boots
                 /\ g.boots[g.boot] = [wiki |-> w, pc |-> "booting", from |-> disk[w], text |-> 0]
<1> DEFINE new == [wiki |-> w, pc |-> "booting", from |-> disk[w], text |-> 0]
           g == GetWiki(w, caches)
<1>1. new \in WikiBoots /\ new.wiki = w /\ boots \in Seq(WikiBoots) /\ Len(boots) \in Nat
      /\ DOMAIN boots = 1..Len(boots) /\ caches \in [WikiIds -> Nat]
  BY DEF WikiTypes, WikiBoots, Texts
<1>2. CASE caches[w] # 0
  <2>1. g.boots = boots /\ g.cache = caches /\ g.boot = caches[w]
    BY <1>2 DEF GetWiki
  <2>2. g.boot \in DOMAIN boots /\ boots[g.boot].wiki = w /\ caches = [caches EXCEPT ![w] = g.boot]
    BY <1>1, <1>2, <2>1
  <2> HIDE DEF new
  <2> QED BY <1>1, <1>2, <2>1, <2>2
<1>3. CASE caches[w] = 0
  <2>1. /\ g.boots = Append(boots, new) /\ g.cache = [caches EXCEPT ![w] = Len(boots) + 1]
        /\ g.boot = Len(boots) + 1
    BY <1>3 DEF GetWiki
  <2>2. /\ g.boots \in Seq(WikiBoots) /\ Len(g.boots) = Len(boots) + 1
        /\ \A i \in DOMAIN boots : g.boots[i] = boots[i]
        /\ g.boots[Len(boots) + 1] = new
    <3> HIDE DEF new
    <3> QED BY <1>1, <2>1, AppendProperties
  <2> HIDE DEF new
  <2>3. DOMAIN g.boots = 1..(Len(boots) + 1)
    BY <2>2
  <2>4. DOMAIN g.boots = DOMAIN boots \union {g.boot}
    BY <1>1, <2>1, <2>3
  <2>5. g.boots[g.boot] = new /\ g.boot \in Nat \ {0} /\ g.boot \notin DOMAIN boots
    BY <1>1, <2>1, <2>2
  <2> QED BY <1>1, <1>3, <2>1, <2>2, <2>4, <2>5 DEF new
<1> QED BY <1>2, <1>3

LEMMA CallIs ==
  ASSUME WikiTypes, NEW c \in ToolCalls, toolCall[c].pc # "off"
  PROVE  toolCall[c] \in WikiCalls
  BY DEF WikiTypes, AtRest

LEMMA ReadingIs ==
  ASSUME WikiTypes, NEW r \in Refreshes, refresh[r].pc = "reading"
  PROVE  refresh[r] \in Readings /\ Wikis[refresh[r].at] \in WikiIds
<1>1. refresh[r] \in Readings
  BY DEF WikiTypes, AtRest
<1> QED BY <1>1, WikiIdsAre DEF Readings

\* The boot of a wiki ends.
LEMMA BootEndsKeeps ==
  ASSUME WikiInv, NEW b \in DOMAIN boots, BootEnds(b)
  PROVE  WikiInv'
<1>1. /\ boots[b].pc = "booting" /\ boots[b] \in WikiBoots /\ WikiTypes /\ BootOk(b) /\ disk \in Texts
      /\ \A w \in WikiIds : CacheOk(w)
      /\ UNCHANGED <<disk, cache, toolCall, refresh, known, roster, rows, writes, settled, asked, due,
                     failed, crossed>>
  BY DEF WikiInv, BootEnds, WikiTypes
<1>2. PICK x \in WikiBoots : /\ boots' = [boots EXCEPT ![b] = x] /\ x.wiki = boots[b].wiki
                             /\ x.from = boots[b].from /\ x.text <= writes
                             /\ x.pc = "ready" => x.from <= x.text
  <2>1. CASE boots' = [boots EXCEPT ![b].pc = "failed"]
    <3> DEFINE x == [boots[b] EXCEPT !.pc = "failed"]
    <3>1. x \in WikiBoots /\ x.wiki = boots[b].wiki /\ x.from = boots[b].from /\ x.text = boots[b].text
          /\ x.pc = "failed"
      BY <1>1 DEF WikiBoots
    <3> QED BY <1>1, <2>1, <3>1 DEF BootOk
  <2>2. ASSUME NEW text \in {boots[b].from, disk[boots[b].wiki]},
               boots' = [boots EXCEPT ![b].pc = "ready", ![b].text = text]
        PROVE  \E x \in WikiBoots : /\ boots' = [boots EXCEPT ![b] = x] /\ x.wiki = boots[b].wiki
                                    /\ x.from = boots[b].from /\ x.text <= writes
                                    /\ x.pc = "ready" => x.from <= x.text
    <3> DEFINE x == [boots[b] EXCEPT !.pc = "ready", !.text = text]
    <3>1. text \in Nat /\ text <= writes /\ boots[b].from <= text
      <4>1. /\ boots[b].wiki \in WikiIds /\ boots[b].from \in Nat /\ disk[boots[b].wiki] \in Nat
            /\ boots[b].from <= disk[boots[b].wiki] /\ disk[boots[b].wiki] <= writes /\ writes \in Nat
        BY <1>1 DEF WikiTypes, WikiBoots, BootOk, CacheOk, Texts
      <4>2. text = boots[b].from \/ text = disk[boots[b].wiki]
        BY <2>2
      <4> QED BY <4>1, <4>2
    <3>2. x \in WikiBoots /\ x.wiki = boots[b].wiki /\ x.from = boots[b].from /\ x.text = text
      BY <1>1, <3>1 DEF WikiBoots
    <3> QED BY <2>2, <3>1, <3>2
  <2> QED BY <2>1, <2>2 DEF BootEnds
<1>3. boots' \in Seq(WikiBoots) /\ DOMAIN boots' = DOMAIN boots
      /\ \A i \in DOMAIN boots : boots'[i] = IF i = b THEN x ELSE boots[i]
  BY <1>1, <1>2 DEF WikiTypes
<1>4. WikiTypes'
  BY <1>1, <1>3 DEF WikiTypes
<1>5. ASSUME NEW i \in DOMAIN boots PROVE BootOk(i)'
  BY <1>1, <1>2, <1>3 DEF WikiInv, BootOk
<1>6. ASSUME NEW w \in WikiIds PROVE CacheOk(w)'
  BY <1>1, <1>2, <1>3 DEF CacheOk
<1>7. ASSUME NEW c \in ToolCalls PROVE CallOk(c)'
  <2>1. CallOk(c)
    BY DEF WikiInv
  <2> QED BY <1>1, <1>2, <1>3, <2>1 DEF CallOk
<1>8. ASSUME NEW r \in Refreshes PROVE RefreshOk(r)'
  <2>1. RefreshOk(r)
    BY DEF WikiInv
  <2> QED BY <1>1, <1>2, <1>3, <2>1 DEF RefreshOk, CacheOk
<1> QED BY <1>1, <1>3, <1>4, <1>5, <1>6, <1>7, <1>8 DEF WikiInv, Underway, RosterIsFresh

LEMMA UserWritesKeeps ==
  ASSUME WikiInv, NEW w \in WikiIds, UserWritesFile(w)
  PROVE  WikiInv'
<1>1. /\ writes \in Nat /\ writes' = writes + 1 /\ disk' = [disk EXCEPT ![w] = writes + 1] /\ disk \in Texts
      /\ WikiTypes /\ \A v \in WikiIds : CacheOk(v)
      /\ UNCHANGED <<boots, cache, toolCall, refresh, known, roster, rows, settled, asked, due, failed,
                     crossed>>
  BY DEF WikiInv, UserWritesFile, WikiTypes
<1>2. disk' \in Texts /\ \A v \in WikiIds : disk[v] <= disk'[v] /\ disk'[v] <= writes' /\ disk[v] \in Nat
      /\ disk'[v] \in Nat
  BY <1>1 DEF Texts, CacheOk
<1>3. WikiTypes'
  BY <1>1, <1>2 DEF WikiTypes
<1>4. ASSUME NEW i \in DOMAIN boots' PROVE BootOk(i)'
  <2>1. BootOk(i) /\ boots[i] \in WikiBoots /\ i \in DOMAIN boots
    BY <1>1 DEF WikiInv, WikiTypes
  <2> QED BY <1>1, <1>2, <2>1 DEF BootOk, WikiBoots
<1>5. ASSUME NEW v \in WikiIds PROVE CacheOk(v)'
  BY <1>1, <1>2 DEF CacheOk
<1>6. ASSUME NEW c \in ToolCalls PROVE CallOk(c)'
  BY <1>1 DEF WikiInv, CallOk
<1>7. ASSUME NEW r \in Refreshes PROVE RefreshOk(r)'
  <2>1. RefreshOk(r) /\ (refresh[r].pc = "reading" => refresh[r] \in Readings)
    BY <1>1, ReadingIs DEF WikiInv
  <2> QED BY <1>1, <1>2, <2>1 DEF RefreshOk, Readings, Texts
<1> QED BY <1>1, <1>3, <1>4, <1>5, <1>6, <1>7 DEF WikiInv, Underway, RosterIsFresh

\* A tool asks for a wiki.
LEMMA AsksKeeps ==
  ASSUME WikiInv, NEW c \in ToolCalls, NEW w \in WikiIds, NEW kind \in {"edit", "read"}, Asks(c, w, kind)
  PROVE  WikiInv'
<1> DEFINE g == GetWiki(w, cache)
           entry == [pc |-> "booting", kind |-> kind, wiki |-> w, boot |-> g.boot,
                    must |-> settled[w], text |-> 0]
<1>1. /\ boots' = g.boots /\ cache' = g.cache /\ toolCall' = [toolCall EXCEPT ![c] = entry]
      /\ asked' = asked \union {c} /\ WikiTypes /\ toolCall[c].pc # "booting"
      /\ UNCHANGED <<disk, refresh, known, roster, rows, writes, settled, due, failed, crossed>>
      /\ \A v \in WikiIds : CacheOk(v)
  BY DEF WikiInv, Asks
<1>2. /\ boots' \in Seq(WikiBoots) /\ g.boot \in Nat \ {0} /\ cache' = [cache EXCEPT ![w] = g.boot]
      /\ DOMAIN boots' = DOMAIN boots \union {g.boot}
      /\ \A i \in DOMAIN boots : boots'[i] = boots[i]
      /\ boots'[g.boot].wiki = w
      /\ IF cache[w] # 0 THEN g.boot = cache[w]
         ELSE /\ g.boot \notin DOMAIN boots
              /\ boots'[g.boot] = [wiki |-> w, pc |-> "booting", from |-> disk[w], text |-> 0]
  <2>1. cache \in Texts /\ (cache[w] # 0 => cache[w] \in DOMAIN boots /\ boots[cache[w]].wiki = w)
    BY <1>1 DEF WikiTypes, CacheOk
  <2> QED BY <1>1, <2>1, GetWikiIs
<1> HIDE DEF g
<1>3. /\ cache \in [WikiIds -> Nat] /\ settled \in [WikiIds -> Nat] /\ disk \in [WikiIds -> Nat]
      /\ \A v \in WikiIds : cache'[v] = IF v = w THEN g.boot ELSE cache[v]
      /\ writes \in Nat
  BY <1>1, <1>2 DEF WikiTypes, Texts
<1>4. WikiTypes'
  <2>1. entry \in WikiCalls
    BY <1>2, <1>3 DEF WikiCalls
  <2> HIDE DEF entry
  <2>2. cache' \in Texts
    BY <1>2, <1>3 DEF Texts
  <2>3. toolCall' \in [ToolCalls -> {AtRest} \union WikiCalls]
    BY <1>1, <2>1 DEF WikiTypes
  <2> QED BY <1>1, <1>2, <2>2, <2>3 DEF WikiTypes
<1>5. ASSUME NEW i \in DOMAIN boots' PROVE BootOk(i)'
  <2>1. CASE i \in DOMAIN boots
    BY <1>1, <1>2, <2>1 DEF WikiInv, BootOk
  <2>2. CASE i \notin DOMAIN boots
    <3>1. i = g.boot /\ cache[w] = 0 /\ disk[w] \in Nat
      BY <1>1, <1>2, <1>3, <2>2 DEF CacheOk
    <3> QED BY <1>1, <1>2, <1>3, <3>1 DEF BootOk
  <2> QED BY <2>1, <2>2
<1>6. ASSUME NEW v \in WikiIds PROVE CacheOk(v)'
  BY <1>1, <1>2, <1>3 DEF CacheOk
<1>7. ASSUME NEW d \in ToolCalls PROVE CallOk(d)'
  <2>1. CASE d = c
    <3>1. toolCall'[d] = entry
      BY <1>1, <2>1 DEF WikiTypes
    <3>2. entry.pc = "booting" /\ entry.boot = cache'[entry.wiki] /\ entry.must = settled[w] /\ entry.boot = g.boot
      BY <1>3
    <3>3. settled[w] > 0 => boots'[g.boot].pc = "ready" /\ settled[w] <= boots'[g.boot].text
      BY <1>1, <1>2 DEF CacheOk
    <3> HIDE DEF entry
    <3> QED BY <1>2, <3>1, <3>2, <3>3 DEF CallOk
  <2>2. CASE d # c
    <3>1. toolCall'[d] = toolCall[d] /\ CallOk(d) /\ (toolCall[d].pc = "booting" => toolCall[d] \in WikiCalls)
      BY <1>1, <2>2, CallIs DEF WikiTypes, WikiInv
    <3> QED BY <1>1, <1>2, <1>3, <2>2, <3>1 DEF CallOk, WikiCalls, CacheOk
  <2> QED BY <2>1, <2>2
<1>8. ASSUME NEW r \in Refreshes PROVE RefreshOk(r)'
  <2>1. RefreshOk(r) /\ (refresh[r].pc = "reading" => refresh[r] \in Readings)
    BY <1>1, ReadingIs DEF WikiInv
  <2> QED BY <1>1, <1>2, <1>3, <2>1 DEF RefreshOk, Readings, Texts, CacheOk
<1> QED BY <1>1, <1>4, <1>5, <1>6, <1>7, <1>8 DEF WikiInv, Underway, RosterIsFresh

\* A tool goes on with the instance it was given, or with the failure of its boot.
LEMMA ToolContinuesKeeps ==
  ASSUME WikiInv, NEW c \in ToolCalls, ToolContinues(c)
  PROVE  WikiInv'
<1> DEFINE entry == toolCall[c]
           b == entry.boot
<1>1. /\ entry.pc = "booting" /\ WikiTypes /\ entry \in WikiCalls /\ CallOk(c) /\ b \in DOMAIN boots
      /\ boots[b] \in WikiBoots /\ BootOk(b) /\ entry.wiki \in WikiIds /\ boots \in Seq(WikiBoots)
      /\ UNCHANGED <<disk, cache, refresh, known, roster, rows, asked, due, failed, crossed>>
  <2>1. entry.pc = "booting" /\ WikiTypes /\ CallOk(c)
    BY DEF ToolContinues, WikiInv
  <2>2. entry \in WikiCalls /\ b \in DOMAIN boots /\ boots \in Seq(WikiBoots)
    BY <2>1, CallIs DEF CallOk, WikiTypes
  <2>3. boots[b] \in WikiBoots /\ BootOk(b) /\ entry.wiki \in WikiIds
    BY <2>2 DEF WikiInv, WikiCalls
  <2> QED BY <2>1, <2>2, <2>3 DEF ToolContinues
<1>2. CASE /\ toolCall' = [toolCall EXCEPT ![c].pc = "error"] /\ UNCHANGED <<boots, writes, settled>>
  <2> DEFINE x == [entry EXCEPT !.pc = "error"]
  <2>1. toolCall' = [toolCall EXCEPT ![c] = x] /\ x \in WikiCalls /\ x.pc = "error"
    BY <1>1, <1>2 DEF WikiCalls, WikiTypes
  <2> HIDE DEF x
  <2>2. toolCall' \in [ToolCalls -> {AtRest} \union WikiCalls]
    BY <1>1, <2>1 DEF WikiTypes
  <2>3. WikiTypes'
    BY <1>1, <1>2, <2>2 DEF WikiTypes
  <2>4. ASSUME NEW d \in ToolCalls PROVE CallOk(d)'
    BY <1>1, <1>2, <2>1 DEF WikiTypes, WikiInv, CallOk
  <2> QED BY <1>1, <1>2, <2>3, <2>4 DEF WikiInv, BootOk, CacheOk, RefreshOk, Underway, RosterIsFresh
<1>3. CASE /\ boots[b].pc = "ready" /\ UNCHANGED <<boots, writes, settled>>
           /\ toolCall' = [toolCall EXCEPT ![c].pc = "done", ![c].text = boots[b].text]
  <2> DEFINE x == [entry EXCEPT !.pc = "done", !.text = boots[b].text]
  <2>1. toolCall' = [toolCall EXCEPT ![c] = x] /\ x \in WikiCalls /\ x.pc = "done" /\ x.text >= x.must
    <3>1. boots[b].text \in Nat /\ entry.must \in Nat /\ boots[b].text >= entry.must
      BY <1>1, <1>3 DEF CallOk, WikiBoots, WikiCalls
    <3> QED BY <1>1, <1>3, <3>1 DEF WikiCalls, WikiTypes
  <2> HIDE DEF x
  <2>2. toolCall' \in [ToolCalls -> {AtRest} \union WikiCalls]
    BY <1>1, <2>1 DEF WikiTypes
  <2>3. WikiTypes'
    BY <1>1, <1>3, <2>2 DEF WikiTypes
  <2>4. ASSUME NEW d \in ToolCalls PROVE CallOk(d)'
    BY <1>1, <1>3, <2>1 DEF WikiTypes, WikiInv, CallOk
  <2> QED BY <1>1, <1>3, <2>3, <2>4 DEF WikiInv, BootOk, CacheOk, RefreshOk, Underway, RosterIsFresh
<1>4. CASE /\ boots[b].pc = "ready" /\ writes' = writes + 1
           /\ boots' = [boots EXCEPT ![b].text = writes + 1]
           /\ toolCall' = [toolCall EXCEPT ![c].pc = "done", ![c].text = writes + 1]
           /\ settled' = IF c \in asked THEN [settled EXCEPT ![entry.wiki] = writes + 1] ELSE settled
  <2> DEFINE y == [boots[b] EXCEPT !.text = writes']
             x == [entry EXCEPT !.pc = "done", !.text = writes']
  <2>1. writes \in Nat /\ writes' \in Nat /\ writes < writes' /\ writes <= writes'
    BY <1>1, <1>4 DEF WikiTypes
  <2>2. boots' = [boots EXCEPT ![b] = y] /\ toolCall' = [toolCall EXCEPT ![c] = x]
    BY <1>1, <1>4 DEF WikiTypes
  <2>3. /\ y \in WikiBoots /\ y.wiki = boots[b].wiki /\ y.from = boots[b].from /\ y.pc = "ready"
        /\ y.text = writes'
    BY <1>1, <1>4, <2>1 DEF WikiBoots
  <2>4. x \in WikiCalls /\ x.pc = "done" /\ x.text = writes' /\ x.must = entry.must
    BY <1>1, <2>1 DEF WikiCalls
  <2> HIDE DEF x, y
  <2>5. boots' \in Seq(WikiBoots) /\ DOMAIN boots' = DOMAIN boots
        /\ \A i \in DOMAIN boots : boots'[i] = IF i = b THEN y ELSE boots[i]
    BY <1>1, <2>2, <2>3
  <2>6. settled' \in Texts /\ \A v \in WikiIds :
          settled'[v] = IF c \in asked /\ v = entry.wiki THEN writes' ELSE settled[v]
    BY <1>1, <1>4, <2>1 DEF WikiTypes, Texts
  <2>7. WikiTypes'
    <3>1. toolCall' \in [ToolCalls -> {AtRest} \union WikiCalls]
      BY <1>1, <2>2, <2>4 DEF WikiTypes
    <3> QED BY <1>1, <2>1, <2>5, <2>6, <3>1 DEF WikiTypes
  <2>8. ASSUME NEW i \in DOMAIN boots PROVE BootOk(i)' /\ boots[i].text <= writes /\ boots[i].text \in Nat
    <3>1. BootOk(i) /\ boots[i] \in WikiBoots
      BY <1>1 DEF WikiInv
    <3>2. boots[i].text \in Nat /\ boots[i].from \in Nat /\ boots[i].from <= writes /\ boots[i].wiki \in WikiIds
      <4>1. /\ boots[i].text \in Nat /\ boots[i].from \in Nat /\ boots[i].wiki \in WikiIds
        BY <3>1 DEF WikiBoots
      <4>2. disk[boots[i].wiki] <= writes /\ disk[boots[i].wiki] \in Nat
        BY <1>1, <4>1 DEF WikiInv, CacheOk, WikiTypes, Texts
      <4> QED BY <2>1, <3>1, <4>1, <4>2 DEF BootOk
    <3> QED BY <1>1, <2>1, <2>3, <2>5, <3>1, <3>2 DEF BootOk
  <2>9. ASSUME NEW v \in WikiIds PROVE CacheOk(v)'
    <3>1. CacheOk(v) /\ settled[v] \in Nat /\ disk[v] \in Nat /\ cache'[v] = cache[v]
      BY <1>1 DEF WikiInv, WikiTypes, Texts
    <3>2. cache[v] # 0 => /\ cache[v] \in DOMAIN boots' /\ boots'[cache[v]].wiki = v
                          /\ boots[cache[v]].text <= writes /\ boots[cache[v]].text \in Nat
      BY <1>1, <2>3, <2>5, <2>8, <3>1 DEF CacheOk
    <3>3. CASE c \in asked /\ v = entry.wiki
      <4>1. cache[v] = b /\ b # 0 /\ settled'[v] = writes'
        BY <1>1, <2>6, <3>3 DEF CallOk
      <4> QED BY <1>1, <2>1, <2>3, <2>5, <3>1, <3>2, <4>1 DEF CacheOk
    <3>4. CASE ~(c \in asked /\ v = entry.wiki)
      <4>1. settled'[v] = settled[v]
        BY <2>6, <3>4
      <4>2. settled[v] > 0 => cache[v] # 0 /\ boots'[cache[v]].pc = "ready"
                              /\ settled[v] <= boots'[cache[v]].text
        BY <2>1, <2>3, <2>5, <3>1, <3>2 DEF CacheOk
      <4> QED BY <1>1, <2>1, <3>1, <3>2, <4>1, <4>2 DEF CacheOk
    <3> QED BY <3>3, <3>4
  <2>10. ASSUME NEW d \in ToolCalls PROVE CallOk(d)'
    <3>1. CASE d = c
      <4>1. toolCall'[d] = x /\ entry.must \in Nat
        BY <1>1, <2>2, <3>1 DEF WikiTypes, WikiCalls
      <4>2. entry.must <= writes'
        BY <1>1, <2>1, <2>8, <4>1 DEF CallOk, WikiBoots
      <4> QED BY <2>1, <2>4, <4>1, <4>2 DEF CallOk
    <3>2. CASE d # c
      <4>1. toolCall'[d] = toolCall[d] /\ CallOk(d) /\ (toolCall[d].pc = "booting" => toolCall[d] \in WikiCalls)
        BY <1>1, <2>2, <3>2, CallIs DEF WikiTypes, WikiInv
      <4>2. ASSUME toolCall[d].pc = "booting", toolCall[d].must > 0
            PROVE  /\ boots'[toolCall[d].boot].pc = "ready"
                   /\ toolCall[d].must <= boots'[toolCall[d].boot].text
        <5>1. /\ boots[toolCall[d].boot].pc = "ready" /\ toolCall[d].must <= boots[toolCall[d].boot].text
              /\ toolCall[d].boot \in DOMAIN boots /\ toolCall[d].must \in Nat
          BY <4>1, <4>2 DEF CallOk, WikiCalls
        <5>2. boots[toolCall[d].boot].text <= writes /\ boots[toolCall[d].boot].text \in Nat
          BY <2>8, <5>1
        <5> QED BY <2>1, <2>3, <2>5, <5>1, <5>2
      <4> QED BY <1>1, <2>5, <4>1, <4>2 DEF CallOk
    <3> QED BY <3>1, <3>2
  <2>11. ASSUME NEW r \in Refreshes PROVE RefreshOk(r)'
    <3>1. RefreshOk(r)
      BY DEF WikiInv
    <3>2. \A i \in DOMAIN boots : boots'[i].from = boots[i].from /\ boots'[i].wiki = boots[i].wiki
      BY <2>3, <2>5
    <3>3. \A w \in WikiIds : CacheOk(w)
      BY DEF WikiInv
    <3> QED BY <1>1, <2>5, <3>1, <3>2, <3>3 DEF RefreshOk, CacheOk
  <2> QED BY <1>1, <2>5, <2>7, <2>8, <2>9, <2>10, <2>11 DEF WikiInv, Underway, RosterIsFresh
<1> QED BY <1>2, <1>3, <1>4 DEF ToolContinues

\* A refresh begins: what was cached is forgotten, and the first wiki is asked for.
LEMMA BeginRefreshKeeps ==
  ASSUME WikiInv, NEW r \in Refreshes, BeginRefresh(r)
  PROVE  WikiInv'
<1> DEFINE w == Wikis[1]
           g == GetWiki(w, Nowhere)
           state == [pc |-> "reading", at |-> 1, boot |-> g.boot, wanted |-> disk]
<1>1. /\ refresh[r].pc = "off" /\ WikiTypes /\ boots' = g.boots /\ cache' = g.cache
      /\ refresh' = [refresh EXCEPT ![r] = state] /\ asked' = {} /\ settled' = Nowhere
      /\ crossed' = (crossed \/ Underway # {})
      /\ UNCHANGED <<disk, toolCall, known, roster, rows, writes, due, failed>>
  BY DEF BeginRefresh, WikiInv, ClearWikiCache
<1>2. 1 \in DOMAIN Wikis /\ w \in WikiIds
  BY WikisAssumption, WikiIdsAre
<1> HIDE DEF w
<1>3. Nowhere \in Texts /\ \A v \in WikiIds : Nowhere[v] = 0
  BY DEF Nowhere, Texts
<1>4. /\ boots' \in Seq(WikiBoots) /\ g.boot \in Nat \ {0} /\ cache' = [Nowhere EXCEPT ![w] = g.boot]
      /\ DOMAIN boots' = DOMAIN boots \union {g.boot}
      /\ \A i \in DOMAIN boots : boots'[i] = boots[i]
      /\ boots'[g.boot].wiki = w /\ g.boot \notin DOMAIN boots
      /\ boots'[g.boot] = [wiki |-> w, pc |-> "booting", from |-> disk[w], text |-> 0]
  BY <1>1, <1>2, <1>3, GetWikiIs
<1> HIDE DEF g
<1>5. /\ \A v \in WikiIds : cache'[v] = IF v = w THEN g.boot ELSE 0
      /\ disk \in [WikiIds -> Nat] /\ writes \in Nat /\ cache' \in Texts /\ disk \in Texts
  BY <1>1, <1>3, <1>4 DEF WikiTypes, Texts
<1>6. state \in Readings /\ state.boot = g.boot /\ state.at = 1 /\ state.wanted = disk
  BY <1>2, <1>4, <1>5 DEF Readings
<1> HIDE DEF state
<1>7. WikiTypes'
  <2>1. refresh' \in [Refreshes -> {AtRest} \union Readings]
    BY <1>1, <1>6 DEF WikiTypes
  <2>2. crossed' \in BOOLEAN /\ asked' \subseteq ToolCalls
    BY <1>1
  <2> QED BY <1>1, <1>3, <1>4, <1>5, <2>1, <2>2 DEF WikiTypes
<1>8. ASSUME NEW i \in DOMAIN boots' PROVE BootOk(i)'
  <2>1. CASE i \in DOMAIN boots
    BY <1>1, <1>4, <2>1 DEF WikiInv, BootOk
  <2>2. CASE i = g.boot
    BY <1>1, <1>2, <1>4, <1>5, <2>2 DEF BootOk
  <2> QED BY <1>4, <2>1, <2>2
<1>9. ASSUME NEW v \in WikiIds PROVE CacheOk(v)'
  <2>1. disk[v] <= writes
    BY DEF WikiInv, CacheOk
  <2> QED BY <1>1, <1>3, <1>4, <1>5, <2>1 DEF CacheOk
<1>10. ASSUME NEW d \in ToolCalls PROVE CallOk(d)'
  <2>1. CallOk(d)
    BY DEF WikiInv
  <2> QED BY <1>1, <1>4, <2>1 DEF CallOk
<1>11. refresh'[r] = state /\ \A q \in Refreshes \ {r} : refresh'[q] = refresh[q]
  BY <1>1 DEF WikiTypes
<1>12. ASSUME NEW q \in Refreshes PROVE RefreshOk(q)'
  <2>1. CASE q = r
    <3>1. /\ \A v \in WikiIds : disk[v] \in Nat /\ disk[v] <= disk[v]
          /\ \A v \in WikiIds : cache'[v] # 0 => boots'[cache'[v]].from = disk[v]
      BY <1>4, <1>5
    <3>2. ~(\E j \in DOMAIN Wikis : j < 1)
      BY WikisAssumption
    <3> QED BY <1>1, <1>2, <1>4, <1>6, <1>11, <2>1, <3>1, <3>2 DEF RefreshOk, w
  <2>2. CASE q # r
    <3>1. refresh'[q] = refresh[q] /\ RefreshOk(q)
      BY <1>11, <2>2 DEF WikiInv
    <3>2. refresh[q].pc = "reading" => crossed' = TRUE
      BY <1>1 DEF Underway, WikiTypes
    <3> QED BY <1>4, <3>1, <3>2 DEF RefreshOk
  <2> QED BY <2>1, <2>2
<1>13. ~crossed' => \A p, q \in Underway' : p = q
  <2> SUFFICES ASSUME ~crossed', NEW p \in Underway' PROVE p = r
    BY DEF Underway
  <2>1. Underway = {} /\ p \in Refreshes /\ refresh'[p].pc = "reading"
    BY <1>1 DEF Underway
  <2> QED BY <1>11, <2>1 DEF Underway
<1>14. r \in Underway'
  BY <1>6, <1>11 DEF Underway, Readings
<1> QED BY <1>7, <1>8, <1>9, <1>10, <1>12, <1>13, <1>14 DEF WikiInv, RosterIsFresh

\* A wiki that does not boot ends the refresh.
LEMMA RefreshFailsKeeps ==
  ASSUME WikiInv, NEW r \in Refreshes, RefreshFails(r)
  PROVE  WikiInv'
<1>1. /\ WikiTypes /\ refresh' = [refresh EXCEPT ![r] = AtRest] /\ failed' = TRUE
      /\ UNCHANGED <<disk, boots, cache, toolCall, known, roster, rows, writes, asked, settled, due,
                     crossed>>
  BY DEF RefreshFails, WikiInv, AtRest
<1>2. WikiTypes'
  <2>1. refresh' \in [Refreshes -> {AtRest} \union Readings]
    BY <1>1 DEF WikiTypes
  <2> QED BY <1>1, <2>1 DEF WikiTypes
<1>3. refresh'[r] = AtRest /\ AtRest.pc = "off" /\ \A q \in Refreshes \ {r} : refresh'[q] = refresh[q]
  BY <1>1 DEF WikiTypes, AtRest
<1>4. ASSUME NEW q \in Refreshes PROVE RefreshOk(q)'
  BY <1>1, <1>3 DEF WikiInv, RefreshOk
<1>5. Underway' \subseteq Underway
  BY <1>3 DEF Underway
<1> QED BY <1>1, <1>2, <1>4, <1>5 DEF WikiInv, BootOk, CacheOk, CallOk, RosterIsFresh

\* A wiki answers: its definition is known, and the next wiki asked for or the roster announced.
LEMMA WikiListedKeeps ==
  ASSUME WikiInv, NEW r \in Refreshes, WikiListed(r)
  PROVE  WikiInv'
<1> DEFINE state == refresh[r]
           at == state.at
           b == state.boot
           text == boots[b].text
<1>1. /\ state.pc = "reading" /\ boots[b].pc = "ready" /\ WikiTypes /\ RefreshOk(r)
      /\ known' = WithDefinition(Wikis[at], text)
      /\ UNCHANGED <<disk, toolCall, writes, asked, settled, crossed>>
      /\ \A v \in WikiIds : CacheOk(v)
  BY DEF WikiListed, WikiInv
<1>2. /\ state \in Readings /\ at \in DOMAIN Wikis /\ at \in Nat /\ Wikis[at] \in WikiIds
      /\ state.wanted \in [WikiIds -> Nat] /\ b \in DOMAIN boots
      /\ boots[b] \in WikiBoots /\ text \in Nat /\ boots[b].from \in Nat /\ boots[b].from <= text
      /\ known \in [WikiIds -> Nat]
  <2>1. state \in Readings /\ b \in DOMAIN boots /\ Wikis[at] \in WikiIds
    BY <1>1, ReadingIs DEF RefreshOk
  <2>2. boots[b] \in WikiBoots /\ BootOk(b)
    BY <2>1 DEF WikiInv, WikiTypes
  <2>3. at \in DOMAIN Wikis /\ at \in Nat /\ state.wanted \in [WikiIds -> Nat]
    BY <2>1, WikisAssumption DEF Readings, Texts
  <2>4. text \in Nat /\ boots[b].from \in Nat
    BY <2>2 DEF WikiBoots
  <2>5. boots[b].from <= text /\ known \in [WikiIds -> Nat]
    BY <1>1, <2>2 DEF BootOk, WikiTypes, Texts
  <2> QED BY <2>1, <2>2, <2>3, <2>4, <2>5
<1> HIDE DEF text
<1>3. /\ known' \in [WikiIds -> Nat] /\ \A v \in WikiIds : v # Wikis[at] => known'[v] = known[v]
      /\ known'[Wikis[at]] = IF text = 0 THEN known[Wikis[at]] ELSE text
  BY <1>1, <1>2 DEF WithDefinition
<1>4. ASSUME ~crossed, NEW j \in DOMAIN Wikis, j <= at
      PROVE  state.wanted[Wikis[j]] <= known'[Wikis[j]]
  <2>1. CASE Wikis[j] = Wikis[at]
    <3>1. state.wanted[Wikis[at]] <= boots[b].from
      BY <1>1, <1>2, <1>4 DEF RefreshOk
    <3>2. state.wanted[Wikis[at]] \in Nat /\ known[Wikis[at]] \in Nat
      BY <1>2
    <3> QED BY <1>2, <1>3, <2>1, <3>1, <3>2
  <2>2. CASE Wikis[j] # Wikis[at]
    <3>1. j < at /\ Wikis[j] \in WikiIds
      BY <1>2, <1>4, <2>2, WikiIdsAre, WikisAssumption
    <3> QED BY <1>1, <1>3, <1>4, <2>2, <3>1 DEF RefreshOk
  <2> QED BY <2>1, <2>2
<1>5. ~crossed => \A q \in Refreshes : refresh[q].pc = "reading" => q = r
  BY <1>1 DEF WikiInv, Underway
<1>6. CASE at < Len(Wikis)
  <2> DEFINE w == Wikis[at + 1]
             g == GetWiki(w, cache)
             next == [state EXCEPT !.at = at + 1, !.boot = g.boot]
  <2>1. /\ boots' = g.boots /\ cache' = g.cache /\ UNCHANGED <<roster, rows, due, failed>>
        /\ refresh' = [refresh EXCEPT ![r].at = @ + 1, ![r].boot = g.boot]
    BY <1>6 DEF WikiListed
  <2>2. at + 1 \in DOMAIN Wikis /\ w \in WikiIds
    BY <1>2, <1>6, WikisAssumption, WikiIdsAre
  <2> HIDE DEF w
  <2>3. cache \in Texts /\ (cache[w] # 0 => cache[w] \in DOMAIN boots /\ boots[cache[w]].wiki = w)
    BY <1>1, <2>2 DEF WikiTypes, CacheOk
  <2>4. /\ boots' \in Seq(WikiBoots) /\ g.boot \in Nat \ {0} /\ cache' = [cache EXCEPT ![w] = g.boot]
        /\ DOMAIN boots' = DOMAIN boots \union {g.boot}
        /\ \A i \in DOMAIN boots : boots'[i] = boots[i]
        /\ boots'[g.boot].wiki = w
        /\ IF cache[w] # 0 THEN g.boot = cache[w]
           ELSE /\ g.boot \notin DOMAIN boots
                /\ boots'[g.boot] = [wiki |-> w, pc |-> "booting", from |-> disk[w], text |-> 0]
    <3>1. WikiTypes
      BY <1>1
    <3> QED BY <2>1, <2>2, <2>3, <3>1, GetWikiIs
  <2> HIDE DEF g
  <2>5. /\ cache \in [WikiIds -> Nat] /\ disk \in [WikiIds -> Nat] /\ settled \in [WikiIds -> Nat]
        /\ \A v \in WikiIds : cache'[v] = IF v = w THEN g.boot ELSE cache[v]
        /\ writes \in Nat /\ cache' \in Texts
    BY <1>1, <2>2, <2>4 DEF WikiTypes, Texts
  <2>6. /\ refresh' = [refresh EXCEPT ![r] = next] /\ next \in Readings /\ next.pc = "reading"
        /\ next.at = at + 1 /\ next.boot = g.boot /\ next.wanted = state.wanted
    BY <1>1, <1>2, <2>1, <2>2, <2>4 DEF Readings, WikiTypes
  <2> HIDE DEF next
  <2>7. refresh'[r] = next /\ \A q \in Refreshes \ {r} : refresh'[q] = refresh[q]
    BY <1>1, <2>6 DEF WikiTypes
  <2>8. WikiTypes'
    <3>1. refresh' \in [Refreshes -> {AtRest} \union Readings] /\ known' \in Texts
      BY <1>1, <1>3, <2>6 DEF WikiTypes, Texts
    <3> QED BY <1>1, <2>1, <2>4, <2>5, <3>1 DEF WikiTypes
  <2>9. ASSUME NEW i \in DOMAIN boots' PROVE BootOk(i)'
    <3>1. CASE i \in DOMAIN boots
      BY <1>1, <2>4, <3>1 DEF WikiInv, BootOk
    <3>2. CASE i \notin DOMAIN boots
      <4>1. i = g.boot /\ cache[w] = 0 /\ disk[w] \in Nat
        BY <2>2, <2>3, <2>4, <2>5, <3>2
      <4> QED BY <1>1, <2>4, <2>5, <4>1 DEF BootOk
    <3> QED BY <3>1, <3>2
  <2>10. ASSUME NEW v \in WikiIds PROVE CacheOk(v)'
    <3>1. CacheOk(v)
      BY <1>1
    <3> QED BY <1>1, <2>2, <2>4, <2>5, <3>1 DEF CacheOk
  <2>11. ASSUME NEW d \in ToolCalls PROVE CallOk(d)'
    <3>1. CallOk(d) /\ (toolCall[d].pc = "booting" => toolCall[d] \in WikiCalls)
      BY <1>1, CallIs DEF WikiInv
    <3>2. toolCall[d].pc = "booting" /\ d \in asked => cache'[toolCall[d].wiki] = cache[toolCall[d].wiki]
      <4> SUFFICES ASSUME toolCall[d].pc = "booting", d \in asked
                   PROVE  cache'[toolCall[d].wiki] = cache[toolCall[d].wiki]
        OBVIOUS
      <4>1. toolCall[d].boot = cache[toolCall[d].wiki] /\ toolCall[d].boot \in DOMAIN boots
            /\ toolCall[d].wiki \in WikiIds
        BY <3>1 DEF CallOk, WikiCalls
      <4>2. cache[toolCall[d].wiki] # 0
        BY <1>1, <4>1 DEF WikiTypes
      <4> QED BY <2>4, <2>5, <4>1, <4>2
    <3> QED BY <1>1, <2>4, <3>1, <3>2 DEF CallOk
  <2>12. ASSUME NEW q \in Refreshes PROVE RefreshOk(q)'
    <3>1. CASE q = r
      <4>1. ASSUME ~crossed, NEW v \in WikiIds
            PROVE  /\ state.wanted[v] <= disk[v]
                   /\ cache'[v] # 0 => state.wanted[v] <= boots'[cache'[v]].from
        <5>1. state.wanted[v] <= disk[v] /\ (cache[v] # 0 => state.wanted[v] <= boots[cache[v]].from)
          BY <1>1, <4>1 DEF RefreshOk
        <5>2. cache[v] # 0 => cache[v] \in DOMAIN boots
          BY <1>1 DEF CacheOk
        <5> QED BY <2>4, <2>5, <5>1, <5>2
      <4>2. ASSUME ~crossed
            PROVE  \A j \in DOMAIN Wikis : j < at + 1 => state.wanted[Wikis[j]] <= known'[Wikis[j]]
        <5> SUFFICES ASSUME NEW j \in DOMAIN Wikis, j < at + 1
                     PROVE  state.wanted[Wikis[j]] <= known'[Wikis[j]]
          OBVIOUS
        <5>1. j <= at
          BY <1>2, WikisAssumption
        <5> QED BY <1>4, <4>2, <5>1
      <4>3. ~crossed => state.wanted[w] <= boots'[g.boot].from
        BY <2>2, <2>4, <2>5, <4>1
      <4> HIDE DEF state, at
      <4> QED BY <1>1, <2>1, <2>2, <2>4, <2>6, <2>7, <3>1, <4>1, <4>2, <4>3 DEF RefreshOk, w
    <3>2. CASE q # r
      BY <1>1, <1>5, <2>4, <2>7, <3>2 DEF WikiInv, RefreshOk
    <3> QED BY <3>1, <3>2
  <2>13. Underway' = Underway /\ r \in Underway
    BY <1>1, <2>6, <2>7 DEF Underway
  <2> QED BY <1>1, <2>8, <2>9, <2>10, <2>11, <2>12, <2>13 DEF WikiInv, RosterIsFresh
<1>7. CASE ~(at < Len(Wikis))
  <2>1. /\ roster' = known' /\ rows' = known' /\ refresh' = [refresh EXCEPT ![r] = AtRest]
        /\ due' = state.wanted /\ failed' = FALSE /\ boots' = boots /\ cache' = cache
    BY <1>7 DEF WikiListed, AtRest
  <2>2. WikiTypes'
    <3>1. refresh' \in [Refreshes -> {AtRest} \union Readings]
      BY <1>1, <2>1 DEF WikiTypes
    <3> QED BY <1>1, <1>2, <1>3, <2>1, <3>1 DEF WikiTypes, Texts
  <2>3. refresh'[r] = AtRest /\ AtRest.pc = "off" /\ \A q \in Refreshes \ {r} : refresh'[q] = refresh[q]
    BY <1>1, <2>1 DEF WikiTypes, AtRest
  <2>4. ASSUME NEW q \in Refreshes PROVE RefreshOk(q)'
    <3>1. CASE q = r
      BY <2>3, <3>1 DEF RefreshOk
    <3>2. CASE q # r
      BY <1>1, <1>5, <2>1, <2>3, <3>2 DEF WikiInv, RefreshOk
    <3> QED BY <3>1, <3>2
  <2>5. Underway' \subseteq Underway
    BY <2>3 DEF Underway
  <2>6. ASSUME ~crossed, NEW w \in WikiIds PROVE state.wanted[w] <= known'[w]
    <3>1. PICK j \in DOMAIN Wikis : w = Wikis[j]
      BY DEF WikiIds
    <3>2. j <= at
      BY <1>2, <1>7, WikisAssumption
    <3> QED BY <1>4, <2>6, <3>1, <3>2
  <2>7. RosterIsFresh'
    <3>1. ASSUME ~crossed, NEW w \in WikiIds PROVE known'[w] >= due'[w]
      BY <1>2, <1>3, <2>1, <2>6, <3>1
    <3> QED BY <1>1, <2>1, <3>1 DEF RosterIsFresh
  <2> QED BY <1>1, <2>1, <2>2, <2>4, <2>5, <2>7 DEF WikiInv, BootOk, CacheOk, CallOk
<1> QED BY <1>6, <1>7

LEMMA WikiInvKept ==
  ASSUME WikiInv, [RosterNext]_wikiVars
  PROVE  WikiInv'
<1>1. CASE UNCHANGED wikiVars
  BY <1>1 DEF wikiVars, WikiInv, WikiTypes, BootOk, CacheOk, CallOk, RefreshOk, Underway, RosterIsFresh
<1>2. ASSUME NEW c \in ToolCalls, NEW w \in WikiIds, EditTiddler(c, w) \/ ReadTiddler(c, w)
      PROVE  WikiInv'
  BY <1>2, AsksKeeps DEF EditTiddler, ReadTiddler
<1> QED BY <1>1, <1>2, BootEndsKeeps, UserWritesKeeps, ToolContinuesKeeps, BeginRefreshKeeps,
           WikiListedKeeps, RefreshFailsKeeps DEF RosterNext
-----------------------------------------------------------------------------
(* Checkpoints *)

LEMMA CheckpointSteps ==
  ASSUME [Next]_agentVars
  PROVE  [CheckpointsNext]_checkpointVars
<1>1. CASE UNCHANGED agentVars
  BY <1>1 DEF agentVars
<1>2. CASE Next
  BY <1>2 DEF Next
<1> QED BY <1>1, <1>2

CheckpointNames == {FileOf[v] : v \in Chats}
FileRecords == [chat : Chats, count : Nat]
SaveStates == [stage : {"idle", "read", "open", "done"}, chat : Chats \union {NoFile}, count : Nat]

CheckpointTypes ==
    /\ logged \in [Chats -> Nat]
    /\ checkpointFiles \in [CheckpointNames -> {NoFile, Torn} \union FileRecords]
    /\ inMemory \in [Chats -> {NoFile} \union FileRecords]
    /\ save \in [Saves -> SaveStates]

\* What is saved was logged, and lies in the file of its conversation.
SaveOk(s) ==
    save[s].stage \in {"read", "open"} =>
        save[s].chat \in Chats /\ save[s].count <= logged[save[s].chat]

FileOk(f) ==
    checkpointFiles[f] \in FileRecords =>
        /\ FileOf[checkpointFiles[f].chat] = f
        /\ checkpointFiles[f].count <= logged[checkpointFiles[f].chat]

\* A file that nothing has spoiled is the only conversation's and has one save under way: torn
\* while that has it open, and otherwise as in memory.
ChatOk(v) ==
    FileOf[v] \notin spoiled =>
        /\ ~Shared(v)
        /\ \A s, t \in UnderWay(v) : s = t
        /\ checkpointFiles[FileOf[v]] = IF \E s \in UnderWay(v) : save[s].stage = "open" THEN Torn
                                        ELSE inMemory[v]

CheckpointInv ==
    /\ CheckpointTypes
    /\ \A s \in Saves : SaveOk(s)
    /\ \A f \in CheckpointNames : FileOk(f)
    /\ \A v \in Chats : ChatOk(v)

LEMMA CheckpointsInitially ==
  ASSUME CheckpointsInit
  PROVE  CheckpointInv
<1>1. CheckpointTypes
  BY DEF CheckpointsInit, CheckpointTypes, SaveStates, CheckpointNames
<1>2. \A s \in Saves : SaveOk(s)
  BY DEF CheckpointsInit, SaveOk
<1>3. \A f \in CheckpointNames : FileOk(f)
  BY FilesAssumption DEF CheckpointsInit, FileOk, FileRecords, CheckpointNames
<1>4. ASSUME NEW v \in Chats PROVE ChatOk(v)
  <2>1. UnderWay(v) = {} /\ (FileOf[v] \notin spoiled => ~Shared(v))
    BY DEF CheckpointsInit, UnderWay
  <2>2. checkpointFiles[FileOf[v]] = NoFile /\ inMemory[v] = NoFile
    BY DEF CheckpointsInit
  <2> QED BY <2>1, <2>2 DEF ChatOk
<1> QED BY <1>1, <1>2, <1>3, <1>4 DEF CheckpointInv

LEMMA CheckpointsHold == CheckpointInv => CheckpointsAreSound
<1> SUFFICES ASSUME CheckpointInv PROVE CheckpointsAreSound
  OBVIOUS
<1>1. CheckpointTypes
  BY DEF CheckpointInv
<1>2. ASSUME NEW r \in ListCheckpoints PROVE r.count <= logged[r.chat]
  <2>1. PICK f \in CheckpointNames : r = checkpointFiles[f]
    BY <1>1 DEF ListCheckpoints, CheckpointTypes
  <2>2. r \in FileRecords
    BY <1>1, <2>1 DEF ListCheckpoints, CheckpointTypes
  <2> QED BY <2>1, <2>2 DEF CheckpointInv, FileOk
<1>3. ASSUME NEW v \in Chats, LoadCheckpoint(v) # NoFile, ~Shared(v)
      PROVE  LoadCheckpoint(v).chat = v
  <2>1. FileOf[v] \in CheckpointNames /\ LoadCheckpoint(v) = checkpointFiles[FileOf[v]]
        /\ checkpointFiles[FileOf[v]] \in FileRecords
    BY <1>1, <1>3 DEF LoadCheckpoint, CheckpointNames, CheckpointTypes
  <2>2. LoadCheckpoint(v).chat \in Chats /\ FileOf[LoadCheckpoint(v).chat] = FileOf[v]
    BY <2>1 DEF CheckpointInv, FileOk, FileRecords
  <2> QED BY <1>3, <2>2 DEF Shared
<1>4. ASSUME NEW v \in Chats, FileOf[v] \notin spoiled, UnderWay(v) = {}
      PROVE  LoadCheckpoint(v) = inMemory[v]
  <2>1. checkpointFiles[FileOf[v]] = inMemory[v]
    BY <1>4 DEF CheckpointInv, ChatOk
  <2>2. inMemory[v] # Torn
    BY <1>1, FilesAssumption DEF CheckpointTypes, FileRecords
  <2> QED BY <2>1, <2>2 DEF LoadCheckpoint
<1> QED BY <1>2, <1>3, <1>4 DEF CheckpointsAreSound

LEMMA MessageStoredKeeps ==
  ASSUME CheckpointInv, NEW v \in Chats, MessageStored(v)
  PROVE  CheckpointInv'
<1>1. /\ logged' = [logged EXCEPT ![v] = @ + 1] /\ CheckpointTypes
      /\ UNCHANGED <<checkpointFiles, inMemory, save, spoiled>>
  BY DEF MessageStored, CheckpointInv
<1>2. logged' \in [Chats -> Nat] /\ \A u \in Chats : logged[u] \in Nat /\ logged[u] <= logged'[u]
  BY <1>1 DEF CheckpointTypes
<1>3. ASSUME NEW s \in Saves PROVE SaveOk(s)'
  <2>1. SaveOk(s) /\ save[s].count \in Nat
    BY <1>1 DEF CheckpointInv, CheckpointTypes, SaveStates
  <2> QED BY <1>1, <1>2, <2>1 DEF SaveOk
<1>4. ASSUME NEW f \in CheckpointNames PROVE FileOk(f)'
  BY <1>1, <1>2 DEF FileOk, FileRecords, CheckpointInv
<1>5. ASSUME NEW u \in Chats PROVE ChatOk(u)'
  BY <1>1 DEF ChatOk, UnderWay, CheckpointInv
<1> QED BY <1>1, <1>2, <1>3, <1>4, <1>5 DEF CheckpointInv, CheckpointTypes

\* A save reads the messages of a conversation.
LEMMA ReadMessagesKeeps ==
  ASSUME CheckpointInv, NEW s \in Saves, NEW v \in Chats, ReadMessages(s, v)
  PROVE  CheckpointInv'
<1> DEFINE x == [stage |-> "read", chat |-> v, count |-> logged[v]]
<1>1. /\ save[s].stage = "idle" /\ save' = [save EXCEPT ![s] = x] /\ CheckpointTypes
      /\ spoiled' = IF UnderWay(v) # {} THEN spoiled \union {FileOf[v]} ELSE spoiled
      /\ UNCHANGED <<logged, checkpointFiles, inMemory>>
  BY DEF ReadMessages, CheckpointInv
<1>2. x \in SaveStates /\ x.stage = "read" /\ x.chat = v /\ x.count = logged[v] /\ logged[v] <= logged[v]
  BY <1>1 DEF CheckpointTypes, SaveStates
<1> HIDE DEF x
<1>3. save' \in [Saves -> SaveStates] /\ save'[s] = x /\ \A t \in Saves \ {s} : save'[t] = save[t]
  BY <1>1, <1>2 DEF CheckpointTypes
<1>4. \A t \in Saves : SaveOk(t)'
  BY <1>1, <1>2, <1>3 DEF CheckpointInv, SaveOk
<1>5. \A f \in CheckpointNames : FileOk(f)'
  BY <1>1 DEF CheckpointInv, FileOk
<1>6. ASSUME NEW u \in Chats PROVE ChatOk(u)'
  <2>1. CASE FileOf[u] = FileOf[v]
    <3>1. FileOf[u] \notin spoiled' => UnderWay(u) = {} /\ FileOf[u] \notin spoiled
      BY <1>1, <2>1 DEF UnderWay
    <3>2. UnderWay(u) = {} => \A t \in UnderWay(u)' : t = s
      BY <1>3 DEF UnderWay
    <3> QED BY <1>1, <1>2, <1>3, <3>1, <3>2 DEF ChatOk, CheckpointInv
  <2>2. CASE FileOf[u] # FileOf[v]
    <3>1. UnderWay(u)' = UnderWay(u) /\ s \notin UnderWay(u)
      BY <1>1, <1>2, <1>3, <2>2 DEF UnderWay
    <3>2. \A t \in UnderWay(u) : save'[t] = save[t]
      BY <1>3, <3>1 DEF UnderWay
    <3> QED BY <1>1, <2>2, <3>1, <3>2 DEF ChatOk, CheckpointInv
  <2> QED BY <2>1, <2>2
<1> QED BY <1>1, <1>3, <1>4, <1>5, <1>6 DEF CheckpointInv, CheckpointTypes

\* A save has moved on: it is where it was about, or no longer under way.
LEMMA SaveMoves ==
  ASSUME CheckpointTypes, NEW s \in Saves, NEW st \in {"open", "done"}, save[s].stage \in {"read", "open"},
         save' = [save EXCEPT ![s].stage = st]
  PROVE  /\ save' \in [Saves -> SaveStates] /\ save'[s].stage = st
         /\ save'[s].chat = save[s].chat /\ save'[s].count = save[s].count
         /\ \A t \in Saves \ {s} : save'[t] = save[t]
         /\ \A u \in Chats : UnderWay(u)' = IF st = "open" THEN UnderWay(u) ELSE UnderWay(u) \ {s}
<1> DEFINE x == [save[s] EXCEPT !.stage = st]
<1>1. /\ x \in SaveStates /\ x.stage = st /\ x.chat = save[s].chat /\ x.count = save[s].count
      /\ save' = [save EXCEPT ![s] = x]
  BY DEF CheckpointTypes, SaveStates
<1> HIDE DEF x
<1>2. save' \in [Saves -> SaveStates] /\ save'[s] = x /\ \A t \in Saves \ {s} : save'[t] = save[t]
  BY <1>1 DEF CheckpointTypes
<1>3. \A u \in Chats : UnderWay(u)' = IF st = "open" THEN UnderWay(u) ELSE UnderWay(u) \ {s}
  BY <1>1, <1>2 DEF UnderWay
<1> QED BY <1>1, <1>2, <1>3

LEMMA OpenFileKeeps ==
  ASSUME CheckpointInv, NEW s \in Saves, OpenFile(s)
  PROVE  CheckpointInv'
<1> DEFINE v == save[s].chat
<1>1. /\ save[s].stage = "read" /\ save' = [save EXCEPT ![s].stage = "open"] /\ CheckpointTypes
      /\ checkpointFiles' = [checkpointFiles EXCEPT ![FileOf[v]] = Torn]
      /\ UNCHANGED <<logged, inMemory, spoiled>> /\ v \in Chats
  BY DEF OpenFile, CheckpointInv, SaveOk
<1>2. /\ save' \in [Saves -> SaveStates] /\ save'[s].stage = "open"
      /\ save'[s].chat = v /\ save'[s].count = save[s].count
      /\ \A t \in Saves \ {s} : save'[t] = save[t]
      /\ \A u \in Chats : UnderWay(u)' = UnderWay(u)
  BY <1>1, SaveMoves
<1>3. /\ FileOf[v] \in CheckpointNames
      /\ checkpointFiles' \in [CheckpointNames -> {NoFile, Torn} \union FileRecords]
      /\ checkpointFiles'[FileOf[v]] = Torn
      /\ \A f \in CheckpointNames \ {FileOf[v]} : checkpointFiles'[f] = checkpointFiles[f]
  BY <1>1 DEF CheckpointTypes, CheckpointNames
<1>4. \A t \in Saves : SaveOk(t)'
  BY <1>1, <1>2 DEF CheckpointInv, SaveOk
<1>5. \A f \in CheckpointNames : FileOk(f)'
  BY <1>1, <1>3, FilesAssumption DEF CheckpointInv, FileOk, FileRecords
<1>6. ASSUME NEW u \in Chats PROVE ChatOk(u)'
  <2>1. ChatOk(u) /\ FileOf[u] \in CheckpointNames
    BY DEF CheckpointInv, CheckpointNames
  <2>2. CASE FileOf[u] = FileOf[v]
    <3>1. s \in UnderWay(u)
      BY <1>1, <2>2 DEF UnderWay
    <3> QED BY <1>1, <1>2, <1>3, <2>1, <2>2, <3>1 DEF ChatOk
  <2>3. CASE FileOf[u] # FileOf[v]
    <3>1. s \notin UnderWay(u) /\ \A t \in UnderWay(u) : save'[t] = save[t]
      BY <1>2, <2>3 DEF UnderWay
    <3> QED BY <1>1, <1>2, <1>3, <2>1, <2>3, <3>1 DEF ChatOk
  <2> QED BY <2>2, <2>3
<1> QED BY <1>1, <1>2, <1>3, <1>4, <1>5, <1>6 DEF CheckpointInv, CheckpointTypes

LEMMA WriteRecordKeeps ==
  ASSUME CheckpointInv, NEW s \in Saves, WriteRecord(s)
  PROVE  CheckpointInv'
<1> DEFINE v == save[s].chat
           file == FileOf[v]
           old == checkpointFiles[file]
<1>1. /\ save[s].stage = "open" /\ save' = [save EXCEPT ![s].stage = "done"] /\ CheckpointTypes
      /\ inMemory' = [inMemory EXCEPT ![v] = Record(s)]
      /\ UNCHANGED <<logged, spoiled>> /\ v \in Chats /\ save[s].count <= logged[v]
  BY DEF WriteRecord, CheckpointInv, SaveOk
<1>2. /\ save' \in [Saves -> SaveStates] /\ save'[s].stage = "done"
      /\ \A t \in Saves \ {s} : save'[t] = save[t]
      /\ \A u \in Chats : UnderWay(u)' = UnderWay(u) \ {s}
  BY <1>1, SaveMoves
<1>3. /\ Record(s) \in FileRecords /\ Record(s).chat = v /\ Record(s).count = save[s].count
      /\ file \in CheckpointNames
  BY <1>1 DEF Record, FileRecords, CheckpointTypes, SaveStates, CheckpointNames
<1>4. PICK x \in {Record(s), Torn} : /\ checkpointFiles' = [checkpointFiles EXCEPT ![file] = x]
                                     /\ x # Record(s) => old # Torn
  BY DEF WriteRecord
<1>5. /\ checkpointFiles' \in [CheckpointNames -> {NoFile, Torn} \union FileRecords]
      /\ checkpointFiles'[file] = x
      /\ \A f \in CheckpointNames \ {file} : checkpointFiles'[f] = checkpointFiles[f]
  BY <1>1, <1>3, <1>4 DEF CheckpointTypes
<1>6. inMemory' \in [Chats -> {NoFile} \union FileRecords] /\ inMemory'[v] = Record(s)
      /\ \A u \in Chats \ {v} : inMemory'[u] = inMemory[u]
  BY <1>1, <1>3 DEF CheckpointTypes
<1>7. \A t \in Saves : SaveOk(t)'
  BY <1>1, <1>2 DEF CheckpointInv, SaveOk
<1>8. ASSUME NEW f \in CheckpointNames PROVE FileOk(f)'
  <2>1. CASE f = file
    <3>1. x \in FileRecords => x = Record(s)
      BY <1>4, FilesAssumption DEF FileRecords
    <3> QED BY <1>1, <1>3, <1>5, <2>1, <3>1 DEF FileOk
  <2>2. CASE f # file
    BY <1>1, <1>5, <2>2 DEF FileOk, CheckpointInv
  <2> QED BY <2>1, <2>2
<1>9. ASSUME NEW u \in Chats PROVE ChatOk(u)'
  <2>1. ChatOk(u) /\ FileOf[u] \in CheckpointNames
    BY DEF CheckpointInv, CheckpointNames
  <2>2. CASE u = v
    <3>1. s \in UnderWay(u)
      BY <1>1, <2>2 DEF UnderWay
    <3>2. FileOf[u] \notin spoiled => old = Torn /\ UnderWay(u) = {s}
      BY <1>1, <2>1, <2>2, <3>1 DEF ChatOk
    <3>3. FileOf[u] \notin spoiled => x = Record(s)
      BY <1>4, <3>2
    <3>4. FileOf[u] \notin spoiled => UnderWay(u)' = {}
      BY <1>2, <3>2
    <3>5. checkpointFiles'[FileOf[u]] = x /\ inMemory'[u] = Record(s) /\ spoiled' = spoiled
      BY <1>1, <1>5, <1>6, <2>2
    <3> QED BY <2>1, <3>3, <3>4, <3>5 DEF ChatOk, Shared
  <2>3. CASE u # v /\ FileOf[u] = file
    <3>1. Shared(u)
      BY <1>1, <2>3 DEF Shared
    <3> QED BY <1>1, <2>1, <3>1 DEF ChatOk
  <2>4. CASE FileOf[u] # file
    <3>1. s \notin UnderWay(u) /\ \A t \in UnderWay(u) : save'[t] = save[t]
      BY <1>2, <2>4 DEF UnderWay
    <3>2. UnderWay(u)' = UnderWay(u) /\ inMemory'[u] = inMemory[u]
      BY <1>2, <1>6, <2>4, <3>1
    <3> QED BY <1>1, <1>5, <2>1, <2>4, <3>1, <3>2 DEF ChatOk
  <2> QED BY <2>2, <2>3, <2>4
<1> QED BY <1>1, <1>2, <1>5, <1>6, <1>7, <1>8, <1>9 DEF CheckpointInv, CheckpointTypes

LEMMA SaveGoesWrongKeeps ==
  ASSUME CheckpointInv, NEW s \in Saves, SaveGoesWrong(s)
  PROVE  CheckpointInv'
<1>1. /\ save[s].stage \in {"read", "open"} /\ save' = [save EXCEPT ![s].stage = "done"]
      /\ spoiled' = IF save[s].stage = "open" THEN spoiled \union {FileOf[save[s].chat]} ELSE spoiled
      /\ UNCHANGED <<logged, checkpointFiles, inMemory>> /\ CheckpointTypes
  BY DEF SaveGoesWrong, CheckpointInv
<1>2. /\ save' \in [Saves -> SaveStates] /\ save'[s].stage = "done"
      /\ \A t \in Saves \ {s} : save'[t] = save[t]
      /\ \A u \in Chats : UnderWay(u)' = UnderWay(u) \ {s}
  BY <1>1, SaveMoves
<1>3. \A t \in Saves : SaveOk(t)'
  BY <1>1, <1>2 DEF CheckpointInv, SaveOk
<1>4. ASSUME NEW u \in Chats PROVE ChatOk(u)'
  <2>1. ChatOk(u) /\ (\A t \in UnderWay(u) \ {s} : save'[t] = save[t])
    BY <1>2 DEF CheckpointInv, UnderWay
  <2>2. FileOf[u] \notin spoiled' => FileOf[u] \notin spoiled
    BY <1>1
  <2>3. FileOf[u] \notin spoiled' /\ s \in UnderWay(u) => save[s].stage = "read"
    BY <1>1 DEF UnderWay
  <2> QED BY <1>1, <1>2, <2>1, <2>2, <2>3 DEF ChatOk
<1> QED BY <1>1, <1>2, <1>3, <1>4 DEF CheckpointInv, CheckpointTypes, FileOk

LEMMA CrashKeeps ==
  ASSUME CheckpointInv, Crash
  PROVE  CheckpointInv'
<1>1. /\ save' = [s \in Saves |-> IF save[s].stage = "idle" THEN save[s]
                                  ELSE [save[s] EXCEPT !.stage = "done"]]
      /\ spoiled' = spoiled \union {FileOf[save[s].chat] : s \in {t \in Saves : save[t].stage = "open"}}
      /\ UNCHANGED <<logged, checkpointFiles, inMemory>> /\ CheckpointTypes
  BY DEF Crash, CheckpointInv
<1>2. /\ save' \in [Saves -> SaveStates]
      /\ \A s \in Saves : save'[s].stage \in {"idle", "done"}
  BY <1>1 DEF CheckpointTypes, SaveStates
<1>3. ASSUME NEW u \in Chats PROVE ChatOk(u)'
  <2>1. ChatOk(u)
    BY DEF CheckpointInv
  <2>2. UnderWay(u)' = {}
    BY <1>2 DEF UnderWay
  <2>3. FileOf[u] \notin spoiled' =>
          FileOf[u] \notin spoiled /\ ~\E s \in UnderWay(u) : save[s].stage = "open"
    BY <1>1 DEF UnderWay
  <2> QED BY <1>1, <2>1, <2>2, <2>3 DEF ChatOk
<1> QED BY <1>1, <1>2, <1>3 DEF CheckpointInv, CheckpointTypes, FileOk, SaveOk

LEMMA DeleteKeeps ==
  ASSUME CheckpointInv, NEW v \in Chats, DeleteCheckpoint(v)
  PROVE  CheckpointInv'
<1>1. /\ checkpointFiles' = [checkpointFiles EXCEPT ![FileOf[v]] = NoFile]
      /\ inMemory' = [inMemory EXCEPT ![v] = NoFile]
      /\ spoiled' = IF UnderWay(v) # {} THEN spoiled \union {FileOf[v]} ELSE spoiled
      /\ UNCHANGED <<logged, save>> /\ CheckpointTypes
  BY DEF DeleteCheckpoint, CheckpointInv
<1>2. /\ FileOf[v] \in CheckpointNames
      /\ checkpointFiles' \in [CheckpointNames -> {NoFile, Torn} \union FileRecords]
      /\ checkpointFiles'[FileOf[v]] = NoFile
      /\ \A f \in CheckpointNames \ {FileOf[v]} : checkpointFiles'[f] = checkpointFiles[f]
      /\ inMemory' \in [Chats -> {NoFile} \union FileRecords] /\ inMemory'[v] = NoFile
      /\ \A u \in Chats \ {v} : inMemory'[u] = inMemory[u]
  BY <1>1 DEF CheckpointTypes, CheckpointNames
<1>3. ASSUME NEW u \in Chats PROVE ChatOk(u)'
  <2>1. ChatOk(u) /\ UnderWay(u)' = UnderWay(u) /\ FileOf[u] \in CheckpointNames
    BY <1>1 DEF CheckpointInv, UnderWay, CheckpointNames
  <2>2. CASE u = v
    BY <1>1, <1>2, <2>1, <2>2 DEF ChatOk
  <2>3. CASE u # v /\ FileOf[u] = FileOf[v]
    <3>1. Shared(u)
      BY <2>3 DEF Shared
    <3> QED BY <1>1, <2>1, <3>1 DEF ChatOk
  <2>4. CASE FileOf[u] # FileOf[v]
    BY <1>1, <1>2, <2>1, <2>4 DEF ChatOk
  <2> QED BY <2>2, <2>3, <2>4
<1>4. \A f \in CheckpointNames : FileOk(f)'
  BY <1>1, <1>2, FilesAssumption DEF CheckpointInv, FileOk, FileRecords
<1> QED BY <1>1, <1>2, <1>3, <1>4 DEF CheckpointInv, CheckpointTypes, SaveOk

LEMMA CheckpointInvKept ==
  ASSUME CheckpointInv, [CheckpointsNext]_checkpointVars
  PROVE  CheckpointInv'
<1>1. CASE UNCHANGED checkpointVars
  BY <1>1 DEF checkpointVars, CheckpointInv, CheckpointTypes, SaveOk, FileOk, ChatOk, UnderWay
<1> QED BY <1>1, MessageStoredKeeps, ReadMessagesKeeps, OpenFileKeeps, WriteRecordKeeps,
           SaveGoesWrongKeeps, CrashKeeps, DeleteKeeps DEF CheckpointsNext
-----------------------------------------------------------------------------
(* The backup in a pod *)

LEMMA PodSteps ==
  ASSUME [Next]_agentVars
  PROVE  [PodNext]_podVars
<1>1. CASE UNCHANGED agentVars
  BY <1>1 DEF agentVars
<1>2. CASE Next
  BY <1>2 DEF Next
<1> QED BY <1>1, <1>2

PodMessages == {S \in SUBSET Nat : IsFiniteSet(S)}
PodRows == [PodConversations -> Nat]
PodContents == [PodConversations -> PodMessages]
Payloads == [rows : PodRows, messages : PodContents]
Pushes == [pc : {"off", "listing", "pulling", "collecting", "writing", "again"}, rows : PodRows,
           previous : Payloads \union {NoBackup}, left : SUBSET PodConversations,
           messages : PodContents, at : Nat]
Adapters == [pc : {"off", "merging", "merged"}, pulled : Payloads \union {NoBackup},
             left : SUBSET PodConversations, timer : BOOLEAN, starts : Nat]

PodTypes ==
    /\ store \in PodContents /\ row \in PodRows /\ pod \in Payloads \union {NoBackup}
    /\ lastPush \in Nat /\ now \in Nat \ {0} /\ push \in Pushes /\ adapter \in Adapters

\* Messages come with a row.  What this device has written to the pod is in its store; what is not
\* in the pod although its row is not newer than the last push has been missed.
ConversationOk(c) ==
    /\ row[c] = 0 => store[c] = {}
    /\ lastPush > 0 => Saved(c) \subseteq store[c]
    /\ lastPush > 0 /\ row[c] <= lastPush => store[c] \ Saved(c) \subseteq missed

\* The same of the rows as they were listed, and of what has been collected.
CollectedOk(c) ==
    /\ push.messages[c] \subseteq store[c]
    /\ push.pc \in {"pulling", "collecting"} /\ lastPush > 0 /\ push.rows[c] <= lastPush =>
         store[c] \ Saved(c) \subseteq missed
    /\ push.pc \in {"off", "listing"} \/ push.rows[c] = 0 => push.messages[c] = {}
    /\ push.pc \notin {"off", "listing"} /\ c \notin push.left =>
         store[c] \ push.messages[c] \subseteq missed
    /\ c \in push.left => push.rows[c] > 0

PushOk ==
    /\ push.pc \in {"writing", "again"} => push.left = {} /\ push.at > 0
    /\ push.pc \in {"off", "listing", "pulling"} => push.previous = NoBackup
    /\ push.pc = "collecting" /\ push.previous # NoBackup => push.previous = pod /\ lastPush > 0
    /\ push.pc = "pulling" => lastPush > 0

\* What a payload has no row for it has no messages of; what start has pulled gets its rows first.
PulledOk(c) ==
    LET pulled == adapter.pulled IN
    /\ pod # NoBackup /\ pod.rows[c] = 0 => pod.messages[c] = {}
    /\ pulled # NoBackup /\ pulled.rows[c] = 0 => pulled.messages[c] = {}
    /\ adapter.pc = "merging" /\ c \in adapter.left => pulled # NoBackup /\ pulled.rows[c] > 0
    /\ adapter.pc = "merging" /\ c \notin adapter.left /\ pulled # NoBackup /\ pulled.rows[c] > 0 =>
         row[c] > 0
    /\ adapter.pc = "merged" /\ pulled # NoBackup => pulled.messages[c] \subseteq store[c]

PodInv ==
    /\ PodTypes /\ PushOk
    /\ \A c \in PodConversations : ConversationOk(c) /\ CollectedOk(c) /\ PulledOk(c)

LEMMA PayloadsAre == NoBackup \notin Payloads /\ {} \in PodMessages /\ {0} \in PodMessages
<1>1. Payloads \subseteq [rows : [PodConversations -> Nat], messages : [PodConversations -> SUBSET Nat]]
  BY DEF Payloads, PodRows, PodContents, PodMessages
<1>2. IsFiniteSet({})
  BY FS_EmptySet
<1>3. IsFiniteSet({0})
  BY FS_Singleton
<1> QED BY <1>1, <1>2, <1>3, PodAssumption DEF PodMessages

LEMMA NothingIs ==
  /\ Nothing \in PodContents /\ NoRows \in PodRows
  /\ \A c \in PodConversations : Nothing[c] = {} /\ NoRows[c] = 0
  /\ NoPush \in Pushes /\ NoPush.pc = "off" /\ NoPush.previous = NoBackup /\ NoPush.left = {}
  /\ NoPush.messages = Nothing /\ NoPush.rows = NoRows
<1>1. /\ Nothing \in PodContents /\ NoRows \in PodRows
      /\ \A c \in PodConversations : Nothing[c] = {} /\ NoRows[c] = 0
  BY PayloadsAre DEF Nothing, NoRows, PodContents, PodRows
<1> QED BY <1>1 DEF NoPush, Pushes

LEMMA PodInitially ==
  ASSUME PodInit
  PROVE  PodInv
<1>1. /\ store = Nothing /\ row = NoRows /\ lastPush = 0 /\ now = 1 /\ push = NoPush
      /\ adapter = [pc |-> "off", pulled |-> NoBackup, left |-> {}, timer |-> FALSE, starts |-> 0]
  BY DEF PodInit
<1>2. ASSUME pod # NoBackup
      PROVE  pod \in Payloads /\ \A c \in PodConversations : pod.rows[c] = 0 => pod.messages[c] = {}
  <2> PICK d \in PodConversations :
        pod = [rows |-> [NoRows EXCEPT ![d] = 1], messages |-> [Nothing EXCEPT ![d] = {0}]]
    BY <1>2 DEF PodInit
  <2>1. /\ [NoRows EXCEPT ![d] = 1] \in PodRows /\ [Nothing EXCEPT ![d] = {0}] \in PodContents
        /\ \A c \in PodConversations \ {d} : [Nothing EXCEPT ![d] = {0}][c] = {}
        /\ [NoRows EXCEPT ![d] = 1][d] = 1
    BY NothingIs, PayloadsAre DEF PodRows, PodContents
  <2> QED BY <2>1 DEF Payloads
<1>3. adapter \in Adapters /\ adapter.pc = "off" /\ adapter.pulled = NoBackup
  BY <1>1 DEF Adapters
<1>4. PodTypes
  BY <1>1, <1>2, <1>3, NothingIs DEF PodTypes
<1>5. PushOk
  BY <1>1, NothingIs DEF PushOk
<1>6. ASSUME NEW c \in PodConversations PROVE ConversationOk(c) /\ CollectedOk(c) /\ PulledOk(c)
  <2>1. ConversationOk(c)
    BY <1>1, NothingIs DEF ConversationOk
  <2>2. CollectedOk(c)
    BY <1>1, NothingIs DEF CollectedOk
  <2>3. PulledOk(c)
    BY <1>2, <1>3 DEF PulledOk
  <2> QED BY <2>1, <2>2, <2>3
<1> QED BY <1>4, <1>5, <1>6 DEF PodInv

LEMMA PodHolds == PodInv => BackupIsSound
<1> SUFFICES ASSUME PodInv PROVE BackupIsSound
  OBVIOUS
<1>1. OnlyMissedAreMissing
  BY DEF PodInv, ConversationOk, OnlyMissedAreMissing
<1>2. RestoredBeforePushed
  BY DEF PodInv, PulledOk, RestoredBeforePushed
<1> QED BY <1>1, <1>2 DEF BackupIsSound

LEMMA StoredIsFinite ==
  ASSUME PodTypes
  PROVE  Cardinality(Stored) + 1 \in Nat /\ {Cardinality(Stored) + 1} \in PodMessages
<1> DEFINE X == {store[c] : c \in PodConversations}
           f == [c \in PodConversations |-> store[c]]
<1>1. f \in Surjection(PodConversations, X)
  BY DEF Surjection
<1>2. IsFiniteSet(X)
  BY <1>1, PodAssumption, FS_Surjection
<1>3. \A S \in X : IsFiniteSet(S)
  BY DEF PodTypes, PodContents, PodMessages
<1>4. IsFiniteSet(UNION X)
  BY <1>2, <1>3, FS_UNION
<1>5. Cardinality(Stored) + 1 \in Nat
  BY <1>4, FS_CardinalityType DEF Stored
<1>6. IsFiniteSet({Cardinality(Stored) + 1})
  BY FS_Singleton
<1> QED BY <1>5, <1>6 DEF PodMessages

\* What comes to a conversation, when the messages that no later push looks for are counted.
LEMMA ArrivalIsCounted ==
  ASSUME PodInv, UNCHANGED <<pod, lastPush, push>>, missed \subseteq missed',
         store' \in PodContents, row' \in PodRows,
         NEW c \in PodConversations, store[c] \subseteq store'[c],
         \/ store'[c] = store[c] /\ row'[c] = row[c]
         \/ /\ row'[c] > 0
            /\ row'[c] <= lastPush => store'[c] \ Saved(c) \subseteq missed'
            /\ row'[c] > lastPush /\ Pushing => store'[c] \ store[c] \subseteq missed'
  PROVE  ConversationOk(c)' /\ CollectedOk(c)'
<1>1. PodTypes /\ PushOk /\ ConversationOk(c) /\ CollectedOk(c)
  BY DEF PodInv
<1>2. lastPush \in Nat /\ row'[c] \in Nat /\ row[c] \in Nat /\ Saved(c)' = Saved(c)
  BY <1>1 DEF PodTypes, PodRows, Saved
<1>3. CASE store'[c] = store[c] /\ row'[c] = row[c]
  BY <1>1, <1>2, <1>3 DEF ConversationOk, CollectedOk
<1>4. CASE /\ row'[c] > 0 /\ row'[c] <= lastPush
           /\ store'[c] \ Saved(c) \subseteq missed'
  <2>1. lastPush > 0 /\ Saved(c) \subseteq store[c]
    BY <1>1, <1>2, <1>4 DEF ConversationOk
  <2>2. ConversationOk(c)'
    BY <1>2, <1>4, <2>1 DEF ConversationOk
  <2>3. ASSUME push.pc \notin {"off", "listing"}, c \notin push.left
        PROVE  store'[c] \ push.messages[c] \subseteq missed'
    <3>1. store[c] \ push.messages[c] \subseteq missed
      BY <1>1, <2>3 DEF CollectedOk
    <3> QED BY <1>4, <2>1, <3>1
  <2>4. CollectedOk(c)'
    BY <1>1, <1>2, <1>4, <2>3 DEF CollectedOk
  <2> QED BY <2>2, <2>4
<1>5. CASE row'[c] > 0 /\ row'[c] > lastPush
  <2>1. ConversationOk(c)'
    BY <1>1, <1>2, <1>5 DEF ConversationOk
  <2>2. Pushing => store'[c] \subseteq store[c] \union missed'
    BY <1>3, <1>5
  <2>3. CollectedOk(c)'
    BY <1>1, <1>2, <2>2 DEF CollectedOk, Pushing
  <2> QED BY <2>1, <2>3
<1> QED BY <1>2, <1>3, <1>4, <1>5

\* What is not in the order of arrivals: what start has pulled.
LEMMA PulledStays ==
  ASSUME PodInv, UNCHANGED <<pod, adapter>>, store' \in PodContents, row' \in PodRows,
         NEW c \in PodConversations, store[c] \subseteq store'[c], row[c] > 0 => row'[c] > 0
  PROVE  PulledOk(c)'
<1>1. PulledOk(c)
  BY DEF PodInv
<1> QED BY <1>1 DEF PulledOk

LEMMA ArrivedKeeps ==
  ASSUME PodInv, UNCHANGED <<pod, lastPush, push, now>>,
         NEW c \in PodConversations, NEW new \in PodMessages, NEW at \in Nat \ {0}, Arrived(c, new, at)
  PROVE  /\ store' \in PodContents /\ row' \in PodRows
         /\ row'[c] = at
         /\ \A d \in PodConversations :
              /\ ConversationOk(d)' /\ CollectedOk(d)'
              /\ store[d] \subseteq store'[d] /\ (row[d] > 0 => row'[d] > 0)
              /\ d # c => row'[d] = row[d]
<1>1. /\ store' = [store EXCEPT ![c] = @ \union new] /\ row' = [row EXCEPT ![c] = at]
      /\ missed' = missed \union MayMiss(c, new, at)
      /\ PodTypes
  BY DEF Arrived, PodInv
<1>2. store[c] \union new \in PodMessages
  <2>1. store[c] \in PodMessages
    BY <1>1 DEF PodTypes, PodContents
  <2> QED BY <2>1, FS_Union DEF PodMessages
<1>3. /\ store' \in PodContents /\ row' \in PodRows
      /\ store'[c] = store[c] \union new /\ row'[c] = at
      /\ \A d \in PodConversations \ {c} : store'[d] = store[d] /\ row'[d] = row[d]
  BY <1>1, <1>2 DEF PodTypes, PodContents, PodRows
<1>4. /\ at <= lastPush => store'[c] \ Saved(c) \subseteq missed'
      /\ at > lastPush /\ Pushing => store'[c] \ store[c] \subseteq missed'
  <2>1. lastPush \in Nat
    BY <1>1 DEF PodTypes
  <2> QED BY <1>1, <1>3, <2>1 DEF MayMiss
<1>5. missed \subseteq missed'
  BY <1>1
<1>6. ASSUME NEW d \in PodConversations
      PROVE  /\ ConversationOk(d)' /\ CollectedOk(d)'
             /\ store[d] \subseteq store'[d] /\ (row[d] > 0 => row'[d] > 0)
             /\ d # c => row'[d] = row[d]
  <2>1. store[d] \subseteq store'[d] /\ (row[d] > 0 => row'[d] > 0)
    BY <1>3
  <2>2. CASE d = c
    <3>1. /\ row'[d] > 0
          /\ row'[d] <= lastPush => store'[d] \ Saved(d) \subseteq missed'
          /\ row'[d] > lastPush /\ Pushing => store'[d] \ store[d] \subseteq missed'
      BY <1>3, <1>4, <2>2
    <3> QED BY <1>3, <1>5, <2>1, <2>2, <3>1, ArrivalIsCounted
  <2>3. CASE d # c
    <3>1. store'[d] = store[d] /\ row'[d] = row[d]
      BY <1>3, <2>3
    <3> QED BY <1>3, <1>5, <2>1, <3>1, ArrivalIsCounted
  <2> QED BY <2>2, <2>3
<1> QED BY <1>3, <1>6

LEMMA ArrivalKeeps ==
  ASSUME PodInv, UNCHANGED <<pod, lastPush, adapter, push, now>>,
         NEW c \in PodConversations, NEW new \in PodMessages, NEW at \in Nat \ {0}, Arrived(c, new, at)
  PROVE  PodInv'
<1>1. /\ store' \in PodContents /\ row' \in PodRows
      /\ \A d \in PodConversations :
           /\ ConversationOk(d)' /\ CollectedOk(d)'
           /\ store[d] \subseteq store'[d] /\ (row[d] > 0 => row'[d] > 0)
  BY ArrivedKeeps
<1>2. \A d \in PodConversations : PulledOk(d)'
  BY <1>1, PulledStays
<1>3. PodTypes' /\ PushOk'
  BY <1>1 DEF PodInv, PodTypes, PushOk
<1> QED BY <1>1, <1>2, <1>3 DEF PodInv

LEMMA MergeRowKeeps ==
  ASSUME PodInv, NEW c \in PodConversations, MergeRow(c)
  PROVE  PodInv'
<1>1. /\ adapter.pc = "merging" /\ c \in adapter.left
      /\ adapter' = [adapter EXCEPT !.left = @ \ {c}]
      /\ Arrived(c, {}, adapter.pulled.rows[c])
      /\ UNCHANGED <<pod, lastPush, push, now, failures>>
  BY DEF MergeRow
<1>2. PodTypes /\ PushOk /\ PulledOk(c)
  BY DEF PodInv
<1>3. adapter.pulled # NoBackup /\ adapter.pulled.rows[c] > 0
  BY <1>1, <1>2 DEF PulledOk
<1>4. adapter.pulled.rows[c] \in Nat \ {0}
  <2>1. adapter.pulled \in Payloads
    BY <1>2, <1>3 DEF PodTypes, Adapters
  <2>2. adapter.pulled.rows[c] \in Nat
    BY <2>1 DEF Payloads, PodRows
  <2> QED BY <1>3, <2>2
<1>5. /\ store' \in PodContents /\ row' \in PodRows
      /\ row'[c] > 0
      /\ \A d \in PodConversations :
           /\ ConversationOk(d)' /\ CollectedOk(d)'
           /\ store[d] \subseteq store'[d] /\ (row[d] > 0 => row'[d] > 0)
           /\ d # c => row'[d] = row[d]
  BY <1>1, <1>4, PayloadsAre, ArrivedKeeps
<1>6. /\ adapter' \in Adapters /\ adapter'.pc = "merging" /\ adapter'.pulled = adapter.pulled
      /\ adapter'.left = adapter.left \ {c}
  BY <1>1, <1>2 DEF PodTypes, Adapters
<1>7. PodTypes' /\ PushOk'
  BY <1>1, <1>2, <1>5, <1>6 DEF PodTypes, PushOk
<1>8. ASSUME NEW d \in PodConversations PROVE PulledOk(d)'
  <2>1. PulledOk(d)
    BY DEF PodInv
  <2>2. CASE d = c
    BY <1>1, <1>5, <1>6, <2>1, <2>2 DEF PulledOk
  <2>3. CASE d # c
    BY <1>1, <1>5, <1>6, <2>1, <2>3 DEF PulledOk
  <2> QED BY <2>2, <2>3
<1> QED BY <1>5, <1>7, <1>8 DEF PodInv

LEMMA MergeMessagesKeeps ==
  ASSUME PodInv, MergeMessages
  PROVE  PodInv'
<1>1. /\ adapter.pc = "merging" /\ adapter.left = {}
      /\ adapter' = [adapter EXCEPT !.pc = "merged"]
      /\ missed' = missed \union
                     UNION {MayMiss(c, store'[c] \ store[c], row[c]) : c \in PodConversations}
      /\ UNCHANGED <<row, pod, lastPush, push, now, failures>>
      /\ PodTypes /\ PushOk
  BY DEF MergeMessages, PodInv
<1> DEFINE pulled == adapter.pulled
<1>2. /\ store' \in PodContents
      /\ \A c \in PodConversations :
           /\ pulled = NoBackup => store'[c] = store[c]
           /\ pulled # NoBackup => store'[c] = store[c] \union pulled.messages[c]
  <2>1. CASE pulled = NoBackup
    BY <1>1, <2>1 DEF MergeMessages, PodTypes
  <2>2. CASE pulled # NoBackup
    <3>1. pulled \in Payloads /\ store' = [c \in PodConversations |-> store[c] \union pulled.messages[c]]
      BY <1>1, <2>2 DEF MergeMessages, InsertMessages, PodTypes, Adapters
    <3>2. \A c \in PodConversations : store[c] \union pulled.messages[c] \in PodMessages
      <4>1. \A c \in PodConversations : store[c] \in PodMessages /\ pulled.messages[c] \in PodMessages
        BY <1>1, <3>1 DEF PodTypes, Payloads, PodContents
      <4> QED BY <4>1, FS_Union DEF PodMessages
    <3> QED BY <2>2, <3>1, <3>2 DEF PodContents
  <2> QED BY <2>1, <2>2
<1>3. /\ adapter' \in Adapters /\ adapter'.pc = "merged" /\ adapter'.pulled = pulled
  BY <1>1 DEF PodTypes, Adapters
<1>4. PodTypes' /\ PushOk'
  BY <1>1, <1>2, <1>3 DEF PodTypes, PushOk
<1> HIDE DEF pulled
<1>5. ASSUME NEW c \in PodConversations PROVE ConversationOk(c)' /\ CollectedOk(c)' /\ PulledOk(c)'
  <2>1. PulledOk(c) /\ ConversationOk(c)
    BY DEF PodInv
  <2>2. row[c] = 0 => store'[c] = store[c]
    <3>1. pulled # NoBackup => pulled.rows[c] \in Nat
      BY <1>1 DEF PodTypes, Adapters, Payloads, PodRows, pulled
    <3>2. row[c] = 0 /\ pulled # NoBackup => pulled.messages[c] = {}
      BY <1>1, <2>1, <3>1 DEF PulledOk, pulled
    <3>3. row[c] = 0 => store[c] = {}
      BY <2>1 DEF ConversationOk
    <3> QED BY <1>2, <3>2, <3>3
  <2>3. /\ MayMiss(c, store'[c] \ store[c], row[c]) \subseteq missed'
        /\ store[c] \subseteq store'[c] /\ missed \subseteq missed'
    BY <1>1, <1>2
  <2>4. lastPush \in Nat /\ row[c] \in Nat
    BY <1>1 DEF PodTypes, PodRows
  <2>5. \/ store'[c] = store[c] /\ row'[c] = row[c]
        \/ /\ row'[c] > 0
           /\ row'[c] <= lastPush => store'[c] \ Saved(c) \subseteq missed'
           /\ row'[c] > lastPush /\ Pushing => store'[c] \ store[c] \subseteq missed'
    BY <1>1, <2>2, <2>3, <2>4 DEF MayMiss
  <2>6. ConversationOk(c)' /\ CollectedOk(c)'
    BY <1>1, <1>4, <2>3, <2>5, ArrivalIsCounted DEF PodTypes
  <2>7. PulledOk(c)'
    BY <1>1, <1>2, <1>3, <2>1 DEF PulledOk, pulled
  <2> QED BY <2>6, <2>7
<1> QED BY <1>4, <1>5 DEF PodInv

LEMMA StartKeeps ==
  ASSUME PodInv, Start
  PROVE  PodInv'
<1>1. PICK got \in {pod, NoBackup} :
        adapter' = [adapter EXCEPT !.pc = "merging", !.pulled = got, !.starts = @ + 1,
                      !.left = IF got = NoBackup THEN {}
                               ELSE {c \in PodConversations : got.rows[c] > 0}]
  BY DEF Start
<1>2. UNCHANGED <<store, row, pod, lastPush, push, now, missed>> /\ PodTypes /\ PushOk
  BY DEF Start, PodInv
<1> DEFINE left == IF got = NoBackup THEN {} ELSE {c \in PodConversations : got.rows[c] > 0}
<1>3. left \in SUBSET PodConversations /\ got \in Payloads \union {NoBackup}
  BY <1>2 DEF PodTypes
<1>4. \A c \in PodConversations : c \in left <=> got # NoBackup /\ got.rows[c] > 0
  OBVIOUS
<1>5. adapter' = [adapter EXCEPT !.pc = "merging", !.pulled = got, !.starts = @ + 1, !.left = left]
  BY <1>1
<1> HIDE DEF left
<1>6. /\ adapter' \in Adapters /\ adapter'.pc = "merging" /\ adapter'.pulled = got
      /\ adapter'.left = left
  <2>1. "merging" \in {"off", "merging", "merged"} /\ adapter \in Adapters
    BY <1>2 DEF PodTypes
  <2>2. adapter.starts + 1 \in Nat /\ adapter.timer \in BOOLEAN
    BY <2>1 DEF Adapters
  <2> QED BY <1>3, <1>5, <2>1, <2>2 DEF Adapters
<1>7. PodTypes' /\ PushOk'
  BY <1>2, <1>6 DEF PodTypes, PushOk
<1>8. ASSUME NEW c \in PodConversations PROVE ConversationOk(c)' /\ CollectedOk(c)' /\ PulledOk(c)'
  <2>1. ConversationOk(c) /\ CollectedOk(c) /\ PulledOk(c)
    BY DEF PodInv
  <2>2. ConversationOk(c)' /\ CollectedOk(c)'
    BY <1>2, <2>1 DEF ConversationOk, CollectedOk, Saved
  <2>3. PulledOk(c)'
    BY <1>2, <1>4, <1>6, <2>1 DEF PulledOk
  <2> QED BY <2>2, <2>3
<1> QED BY <1>7, <1>8 DEF PodInv

LEMMA StopKeeps ==
  ASSUME PodInv, Stop
  PROVE  PodInv'
<1>1. /\ adapter' = [adapter EXCEPT !.timer = FALSE]
      /\ UNCHANGED <<store, row, pod, lastPush, push, now, failures, missed>> /\ PodTypes
  BY DEF Stop, PodInv
<1>2. /\ adapter' \in Adapters /\ adapter'.pc = adapter.pc /\ adapter'.pulled = adapter.pulled
      /\ adapter'.left = adapter.left
  BY <1>1 DEF PodTypes, Adapters
<1> QED BY <1>1, <1>2 DEF PodInv, PodTypes, PushOk, ConversationOk, CollectedOk, PulledOk, Saved

\* A push that begins has collected nothing.
LEMMA BeginPushKeeps ==
  ASSUME PodInv, BeginPush, UNCHANGED <<store, row, pod, lastPush, now, missed>>,
         adapter' \in Adapters,
         adapter' = adapter \/ (adapter'.pc = "off" /\ adapter'.pulled = adapter.pulled)
  PROVE  PodInv'
<1>1. push' = [NoPush EXCEPT !.pc = "listing"] /\ PodTypes
  BY DEF BeginPush, PodInv
<1>2. /\ push' \in Pushes /\ push'.pc = "listing" /\ push'.previous = NoBackup /\ push'.left = {}
      /\ \A c \in PodConversations : push'.messages[c] = {}
  <2>1. "listing" \in {"off", "listing", "pulling", "collecting", "writing", "again"}
    OBVIOUS
  <2> QED BY <1>1, <2>1, NothingIs DEF Pushes
<1>3. PodTypes' /\ PushOk'
  BY <1>1, <1>2 DEF PodTypes, PushOk
<1>4. ASSUME NEW c \in PodConversations PROVE ConversationOk(c)' /\ CollectedOk(c)' /\ PulledOk(c)'
  <2>1. ConversationOk(c) /\ PulledOk(c)
    BY DEF PodInv
  <2>2. ConversationOk(c)'
    BY <2>1 DEF ConversationOk, Saved
  <2>3. CollectedOk(c)'
    BY <1>2 DEF CollectedOk
  <2>4. PulledOk(c)'
    BY <2>1 DEF PulledOk
  <2> QED BY <2>2, <2>3, <2>4
<1> QED BY <1>3, <1>4 DEF PodInv

LEMMA TimerPushesKeeps ==
  ASSUME PodInv, TimerPushes
  PROVE  PodInv'
BY BeginPushKeeps DEF TimerPushes, PodInv, PodTypes

LEMMA RunKeeps ==
  ASSUME PodInv, Run
  PROVE  PodInv'
<1>1. adapter' = [adapter EXCEPT !.pc = "off", !.timer = TRUE] /\ PodTypes
  BY DEF Run, PodInv
<1>2. adapter' \in Adapters /\ adapter'.pc = "off" /\ adapter'.pulled = adapter.pulled
  BY <1>1 DEF PodTypes, Adapters
<1> QED BY <1>2, BeginPushKeeps DEF Run

\* A push that goes on and writes nothing.
LEMMA PushGoesOn ==
  ASSUME PodInv, UNCHANGED <<store, row, pod, lastPush, adapter, now, missed>>,
         push' \in Pushes, PushOk', \A c \in PodConversations : CollectedOk(c)'
  PROVE  PodInv'
<1>1. PodTypes'
  BY DEF PodInv, PodTypes
<1>2. ASSUME NEW c \in PodConversations PROVE ConversationOk(c)' /\ PulledOk(c)'
  BY DEF PodInv, ConversationOk, PulledOk, Saved
<1> QED BY <1>1, <1>2 DEF PodInv

LEMMA ListConversationsKeeps ==
  ASSUME PodInv, ListConversations
  PROVE  PodInv'
<1> DEFINE listed == {c \in PodConversations : row[c] > 0}
           pc == IF lastPush > 0 THEN "pulling" ELSE "collecting"
<1>1. /\ push.pc = "listing"
      /\ push' = [push EXCEPT !.rows = row, !.left = listed, !.pc = pc]
      /\ UNCHANGED <<store, row, pod, lastPush, adapter, now, failures, missed>>
      /\ PodTypes /\ PushOk
  BY DEF ListConversations, PodInv
<1>2. /\ pc \in {"off", "listing", "pulling", "collecting", "writing", "again"}
      /\ pc \in {"pulling", "collecting"} /\ (pc = "pulling" => lastPush > 0)
      /\ listed \in SUBSET PodConversations
      /\ \A c \in PodConversations : c \in listed <=> row[c] > 0
  OBVIOUS
<1> HIDE DEF listed, pc
<1>3. /\ push' \in Pushes /\ push'.pc = pc /\ push'.left = listed /\ push'.rows = row
      /\ push'.previous = push.previous /\ push'.messages = push.messages
  BY <1>1, <1>2 DEF PodTypes, Pushes
<1>4. PushOk'
  BY <1>1, <1>2, <1>3 DEF PushOk
<1>5. ASSUME NEW c \in PodConversations PROVE CollectedOk(c)'
  <2>1. ConversationOk(c) /\ CollectedOk(c) /\ row[c] \in Nat
    BY <1>1 DEF PodInv, PodTypes, PodRows
  <2>2. push.messages[c] = {} /\ (c \notin listed => store[c] = {})
    BY <1>1, <1>2, <2>1 DEF CollectedOk, ConversationOk
  <2>3. /\ push'.messages[c] \subseteq store'[c]
        /\ lastPush' > 0 /\ push'.rows[c] <= lastPush' => (store[c] \ Saved(c))' \subseteq missed'
    BY <1>1, <1>3, <2>1, <2>2 DEF ConversationOk, Saved
  <2>4. push'.pc \notin {"off", "listing"} /\ c \notin push'.left => store'[c] \ push'.messages[c] \subseteq missed'
    BY <1>1, <1>3, <2>2
  <2>5. c \in push'.left => push'.rows[c] > 0
    BY <1>2, <1>3
  <2> QED BY <1>3, <2>2, <2>3, <2>4, <2>5 DEF CollectedOk, Saved
<1> QED BY <1>1, <1>3, <1>4, <1>5, PushGoesOn

LEMMA PullPreviousKeeps ==
  ASSUME PodInv, PullPrevious
  PROVE  PodInv'
<1>1. PICK got \in {pod, NoBackup} :
        push' = [push EXCEPT !.previous = got, !.pc = "collecting"]
  BY DEF PullPrevious
<1>2. /\ push.pc = "pulling" /\ UNCHANGED <<store, row, pod, lastPush, adapter, now, missed>>
      /\ PodTypes /\ PushOk
  BY DEF PullPrevious, PodInv
<1>3. /\ push' \in Pushes /\ push'.pc = "collecting" /\ push'.left = push.left /\ push'.rows = push.rows
      /\ push'.previous = got /\ push'.messages = push.messages
  <2>1. "collecting" \in {"off", "listing", "pulling", "collecting", "writing", "again"}
    OBVIOUS
  <2>2. got \in Payloads \union {NoBackup}
    BY <1>2 DEF PodTypes
  <2> QED BY <1>1, <1>2, <2>1, <2>2 DEF PodTypes, Pushes
<1>4. PushOk'
  BY <1>2, <1>3 DEF PushOk
<1>5. ASSUME NEW c \in PodConversations PROVE CollectedOk(c)'
  <2>1. CollectedOk(c)
    BY DEF PodInv
  <2> QED BY <1>2, <1>3, <2>1 DEF CollectedOk, Saved
<1> QED BY <1>2, <1>3, <1>4, <1>5, PushGoesOn

LEMMA CollectMessagesKeeps ==
  ASSUME PodInv, NEW d \in PodConversations, CollectMessages(d)
  PROVE  PodInv'
<1> DEFINE new == IF Unchanged(d) THEN push.previous.messages[d] ELSE store[d]
<1>1. /\ push.pc = "collecting" /\ d \in push.left
      /\ push' = [push EXCEPT !.left = @ \ {d}, !.messages[d] = new]
      /\ UNCHANGED <<store, row, pod, lastPush, adapter, now, failures, missed>>
      /\ PodTypes /\ PushOk
  BY DEF CollectMessages, PodInv
<1>2. new \in PodMessages /\ new \subseteq store[d] /\ store[d] \ new \subseteq missed
  <2>1. ConversationOk(d) /\ CollectedOk(d) /\ store[d] \in PodMessages
    BY <1>1 DEF PodInv, PodTypes, PodContents
  <2>2. CASE Unchanged(d)
    <3>1. push.previous # NoBackup /\ push.rows[d] <= lastPush /\ push.previous = pod /\ lastPush > 0
      BY <1>1, <2>2 DEF Unchanged, PushOk
    <3>2. pod.messages[d] \in PodMessages /\ Saved(d) = pod.messages[d]
      BY <1>1, <3>1 DEF PodTypes, Payloads, PodContents, Saved
    <3>3. Saved(d) \subseteq store[d] /\ store[d] \ Saved(d) \subseteq missed
      BY <1>1, <2>1, <3>1 DEF ConversationOk, CollectedOk
    <3> QED BY <2>2, <3>1, <3>2, <3>3
  <2>3. CASE ~Unchanged(d)
    BY <2>1, <2>3
  <2> QED BY <2>2, <2>3
<1> HIDE DEF new
<1>3. /\ push' \in Pushes /\ push'.pc = "collecting" /\ push'.left = push.left \ {d}
      /\ push'.rows = push.rows /\ push'.previous = push.previous
      /\ push'.messages[d] = new
      /\ \A c \in PodConversations \ {d} : push'.messages[c] = push.messages[c]
  <2>1. push.messages \in PodContents /\ push.left \in SUBSET PodConversations
    BY <1>1 DEF PodTypes, Pushes
  <2> DEFINE messages == [push.messages EXCEPT ![d] = new]
  <2>2. /\ messages \in PodContents /\ messages[d] = new
        /\ \A c \in PodConversations \ {d} : messages[c] = push.messages[c]
    BY <1>2, <2>1 DEF PodContents
  <2>3. push' = [push EXCEPT !.left = @ \ {d}, !.messages = messages]
    BY <1>1
  <2> HIDE DEF messages
  <2> QED BY <1>1, <2>1, <2>2, <2>3 DEF PodTypes, Pushes
<1>4. PushOk'
  BY <1>1, <1>3 DEF PushOk
<1>5. ASSUME NEW c \in PodConversations PROVE CollectedOk(c)'
  <2>1. CollectedOk(c)
    BY DEF PodInv
  <2>2. CASE c = d
    <3>1. push.rows[c] > 0 /\ push.rows[c] \in Nat
      BY <1>1, <2>1, <2>2 DEF CollectedOk, PodTypes, Pushes, PodRows
    <3> QED BY <1>1, <1>2, <1>3, <2>1, <2>2, <3>1 DEF CollectedOk, Saved
  <2>3. CASE c # d
    BY <1>1, <1>3, <2>1, <2>3 DEF CollectedOk, Saved
  <2> QED BY <2>2, <2>3
<1> QED BY <1>1, <1>3, <1>4, <1>5, PushGoesOn

LEMMA ExportKeeps ==
  ASSUME PodInv, Export
  PROVE  PodInv'
<1>1. /\ push.pc = "collecting" /\ push.left = {}
      /\ push' = [push EXCEPT !.pc = "writing", !.at = now]
      /\ UNCHANGED <<store, row, pod, lastPush, adapter, now, failures, missed>>
      /\ PodTypes /\ PushOk
  BY DEF Export, PodInv
<1>2. /\ push' \in Pushes /\ push'.pc = "writing" /\ push'.left = {} /\ push'.rows = push.rows
      /\ push'.messages = push.messages /\ push'.at > 0
  <2>1. "writing" \in {"off", "listing", "pulling", "collecting", "writing", "again"}
    OBVIOUS
  <2>2. now \in Nat /\ now > 0
    BY <1>1 DEF PodTypes
  <2> QED BY <1>1, <2>1, <2>2 DEF PodTypes, Pushes
<1>3. PushOk'
  BY <1>2 DEF PushOk
<1>4. ASSUME NEW c \in PodConversations PROVE CollectedOk(c)'
  <2>1. CollectedOk(c)
    BY DEF PodInv
  <2> QED BY <1>1, <1>2, <2>1 DEF CollectedOk
<1> QED BY <1>1, <1>2, <1>3, <1>4, PushGoesOn

\* The file that a push writes is all that is stored, but for what was missed.
LEMMA PayloadIsWhole ==
  ASSUME PodInv, push.pc \in {"writing", "again"}, Written
  PROVE  /\ pod' \in Payloads /\ pod' # NoBackup
         /\ \A c \in PodConversations :
              /\ Saved(c)' = push.messages[c]
              /\ Saved(c)' \subseteq store[c] /\ store[c] \ Saved(c)' \subseteq missed
              /\ pod'.rows[c] = 0 => pod'.messages[c] = {}
<1>1. push.rows \in PodRows /\ push.messages \in PodContents
  BY DEF PodInv, PodTypes, Pushes
<1>2. pod' \in Payloads /\ pod'.rows = push.rows /\ pod'.messages = push.messages
  BY <1>1 DEF Written, Payloads
<1>3. pod' # NoBackup
  BY <1>2, PayloadsAre
<1>4. \A c \in PodConversations : Saved(c)' = push.messages[c]
  BY <1>2, <1>3 DEF Saved
<1>5. push.left = {} /\ \A c \in PodConversations : CollectedOk(c)
  BY DEF PodInv, PushOk
<1>6. \A c \in PodConversations : /\ push.messages[c] \subseteq store[c]
                                  /\ store[c] \ push.messages[c] \subseteq missed
                                  /\ push.rows[c] = 0 => push.messages[c] = {}
  BY <1>5 DEF CollectedOk
<1> QED BY <1>2, <1>3, <1>4, <1>6

LEMMA OverwriteKeeps ==
  ASSUME PodInv, Overwrite
  PROVE  PodInv'
<1>1. /\ push.pc \in {"writing", "again"} /\ Written
      /\ lastPush' = push.at /\ push' = NoPush
      /\ UNCHANGED <<store, row, adapter, now, missed>>
      /\ PodTypes
  BY DEF Overwrite, PodInv
<1>2. push.at \in Nat
  BY <1>1 DEF PodTypes, Pushes
<1>3. pod' \in Payloads
  BY <1>1, PayloadIsWhole
<1>4. PodTypes' /\ PushOk'
  BY <1>1, <1>2, <1>3, NothingIs DEF PodTypes, PushOk
<1>5. ASSUME NEW c \in PodConversations PROVE ConversationOk(c)' /\ CollectedOk(c)' /\ PulledOk(c)'
  <2>1. ConversationOk(c) /\ PulledOk(c)
    BY DEF PodInv
  <2>2. ConversationOk(c)'
    BY <1>1, <2>1, PayloadIsWhole DEF ConversationOk
  <2>3. CollectedOk(c)'
    BY <1>1, NothingIs DEF CollectedOk
  <2>4. PulledOk(c)'
    BY <1>1, <2>1, PayloadIsWhole DEF PulledOk
  <2> QED BY <2>2, <2>3, <2>4
<1> QED BY <1>4, <1>5 DEF PodInv

LEMMA OverwriteFailsKeeps ==
  ASSUME PodInv, OverwriteFails
  PROVE  PodInv'
<1>1. /\ push.pc \in {"writing", "again"} /\ (Written \/ UNCHANGED pod)
      /\ UNCHANGED <<store, row, lastPush, adapter, now, missed>>
      /\ PodTypes /\ PushOk
  BY DEF OverwriteFails, PodInv
<1>2. \/ push' = NoPush
      \/ /\ push' \in Pushes /\ push'.pc = "again" /\ push'.left = push.left /\ push'.rows = push.rows
         /\ push'.messages = push.messages /\ push'.at = push.at
  <2>1. "again" \in {"off", "listing", "pulling", "collecting", "writing", "again"}
    OBVIOUS
  <2>2. CASE push' = [push EXCEPT !.pc = "again"]
    BY <1>1, <2>1, <2>2 DEF PodTypes, Pushes
  <2> QED BY <2>2 DEF OverwriteFails
<1>3. push' \in Pushes /\ PushOk'
  <2>1. CASE push' = NoPush
    BY <2>1, NothingIs DEF PushOk
  <2>2. CASE push' # NoPush
    BY <1>1, <1>2, <2>2 DEF PushOk
  <2> QED BY <2>1, <2>2
<1>4. pod' \in Payloads \union {NoBackup}
  BY <1>1, PayloadIsWhole DEF PodTypes
<1>5. PodTypes'
  BY <1>1, <1>3, <1>4 DEF PodTypes
<1>6. ASSUME NEW c \in PodConversations PROVE ConversationOk(c)' /\ CollectedOk(c)' /\ PulledOk(c)'
  <2>1. ConversationOk(c) /\ CollectedOk(c) /\ PulledOk(c)
    BY DEF PodInv
  <2>2. CollectedOk(c)'
    <3>1. CASE push' = NoPush
      BY <3>1, NothingIs DEF CollectedOk
    <3>2. CASE push' # NoPush
      BY <1>1, <1>2, <2>1, <3>2 DEF CollectedOk
    <3> QED BY <3>1, <3>2
  <2>3. CASE Written
    <3>1. ConversationOk(c)'
      BY <1>1, <2>1, <2>3, PayloadIsWhole DEF ConversationOk
    <3>2. PulledOk(c)'
      BY <1>1, <2>1, <2>3, PayloadIsWhole DEF PulledOk
    <3> QED BY <2>2, <3>1, <3>2
  <2>4. CASE UNCHANGED pod
    BY <1>1, <2>1, <2>2, <2>4 DEF ConversationOk, PulledOk, Saved
  <2> QED BY <1>1, <2>2, <2>3, <2>4
<1> QED BY <1>3, <1>5, <1>6 DEF PodInv

LEMMA PodInvKept ==
  ASSUME PodInv, [PodNext]_podVars
  PROVE  PodInv'
<1>1. CASE UNCHANGED podVars
  BY <1>1 DEF podVars, PodInv, PodTypes, PushOk, ConversationOk, CollectedOk, PulledOk, Saved
<1>2. ASSUME NEW c \in PodConversations, AppendMessage(c) PROVE PodInv'
  <2>1. now \in Nat \ {0}
    BY DEF PodInv, PodTypes
  <2> QED BY <1>2, <2>1, StoredIsFinite, ArrivalKeeps DEF AppendMessage, PodInv
<1>3. ASSUME NEW c \in PodConversations, SyncMessage(c) PROVE PodInv'
  <2>1. row[c] \in Nat \ {0}
    BY <1>3 DEF PodInv, PodTypes, PodRows, SyncMessage
  <2> QED BY <1>3, <2>1, StoredIsFinite, ArrivalKeeps DEF SyncMessage, PodInv
<1>4. ASSUME NEW c \in PodConversations, NEW at \in 1..MaxPodTime, SyncRow(c, at) PROVE PodInv'
  <2>1. at \in Nat \ {0}
    BY <1>4 DEF PodInv, PodTypes, SyncRow
  <2> QED BY <1>4, <2>1, PayloadsAre, ArrivalKeeps DEF SyncRow
<1>5. CASE PodTick
  <2>1. /\ now' = now + 1 /\ UNCHANGED <<store, row, pod, lastPush, adapter, push, failures, missed>>
        /\ now' \in Nat \ {0}
    BY <1>5 DEF PodTick, PodInv, PodTypes
  <2> QED BY <2>1 DEF PodInv, PodTypes, PushOk, ConversationOk, CollectedOk, PulledOk, Saved
<1>6. CASE PushContinues
  BY <1>6, ListConversationsKeeps, PullPreviousKeeps, ExportKeeps, OverwriteKeeps, OverwriteFailsKeeps,
     CollectMessagesKeeps DEF PushContinues
<1>7. CASE StartContinues
  BY <1>7, MergeMessagesKeeps, MergeRowKeeps, RunKeeps DEF StartContinues
<1> QED BY <1>1, <1>2, <1>3, <1>4, <1>5, <1>6, <1>7, StartKeeps, StopKeeps, TimerPushesKeeps DEF PodNext
-----------------------------------------------------------------------------
(* Edits of files *)

FilesSpec == FilesInit /\ [][FilesNext]_fileVars

\* A text has a first to a last line.
IsText(lines) == \E n \in Nat : DOMAIN lines = 1..n

\* An edit was made in what was read, in time, and only of the old text.
GoodEdit(ed) ==
  LET changed == {i \in DOMAIN ed.before : ed.after[i] # ed.before[i]} IN
  /\ ed.before = ed.read /\ ed.age <= MaxAge
  /\ DOMAIN ed.after = DOMAIN ed.before
  /\ changed \subseteq Occurrences(ed.before, ed.old)
  /\ ed.new # Pattern => changed = Occurrences(ed.before, ed.old)

\* Of an edit under way, the file is still as it was read, unless it was raced.
EditHolds(write) ==
  write.edit # Gone =>
    /\ DOMAIN write.edit = {"before", "after", "old", "new", "read", "age", "raced", "over"}
    /\ GoodEdit(write.edit)
    /\ write.edit.raced \/ content[write.file] = write.edit.read

HashInv ==
  /\ hash = [f \in Files |-> hash[f]] /\ tick \in Nat
  /\ \A f \in Files : hash[f] = Gone \/ hash[f].at \in Nat

ContentInv ==
  /\ content = [f \in Files |-> content[f]]
  /\ \A f \in Files : content[f] = Gone \/ IsText(content[f])

WriterInv ==
  /\ writer = [w \in Writers |-> writer[w]]
  /\ \A w \in Writers : {"pc"} \subseteq DOMAIN writer[w]
  /\ \A w \in Writers : writer[w].pc # "off" => writer[w].file \in Files /\ IsText(writer[w].lines)

\* At most one synchronous write is under way.
WritingInv ==
  /\ \A write, other \in writing : write = other
  /\ \A write \in writing :
       /\ DOMAIN write = {"file", "lines", "edit"}
       /\ write.file \in Files /\ IsText(write.lines) /\ EditHolds(write)

FilesInv == HashInv /\ ContentInv /\ WriterInv /\ WritingInv /\ EditsLoseNothing

LEMMA ContentsAreTexts ==
  ASSUME NEW lines \in Contents
  PROVE  IsText(lines)
BY FileToolsAssumption DEF Contents, IsText

\* Only the only line equal to the old text changes, or all of them do.
LEMMA ReplacedChanges ==
  ASSUME NEW lines, IsText(lines), NEW old \in Lines, NEW new \in Lines, old # new,
         NEW all \in BOOLEAN, all \/ Cardinality(Occurrences(lines, old)) = 1,
         NEW after, after = Replaced(lines, old, new, all)
  PROVE  LET changed == {i \in DOMAIN lines : after[i] # lines[i]} IN
         /\ DOMAIN after = DOMAIN lines
         /\ changed \subseteq Occurrences(lines, old)
         /\ new # Pattern => changed = Occurrences(lines, old)
<1> DEFINE occ == Occurrences(lines, old)
<1>1. occ = {i \in DOMAIN lines : lines[i] = old}
  BY DEF Occurrences
<1>2. CASE all
  <2>1. after = [i \in DOMAIN lines |-> IF lines[i] = old THEN new ELSE lines[i]]
    BY <1>2 DEF Replaced
  <2>2. QED
    BY <1>1, <2>1
<1>3. CASE ~all
  <2>1. after = [i \in DOMAIN lines |->
                   IF lines[i] = old /\ \A j \in occ : i <= j
                   THEN IF new = Pattern THEN old ELSE new
                   ELSE lines[i]]
    BY <1>3 DEF Replaced
  <2>2. PICK n \in Nat : DOMAIN lines = 1..n
    BY DEF IsText
  <2>3. IsFiniteSet(occ)
    <3>1. IsFiniteSet(1..n)
      BY <2>2, FS_Interval
    <3>2. occ \subseteq 1..n
      BY <1>1, <2>2
    <3>3. QED
      BY <3>1, <3>2, FS_Subset
  <2>4. PICK x : occ = {x}
    BY <1>3, <2>3, FS_Singleton
  <2>5. x \in Nat /\ \A i \in occ : \A j \in occ : i <= j
    BY <1>1, <2>2, <2>4
  <2>6. QED
    BY <1>1, <2>1, <2>5
<1>4. QED
  BY <1>2, <1>3

LEMMA FilesInvInit ==
  FilesInit => FilesInv
<1> SUFFICES ASSUME FilesInit PROVE FilesInv
  OBVIOUS
<1>1. content \in [Files -> {Gone} \cup Contents]
  BY DEF FilesInit
<1>2. \A f \in Files : content[f] = Gone \/ IsText(content[f])
  BY <1>1, ContentsAreTexts
<1>3. HashInv /\ ContentInv /\ WriterInv
  BY <1>1, <1>2 DEF FilesInit, HashInv, ContentInv, WriterInv
<1>4. WritingInv /\ EditsLoseNothing
  BY DEF FilesInit, WritingInv, EditsLoseNothing
<1>5. QED
  BY <1>3, <1>4 DEF FilesInv

\* An edit that is made is a good one.
LEMMA EditFileStep ==
  ASSUME FilesInv, MaxAge \in Nat, NEW f \in Files, EditFile(f), writing' # writing
  PROVE  \E write :
           /\ writing = {} /\ writing' = {write} /\ DOMAIN write = {"file", "lines", "edit"}
           /\ write.file = f /\ IsText(write.lines) /\ EditHolds(write)
<1> DEFINE lines == content[f]
<1>1. PICK old \in Lines, new \in Lines, all \in BOOLEAN :
        LET count == Cardinality(Occurrences(lines, old))
            after == Replaced(lines, old, new, all) IN
        /\ LoopFree /\ old # new /\ lines # Gone
        /\ VerifyReadHash(f, lines)
        /\ count # 0 /\ ~(count > 1 /\ ~all)
        /\ writing' = writing \union {[file |-> f, lines |-> after,
             edit |-> [before |-> lines, after |-> after, old |-> old, new |-> new,
                       read |-> hash[f].lines, age |-> tick - hash[f].at,
                       raced |-> FALSE, over |-> lines]]}
  BY DEF EditFile
<1> DEFINE after == Replaced(lines, old, new, all)
           count == Cardinality(Occurrences(lines, old))
           ed == [before |-> lines, after |-> after, old |-> old, new |-> new,
                    read |-> hash[f].lines, age |-> tick - hash[f].at,
                    raced |-> FALSE, over |-> lines]
           write == [file |-> f, lines |-> after, edit |-> ed]
<1>2. IsText(lines)
  BY <1>1 DEF FilesInv, ContentInv
<1>3. hash[f] # Gone /\ hash[f].lines = lines /\ ~(tick - hash[f].at > MaxAge)
  BY <1>1 DEF VerifyReadHash, GetReadHash
<1>4. hash[f].at \in Nat /\ tick \in Nat
  BY <1>3 DEF FilesInv, HashInv
<1>5. tick - hash[f].at <= MaxAge
  BY <1>3, <1>4
<1>6. count \in Nat
  <2>1. PICK n \in Nat : DOMAIN lines = 1..n
    BY <1>2 DEF IsText
  <2>2. IsFiniteSet(1..n) /\ Occurrences(lines, old) \subseteq 1..n
    BY <2>1, FS_Interval DEF Occurrences
  <2>3. IsFiniteSet(Occurrences(lines, old))
    BY <2>2, FS_Subset
  <2>4. QED
    BY <2>3, FS_CardinalityType
<1>7. all \/ count = 1
  BY <1>1, <1>6
<1>8. writing = {} /\ writing' = {write}
  BY <1>1 DEF LoopFree
<1>9. /\ write.file = f /\ write.lines = after /\ write.edit = ed
      /\ DOMAIN write = {"file", "lines", "edit"}
      /\ DOMAIN ed = {"before", "after", "old", "new", "read", "age", "raced", "over"}
  OBVIOUS
<1>10. /\ ed.before = lines /\ ed.after = after /\ ed.old = old /\ ed.new = new
       /\ ed.read = lines /\ ed.age = tick - hash[f].at
  BY <1>3
<1> HIDE DEF lines, after, count, ed, write
<1>11. LET changed == {i \in DOMAIN lines : after[i] # lines[i]} IN
      /\ DOMAIN after = DOMAIN lines
      /\ changed \subseteq Occurrences(lines, old)
      /\ new # Pattern => changed = Occurrences(lines, old)
  BY <1>1, <1>2, <1>7, ReplacedChanges DEF after, count
<1>12. IsText(after)
  BY <1>2, <1>11 DEF IsText
<1>13. GoodEdit(ed)
  BY <1>5, <1>10, <1>11 DEF GoodEdit
<1>14. EditHolds(write)
  BY <1>9, <1>10, <1>13 DEF EditHolds, lines
<1>15. QED
  BY <1>8, <1>9, <1>12, <1>14

\* What changes a file from outside the event loop races the edit of it.
LEMMA OutsideKeeps ==
  ASSUME ContentInv, WritingInv, NEW f \in Files, NEW lines, lines = Gone \/ IsText(lines),
         content' = [content EXCEPT ![f] = lines], Races(f)
  PROVE  ContentInv' /\ WritingInv'
<1>1. ContentInv'
  BY DEF ContentInv
<1>2. \A g \in Files : g # f => content'[g] = content[g]
  BY DEF ContentInv
<1>3. ASSUME NEW write \in writing
      PROVE  LET raced == Raced(write, f) IN
             /\ DOMAIN raced = {"file", "lines", "edit"} /\ raced.file \in Files
             /\ IsText(raced.lines) /\ EditHolds(raced)'
  <2>1. /\ DOMAIN write = {"file", "lines", "edit"} /\ write.file \in Files
        /\ IsText(write.lines) /\ EditHolds(write)
    BY <1>3 DEF WritingInv
  <2>2. CASE write.edit = Gone \/ write.file # f
    <3>1. Raced(write, f) = write
      BY <2>2 DEF Raced
    <3>2. EditHolds(write)'
      BY <1>2, <2>1, <2>2 DEF EditHolds
    <3>3. QED
      BY <2>1, <3>1, <3>2
  <2>3. CASE write.edit # Gone /\ write.file = f
    <3> DEFINE ed == write.edit
               noted == [ed EXCEPT !.raced = TRUE]
               raced == [write EXCEPT !.edit = noted]
    <3>1. Raced(write, f) = raced
      BY <2>3 DEF Raced
    <3>2. /\ DOMAIN raced = {"file", "lines", "edit"} /\ raced.file = write.file
          /\ raced.lines = write.lines /\ raced.edit = noted
      BY <2>1
    <3>3. /\ DOMAIN ed = {"before", "after", "old", "new", "read", "age", "raced", "over"}
          /\ GoodEdit(ed)
      BY <2>1, <2>3 DEF EditHolds
    <3>4. /\ DOMAIN noted = DOMAIN ed /\ noted.raced = TRUE
          /\ noted.before = ed.before /\ noted.after = ed.after /\ noted.old = ed.old
          /\ noted.new = ed.new /\ noted.read = ed.read /\ noted.age = ed.age
      BY <3>3
    <3> HIDE DEF ed, noted, raced
    <3>5. GoodEdit(noted)
      BY <3>3, <3>4 DEF GoodEdit
    <3>6. EditHolds(raced)'
      BY <3>2, <3>3, <3>4, <3>5 DEF EditHolds
    <3>7. QED
      BY <2>1, <3>1, <3>2, <3>6
  <2>4. QED
    BY <2>2, <2>3
<1>4. writing' = {Raced(write, f) : write \in writing}
  BY DEF Races
<1>5. \A write \in writing' :
        /\ DOMAIN write = {"file", "lines", "edit"} /\ write.file \in Files
        /\ IsText(write.lines) /\ EditHolds(write)'
  BY <1>3, <1>4
<1>6. \A write, other \in writing' : write = other
  BY <1>4 DEF WritingInv
<1>7. WritingInv'
  BY <1>5, <1>6 DEF WritingInv
<1>8. QED
  BY <1>1, <1>7

LEMMA FilesInvNext ==
  ASSUME FilesInv, MaxAge \in Nat, [FilesNext]_fileVars
  PROVE  FilesInv'
<1> USE DEF FilesInv
<1>1. ASSUME edit' = Gone PROVE EditsLoseNothing'
  BY <1>1 DEF EditsLoseNothing
<1>2. ASSUME writing' = {} PROVE WritingInv'
  BY <1>2 DEF WritingInv
<1>3. ASSUME UNCHANGED <<hash, tick>> PROVE HashInv'
  BY <1>3 DEF HashInv
<1>4. ASSUME UNCHANGED writer PROVE WriterInv'
  BY <1>4 DEF WriterInv
<1>5. ASSUME UNCHANGED content PROVE ContentInv'
  BY <1>5 DEF ContentInv
<1>6. ASSUME UNCHANGED <<content, writing>> PROVE WritingInv'
  BY <1>6 DEF WritingInv, EditHolds
<1>7. ASSUME NEW w \in Writers, writer[w].pc # "off", NEW pc, pc # "off",
             writer' = [writer EXCEPT ![w].pc = pc]
      PROVE  WriterInv'
  <2>1. /\ writer' = [v \in Writers |-> writer'[v]]
        /\ \A v \in Writers : {"pc"} \subseteq DOMAIN writer'[v]
        /\ \A v \in Writers : writer'[v].lines = writer[v].lines
        /\ \A v \in Writers : writer'[v].file = writer[v].file
        /\ \A v \in Writers : writer'[v].pc # "off" => writer[v].pc # "off"
    BY <1>7 DEF WriterInv
  <2>2. QED
    BY <2>1 DEF WriterInv
<1>8. ASSUME NEW f \in Files, ReadFile(f) PROVE FilesInv'
  <2>1. hash' = [hash EXCEPT ![f] = [lines |-> content[f], at |-> tick]] /\ tick' = tick
    BY <1>8 DEF ReadFile
  <2>2. HashInv'
    BY <2>1 DEF HashInv
  <2>3. QED
    BY <1>1, <1>4, <1>5, <1>6, <1>8, <2>2 DEF ReadFile
<1>9. ASSUME NEW f \in Files, WriteFile(f) PROVE FilesInv'
  <2>1. PICK lines \in Contents : writing' = {[file |-> f, lines |-> lines, edit |-> Gone]}
    BY <1>9 DEF WriteFile, LoopFree
  <2>2. IsText(lines)
    BY ContentsAreTexts
  <2>3. WritingInv'
    BY <2>1, <2>2 DEF WritingInv, EditHolds
  <2>4. QED
    BY <1>1, <1>3, <1>4, <1>5, <1>9, <2>3 DEF WriteFile
<1>10. ASSUME NEW f \in Files, EditFile(f) PROVE FilesInv'
  <2>1. /\ hash' = [hash EXCEPT ![f] = GetReadHash(f)]
        /\ UNCHANGED <<content, tick, writer>> /\ edit' = Gone
    BY <1>10 DEF EditFile
  <2>2. GetReadHash(f) = Gone \/ GetReadHash(f) = hash[f]
    BY DEF GetReadHash
  <2>3. HashInv'
    BY <2>1, <2>2 DEF HashInv
  <2>4. WritingInv'
    <3>1. CASE writing' = writing
      BY <1>6, <2>1, <3>1
    <3>2. CASE writing' # writing
      <4>1. PICK write :
              /\ writing' = {write} /\ DOMAIN write = {"file", "lines", "edit"}
              /\ write.file = f /\ IsText(write.lines) /\ EditHolds(write)
        BY <1>10, <3>2, EditFileStep
      <4>2. EditHolds(write)'
        BY <2>1, <4>1 DEF EditHolds
      <4>3. QED
        BY <4>1, <4>2 DEF WritingInv
    <3>3. QED
      BY <3>1, <3>2
  <2>5. QED
    BY <1>1, <1>4, <1>5, <2>1, <2>3, <2>4
<1>11. ASSUME WriteLands PROVE FilesInv'
  <2>1. PICK write \in writing :
          /\ content' = [content EXCEPT ![write.file] = write.lines]
          /\ edit' = IF write.edit = Gone THEN Gone
                     ELSE [write.edit EXCEPT !.over = content[write.file]]
          /\ writing' = writing \ {write}
          /\ UNCHANGED <<hash, tick, writer>>
    BY <1>11 DEF WriteLands
  <2>2. write.file \in Files /\ IsText(write.lines) /\ EditHolds(write) /\ writing' = {}
    BY <2>1 DEF WritingInv
  <2>3. ContentInv'
    BY <2>1, <2>2 DEF ContentInv
  <2>4. ASSUME write.edit # Gone PROVE EditsLoseNothing'
    <3> DEFINE ed == write.edit
               laid == [ed EXCEPT !.over = content[write.file]]
    <3>1. /\ DOMAIN ed = {"before", "after", "old", "new", "read", "age", "raced", "over"}
          /\ GoodEdit(ed) /\ (ed.raced \/ content[write.file] = ed.read)
      BY <2>2, <2>4 DEF EditHolds
    <3>2. /\ laid.before = ed.before /\ laid.after = ed.after /\ laid.old = ed.old
          /\ laid.new = ed.new /\ laid.read = ed.read /\ laid.age = ed.age
          /\ laid.raced = ed.raced /\ laid.over = content[write.file]
      BY <3>1
    <3>3. edit' = laid
      BY <2>1, <2>4
    <3> HIDE DEF ed, laid
    <3>4. GoodEdit(laid) /\ (laid.raced \/ laid.over = laid.read)
      BY <3>1, <3>2 DEF GoodEdit
    <3>5. QED
      BY <3>3, <3>4 DEF GoodEdit, EditsLoseNothing
  <2>5. EditsLoseNothing'
    BY <1>1, <2>1, <2>4
  <2>6. QED
    BY <1>2, <1>3, <1>4, <2>1, <2>2, <2>3, <2>5
<1>12. ASSUME WriteThrows PROVE FilesInv'
  <2>1. PICK write \in writing :
          /\ content' \in {content, [content EXCEPT ![write.file] = <<>>]}
          /\ writing' = writing \ {write} /\ edit' = Gone
          /\ UNCHANGED <<hash, tick, writer>>
    BY <1>12 DEF WriteThrows
  <2>2. writing' = {} /\ write.file \in Files
    BY <2>1 DEF WritingInv
  <2>3. IsText(<<>>)
    BY DEF IsText
  <2>4. ContentInv'
    BY <2>1, <2>2, <2>3 DEF ContentInv
  <2>5. QED
    BY <1>1, <1>2, <1>3, <1>4, <2>1, <2>2, <2>4
<1>13. ASSUME NEW w \in Writers, NEW f \in Files, FileWrite(w, f) PROVE FilesInv'
  <2>1. PICK lines \in Contents :
          writer' = [writer EXCEPT ![w] = [pc |-> "opening", file |-> f, lines |-> lines]]
    BY <1>13 DEF FileWrite
  <2>2. IsText(lines)
    BY ContentsAreTexts
  <2>3. WriterInv'
    BY <2>1, <2>2 DEF WriterInv
  <2>4. QED
    BY <1>1, <1>3, <1>5, <1>6, <1>13, <2>3 DEF FileWrite
<1>14. ASSUME NEW w \in Writers, WriterOpens(w) PROVE FilesInv'
  <2>1. IsText(<<>>)
    BY DEF IsText
  <2>2. writer[w].file \in Files
    BY <1>14 DEF WriterOpens, WriterInv
  <2>3. ContentInv' /\ WritingInv'
    BY <1>14, <2>1, <2>2, OutsideKeeps DEF WriterOpens
  <2>4. QED
    BY <1>1, <1>3, <1>7, <1>14, <2>3 DEF WriterOpens
<1>15. ASSUME NEW w \in Writers, WriterContinues(w) PROVE FilesInv'
  BY <1>1, <1>3, <1>5, <1>6, <1>7, <1>15 DEF WriterContinues
<1>16. ASSUME NEW w \in Writers, WriterEnds(w) PROVE FilesInv'
  <2>1. writer[w].file \in Files /\ IsText(writer[w].lines)
    BY <1>16 DEF WriterEnds, WriterInv
  <2>2. ContentInv' /\ WritingInv'
    BY <1>16, <2>1, OutsideKeeps DEF WriterEnds
  <2>3. QED
    BY <1>1, <1>3, <1>7, <1>16, <2>2 DEF WriterEnds
<1>17. ASSUME NEW w \in Writers, WriterFails(w) PROVE FilesInv'
  BY <1>1, <1>3, <1>5, <1>6, <1>7, <1>17 DEF WriterFails
<1>18. ASSUME NEW f \in Files, FileChanges(f) PROVE FilesInv'
  <2>1. PICK lines : (lines = Gone \/ IsText(lines)) /\ content' = [content EXCEPT ![f] = lines]
    BY <1>18, ContentsAreTexts DEF FileChanges
  <2>2. ContentInv' /\ WritingInv'
    BY <1>18, <2>1, OutsideKeeps DEF FileChanges
  <2>3. QED
    BY <1>1, <1>3, <1>4, <1>18, <2>2 DEF FileChanges
<1>19. ASSUME TimePasses PROVE FilesInv'
  <2>1. HashInv'
    BY <1>19 DEF TimePasses, HashInv
  <2>2. QED
    BY <1>1, <1>4, <1>5, <1>6, <1>19, <2>1 DEF TimePasses
<1>20. ASSUME UNCHANGED fileVars PROVE FilesInv'
  <2>1. EditsLoseNothing'
    BY <1>20 DEF fileVars, EditsLoseNothing
  <2>2. QED
    BY <1>3, <1>4, <1>5, <1>6, <1>20, <2>1 DEF fileVars
<1>21. QED
  BY <1>8, <1>9, <1>10, <1>11, <1>12, <1>13, <1>14, <1>15, <1>16, <1>17, <1>18, <1>19, <1>20
     DEF FilesNext

\* An edit is made in the content that was read, not longer ago than a hash lasts, and changes no
\* line but the old text; and it writes over nothing else, unless something outside the event loop
\* wrote between its read and its write, whatever agents, writers and other programs do.
THEOREM EditsAreOfWhatWasRead ==
  ASSUME MaxAge \in Nat
  PROVE  FilesSpec => []EditsLoseNothing
<1>1. FilesInit => FilesInv
  BY FilesInvInit
<1>2. FilesInv /\ [FilesNext]_fileVars => FilesInv'
  BY FilesInvNext
<1>3. FilesInv => EditsLoseNothing
  BY DEF FilesInv
<1>4. QED
  BY <1>1, <1>2, <1>3, PTL DEF FilesSpec

-----------------------------------------------------------------------------
(* What a turn sends to the model *)

LEMMA ContextSteps ==
  ASSUME [Next]_agentVars
  PROVE  [TurnNext \/ TrackerNext]_contextVars
<1>1. CASE UNCHANGED agentVars
  BY <1>1 DEF agentVars
<1>2. CASE Next
  BY <1>2 DEF Next, contextVars, turnVars, trackerVars, loopVars, toolVars, messageVars, cloudVars
<1> QED BY <1>1, <1>2

Roles == {"user", "assistant", "call", "tool", "summary"}
MessageIds == Roles \X Nat
TurnMessages == [id : MessageIds, role : Roles, covers : SUBSET MessageIds]

\* A tool's result follows its call.
Paired(s) == \A i \in 1..Len(s) : s[i].role = "tool" => i > 1 /\ s[i - 1].role = "call"

\* Positions of messages of the user, and the last of them.
LEMMA LastUserIs ==
  ASSUME NEW s \in Seq(TurnMessages), Users(s) # {}
  PROVE  LastUser(s) \in Users(s) /\ \A j \in Users(s) : j <= LastUser(s)
<1> DEFINE U == Users(s)
           n == Len(s)
           Back == {n - i : i \in U}
<1>1. n \in Nat /\ U \subseteq 1..n
  BY LenProperties DEF Users
<1>2. Back \subseteq Nat /\ Back # {}
  BY <1>1
<1>3. PICK b \in Back : \A c \in Back : b <= c
  BY <1>2, NatMin
<1>4. PICK i \in U : b = n - i
  BY <1>3
<1>5. ASSUME NEW j \in U PROVE i >= j
  <2>1. n - j \in Back
    OBVIOUS
  <2>2. n - i <= n - j
    BY <1>3, <1>4, <2>1
  <2>3. i \in Nat /\ j \in Nat
    BY <1>1, <1>4
  <2> QED BY <1>1, <2>2, <2>3
<1> HIDE DEF U
<1>6. \E x \in U : \A y \in U : x >= y
  BY <1>5
<1>7. Max(U) \in U /\ \A y \in U : Max(U) >= y
  BY <1>6 DEF Max
<1> QED BY <1>1, <1>7 DEF LastUser, U

\* Of more numbers than asked for, one is at the head of as many as asked for.
FromOn(U, i) == {j \in U : j >= i}

LEMMA HeadOfSome ==
  ASSUME NEW n \in Nat, NEW U \in SUBSET (1..n), NEW keep \in Nat \ {0}, Cardinality(U) > keep
  PROVE  \E i \in U : Cardinality(FromOn(U, i)) = keep
<1> DEFINE N(i) == Cardinality(FromOn(U, i))
           Few == {i \in Nat : N(i + 1) < keep}
<1> HIDE DEF N, Few
<1>1. IsFiniteSet(U) /\ \A j \in U : j \in Nat /\ 1 <= j /\ j <= n
  <2>1. IsFiniteSet(1..n)
    BY FS_Interval
  <2>2. IsFiniteSet(U)
    BY <2>1, FS_Subset
  <2>3. ASSUME NEW j \in U PROVE j \in Nat /\ 1 <= j /\ j <= n
    <3>1. j \in 1..n
      OBVIOUS
    <3> QED BY <3>1
  <2> QED BY <2>2, <2>3
<1>2. ASSUME NEW i \in Nat PROVE IsFiniteSet(FromOn(U, i)) /\ N(i) \in Nat
  <2>1. FromOn(U, i) \subseteq U
    BY DEF FromOn
  <2> QED BY <1>1, <2>1, FS_Subset, FS_CardinalityType DEF N
<1>3. n \in Few
  <2>1. FromOn(U, n + 1) = {}
    <3> SUFFICES ASSUME NEW j \in U, j >= n + 1 PROVE FALSE
      BY DEF FromOn
    <3>1. j \in Nat /\ j <= n
      BY <1>1
    <3> QED BY <3>1
  <2>2. N(n + 1) = 0
    BY <2>1, FS_EmptySet DEF N
  <2> QED BY <2>2 DEF Few
<1>4. PICK i \in Few : \A k \in Few : i <= k
  <2>1. Few \subseteq Nat /\ Few # {}
    BY <1>3 DEF Few
  <2> QED BY <2>1, NatMin
<1>5. N(i + 1) < keep /\ i \in Nat /\ i + 1 \in Nat
  BY <1>4 DEF Few
<1>6. N(1) > keep
  <2>1. FromOn(U, 1) = U
    BY <1>1 DEF FromOn
  <2> QED BY <2>1 DEF N
<1>7. i # 0
  <2>1. N(1) \in Nat
    BY <1>2
  <2>2. ~(N(0 + 1) < keep)
    BY <1>6, <2>1
  <2> QED BY <1>5, <2>2
<1>8. N(i) >= keep /\ N(i) \in Nat /\ N(i + 1) \in Nat
  <2>1. i - 1 \in Nat /\ ~(i <= i - 1) /\ (i - 1) + 1 = i
    BY <1>5, <1>7
  <2>2. i - 1 \notin Few
    BY <1>4, <2>1
  <2>3. ~(N((i - 1) + 1) < keep)
    BY <2>1, <2>2 DEF Few
  <2>4. N(i) \in Nat /\ N(i + 1) \in Nat
    BY <1>2, <1>5
  <2> QED BY <2>1, <2>3, <2>4
<1>9. N(i) # N(i + 1)
  BY <1>5, <1>8
<1>10. i \in U
  <2> SUFFICES ASSUME i \notin U PROVE FALSE
    OBVIOUS
  <2>1. ASSUME NEW j \in U PROVE j >= i <=> j >= i + 1
    <3>1. j \in Nat /\ j # i
      BY <1>1
    <3> QED BY <1>5, <3>1
  <2>2. FromOn(U, i) = FromOn(U, i + 1)
    BY <2>1 DEF FromOn
  <2> QED BY <1>9, <2>2 DEF N
<1>11. N(i) = N(i + 1) + 1
  <2>0. ASSUME NEW j \in U PROVE j >= i <=> j >= i + 1 \/ j = i
    <3>1. j \in Nat
      BY <1>1
    <3> QED BY <1>5, <3>1
  <2>1. FromOn(U, i) = FromOn(U, i + 1) \union {i} /\ i \notin FromOn(U, i + 1)
    <3>1. i >= i /\ ~(i >= i + 1)
      BY <1>5
    <3>2. \A j : j \in FromOn(U, i) <=> j \in FromOn(U, i + 1) \union {i}
      BY <1>10, <2>0, <3>1 DEF FromOn
    <3>3. i \notin FromOn(U, i + 1)
      BY <3>1 DEF FromOn
    <3> QED BY <3>2, <3>3
  <2>2. IsFiniteSet(FromOn(U, i + 1))
    BY <1>2, <1>5
  <2> QED BY <2>1, <2>2, FS_AddElement DEF N
<1>12. N(i) = keep
  BY <1>5, <1>8, <1>11
<1> QED BY <1>10, <1>12 DEF N

\* The beginning of what is kept is a message of the user.
LEMMA KeepStartIs ==
  ASSUME NEW s \in Seq(TurnMessages), settings.keep \in Nat \ {0}, Cardinality(Users(s)) > settings.keep
  PROVE  KeepStart(s) \in Users(s)
<1>1. Len(s) \in Nat /\ Users(s) \subseteq 1..Len(s)
  BY LenProperties DEF Users
<1>2. \E i \in Users(s) : Cardinality(FromOn(Users(s), i)) = settings.keep
  BY <1>1, HeadOfSome
<1>3. KeepStart(s) = CHOOSE i \in Users(s) : Cardinality(FromOn(Users(s), i)) = settings.keep
  BY DEF KeepStart, FromOn
<1> QED BY <1>2, <1>3

\* What is left out before the history that is kept, if anything is.
Cut(s) == IF settings.keep = 0 THEN 1 ELSE KeepStart(s)

LEMMA CutIs ==
  ASSUME NEW s \in Seq(TurnMessages), settings.keep \in Nat, Droppable(s)
  PROVE  /\ Cut(s) \in 1..Len(s) /\ (Cut(s) # 1 => s[Cut(s)].role = "user")
         /\ \E j \in Users(s) : j >= Cut(s)
<1>1. Len(s) \in Nat /\ Users(s) \subseteq 1..Len(s) /\ IsFiniteSet(Users(s))
  <2>1. Len(s) \in Nat /\ Users(s) \subseteq 1..Len(s)
    BY LenProperties DEF Users
  <2>2. IsFiniteSet(1..Len(s))
    BY <2>1, FS_Interval
  <2> QED BY <2>1, <2>2, FS_Subset
<1>2. Cardinality(Users(s)) > settings.keep
  BY DEF Droppable
<1>3. Users(s) # {}
  <2>1. Cardinality({}) = 0 /\ ~(0 > settings.keep)
    BY FS_EmptySet
  <2> QED BY <1>2, <2>1
<1>4. CASE settings.keep = 0
  BY <1>1, <1>3, <1>4 DEF Cut
<1>5. CASE settings.keep # 0
  <2>1. KeepStart(s) \in Users(s)
    BY <1>2, <1>5, KeepStartIs
  <2> QED BY <1>1, <1>5, <2>1 DEF Cut, Users
<1> QED BY <1>4, <1>5

\* A history of the messages from one on, behind a summary of those before it.
LEMMA CompactedIs ==
  ASSUME NEW s \in Seq(TurnMessages), settings.keep \in Nat, turn.iteration \in Nat, Droppable(s)
  PROVE  LET c == Compacted(s)
             first == Cut(s)
         IN /\ c \in Seq(TurnMessages) /\ Len(c) = Len(s) - first + 2
            /\ c[1].role = "summary"
            /\ \A i \in 2..Len(c) : c[i] = s[first + i - 2]
            /\ Ids(s) \subseteq Covered(c)
<1> DEFINE n == Len(s)
           first == Cut(s)
           t == SubSeq(s, first, n)
           d == IF settings.keep = 0 THEN s ELSE SubSeq(s, 1, first - 1)
           z == Summary(d)
<1>1. n \in Nat /\ first \in 1..n
  BY CutIs, LenProperties
<1>2. Compacted(s) = <<z>> \o t
  <2>1. CASE settings.keep = 0
    <3>1. Compacted(s) = <<Summary(s)>> \o s
      BY <2>1 DEF Compacted
    <3>2. SubSeq(s, 1, Len(s)) = s
      BY SubSeqFull
    <3> QED BY <2>1, <3>1, <3>2 DEF Cut
  <2>2. CASE settings.keep # 0
    BY <2>2 DEF Compacted, Cut
  <2> QED BY <2>1, <2>2
<1> HIDE DEF first
<1>3. /\ t \in Seq(TurnMessages) /\ Len(t) = n - first + 1
      /\ \A i \in 1..(n - first + 1) : t[i] = s[first + i - 1]
  BY <1>1, SubSeqProperties
<1>4. /\ d \in Seq(TurnMessages) /\ Ids(d) \subseteq MessageIds
      /\ \A i \in 1..(first - 1) : \E j \in 1..Len(d) : d[j] = s[i]
  <2>1. CASE settings.keep = 0
    <3>1. d = s /\ first = 1
      BY <2>1 DEF Cut, first
    <3>2. DOMAIN s = 1..Len(s) /\ \A i \in DOMAIN s : s[i] \in TurnMessages
      BY LenProperties
    <3> HIDE DEF d
    <3> QED BY <3>1, <3>2 DEF Ids, TurnMessages
  <2>2. CASE settings.keep # 0
    <3> DEFINE e == SubSeq(s, 1, first - 1)
    <3>1. /\ e \in Seq(TurnMessages) /\ Len(e) = first - 1
          /\ \A i \in 1..(first - 1) : e[i] = s[i]
      BY <1>1, SubSeqProperties
    <3>2. d = e
      BY <2>2
    <3> HIDE DEF e, d
    <3>3. DOMAIN e = 1..Len(e) /\ \A i \in DOMAIN e : e[i] \in TurnMessages
      BY <3>1, LenProperties
    <3> QED BY <3>1, <3>2, <3>3 DEF Ids, TurnMessages
  <2> QED BY <2>1, <2>2
<1> HIDE DEF d, t
<1>5. z \in TurnMessages /\ z.role = "summary" /\ Ids(d) \subseteq z.covers
  <2>1. \A i \in DOMAIN d : d[i].covers \subseteq MessageIds
    <3>1. \A i \in DOMAIN d : d[i] \in TurnMessages
      BY <1>4, LenProperties
    <3> QED BY <3>1 DEF TurnMessages
  <2>2. Covered(d) \subseteq MessageIds
    BY <1>4, <2>1 DEF Covered
  <2>3. <<"summary", turn.iteration>> \in MessageIds /\ "summary" \in Roles
    BY DEF MessageIds, Roles
  <2>4. z = [id |-> <<"summary", turn.iteration>>, role |-> "summary", covers |-> Covered(d)]
    BY DEF Summary
  <2>5. Ids(d) \subseteq Covered(d)
    BY DEF Covered
  <2> QED BY <2>2, <2>3, <2>4, <2>5 DEF TurnMessages
<1> HIDE DEF z
<1> DEFINE c == <<z>> \o t
<1>6. /\ c \in Seq(TurnMessages) /\ Len(c) = 1 + Len(t)
      /\ \A i \in 1..(1 + Len(t)) : c[i] = IF i <= 1 THEN z ELSE t[i - 1]
  <2>1. <<z>> \in Seq(TurnMessages) /\ Len(<<z>>) = 1 /\ <<z>>[1] = z
    BY <1>5
  <2> DEFINE a == <<z>>
  <2> HIDE DEF a
  <2>2. a \in Seq(TurnMessages) /\ Len(a) = 1 /\ a[1] = z
    BY <2>1 DEF a
  <2>3. /\ a \o t \in Seq(TurnMessages) /\ Len(a \o t) = Len(a) + Len(t)
        /\ \A i \in 1..(Len(a) + Len(t)) : (a \o t)[i] = IF i <= Len(a) THEN a[i] ELSE t[i - Len(a)]
    BY <1>3, <2>2, ConcatProperties
  <2>4. c = a \o t
    BY DEF a
  <2> HIDE DEF c
  <2>5. \A i \in 1..(1 + Len(t)) : i <= 1 => i = 1
    BY <1>1, <1>3
  <2> QED BY <2>2, <2>3, <2>4, <2>5
<1> HIDE DEF c
<1>7. Len(c) = n - first + 2 /\ DOMAIN c = 1..Len(c)
  BY <1>1, <1>3, <1>6, LenProperties
<1>8. c[1] = z
  <2>1. 1 \in 1..(1 + Len(t)) /\ 1 <= 1
    BY <1>1, <1>3
  <2> QED BY <1>6, <2>1
<1>9. ASSUME NEW i \in 2..Len(c) PROVE c[i] = s[first + i - 2]
  <2>1. i \in 1..(1 + Len(t)) /\ ~(i <= 1) /\ i - 1 \in 1..(n - first + 1)
    BY <1>1, <1>3, <1>7
  <2>2. c[i] = t[i - 1] /\ t[i - 1] = s[first + (i - 1) - 1]
    BY <1>3, <1>6, <2>1
  <2>3. first + (i - 1) - 1 = first + i - 2
    BY <1>1
  <2> QED BY <2>2, <2>3
<1>10. Ids(s) \subseteq Covered(c)
  <2> SUFFICES ASSUME NEW i \in 1..n PROVE s[i].id \in Covered(c)
    BY LenProperties DEF Ids
  <2>1. CASE i < first
    <3>1. i \in 1..(first - 1)
      BY <1>1, <2>1
    <3>2. PICK j \in 1..Len(d) : d[j] = s[i]
      BY <1>4, <3>1
    <3>3. s[i].id \in Ids(d)
      BY <1>4, <3>2, LenProperties DEF Ids
    <3>4. 1 \in DOMAIN c
      BY <1>1, <1>7
    <3> QED BY <1>5, <1>8, <3>3, <3>4 DEF Covered
  <2>2. CASE ~(i < first)
    <3> DEFINE k == i - first + 2
    <3>1. k \in 2..Len(c) /\ first + k - 2 = i /\ k \in DOMAIN c
      BY <1>1, <1>7, <2>2
    <3>2. c[k] = s[i]
      BY <1>9, <3>1
    <3> QED BY <3>1, <3>2 DEF Covered, Ids
  <2> QED BY <2>1, <2>2
<1> QED BY <1>2, <1>5, <1>6, <1>7, <1>8, <1>9, <1>10 DEF c, first

LEMMA CompactedKeeps ==
  ASSUME NEW s \in Seq(TurnMessages), settings.keep \in Nat, turn.iteration \in Nat, Droppable(s)
  PROVE  LET c == Compacted(s)
         IN /\ Users(s) # {} /\ Users(c) # {} /\ c[LastUser(c)] = s[LastUser(s)]
            /\ Paired(s) => Paired(c)
            /\ c # <<>> /\ Head(c) \in TurnMessages
<1> DEFINE c == Compacted(s)
           first == Cut(s)
<1>1. /\ c \in Seq(TurnMessages) /\ Len(c) = Len(s) - first + 2 /\ c[1].role = "summary"
      /\ \A i \in 2..Len(c) : c[i] = s[first + i - 2]
  BY CompactedIs
<1>2. /\ first \in 1..Len(s) /\ (first # 1 => s[first].role = "user")
      /\ \E j \in Users(s) : j >= first
  BY CutIs
<1> HIDE DEF c, first
<1>3. Len(s) \in Nat /\ DOMAIN s = 1..Len(s) /\ DOMAIN c = 1..Len(c)
  BY <1>1, LenProperties
<1>4. Users(s) # {} /\ LastUser(s) \in Users(s) /\ \A j \in Users(s) : j <= LastUser(s)
  BY <1>2, LastUserIs
<1> DEFINE l == LastUser(s)
           k == l - first + 2
<1>5. l \in 1..Len(s) /\ l >= first /\ s[l].role = "user"
  BY <1>2, <1>3, <1>4 DEF Users
<1>6. k \in 2..Len(c) /\ first + k - 2 = l
  BY <1>1, <1>2, <1>3, <1>5
<1>7. c[k] = s[l]
  BY <1>1, <1>6
<1>8. k \in Users(c)
  BY <1>3, <1>5, <1>6, <1>7 DEF Users
<1>9. \A j \in Users(c) : j <= k
  <2> TAKE j \in Users(c)
  <2>1. j \in 1..Len(c) /\ c[j].role = "user"
    BY <1>3 DEF Users
  <2>2. j # 1
    BY <1>1, <2>1
  <2>3. j \in 2..Len(c) /\ first + j - 2 \in 1..Len(s)
    BY <1>1, <1>2, <1>3, <2>1, <2>2
  <2>4. first + j - 2 \in Users(s)
    BY <1>1, <1>3, <2>1, <2>3 DEF Users
  <2> QED BY <1>2, <1>4, <1>5, <2>3, <2>4
<1>10. LastUser(c) = k
  <2>1. LastUser(c) \in Users(c) /\ \A j \in Users(c) : j <= LastUser(c)
    BY <1>1, <1>8, LastUserIs
  <2>2. Users(c) \subseteq Nat
    BY <1>1, <1>3 DEF Users
  <2> QED BY <1>8, <1>9, <2>1, <2>2
<1>11. ASSUME Paired(s) PROVE Paired(c)
  <2> SUFFICES ASSUME NEW i \in 1..Len(c), c[i].role = "tool" PROVE i > 1 /\ c[i - 1].role = "call"
    BY DEF Paired
  <2>1. i # 1
    BY <1>1
  <2> DEFINE m == first + i - 2
  <2>2. i \in 2..Len(c) /\ m \in 1..Len(s) /\ c[i] = s[m]
    BY <1>1, <1>2, <1>3, <2>1
  <2>3. m > 1 /\ s[m - 1].role = "call"
    BY <1>11, <2>2 DEF Paired
  <2>4. i # 2
    BY <1>2, <2>2, <2>3
  <2>5. i - 1 \in 2..Len(c) /\ first + (i - 1) - 2 = m - 1
    BY <1>1, <1>2, <1>3, <2>2, <2>4
  <2> HIDE DEF m
  <2>6. c[i - 1] = s[m - 1]
    BY <1>1, <2>5
  <2> QED BY <2>2, <2>3, <2>6
<1>12. c # <<>> /\ Head(c) \in TurnMessages
  <2>1. Len(c) # 0
    BY <1>6
  <2>2. c # <<>>
    BY <2>1, EmptySeq
  <2> QED BY <1>1, <2>2, HeadTailProperties
<1> QED BY <1>4, <1>7, <1>8, <1>10, <1>11, <1>12 DEF c

\* A sequence of something.
IsSequence(h) == \E X : h \in Seq(X)

\* A window of messages keeps the last message of the user, where replay asks for it.
LEMMA CompactHistoryKeeps ==
  ASSUME NEW s \in Seq(TurnMessages), settings.maxMessages \in Nat, Users(s) # {}
  PROVE  /\ IsSequence(CompactHistory(s))
         /\ settings.maxMessages = 0 => CompactHistory(s) = s
         /\ settings.replay => s[LastUser(s)].id \in Ids(CompactHistory(s))
<1> DEFINE n == Len(s)
           size == settings.maxMessages
           l == LastUser(s)
           tail == SubSeq(s, n - size + 1, n)
           z == Summary(SubSeq(s, 1, n - size))
<1>1. n \in Nat /\ l \in 1..n /\ DOMAIN s = 1..n
  BY LastUserIs, LenProperties DEF Users
<1>2. settings.maxMessages = 0 => CompactHistory(s) = s
  BY DEF CompactHistory
<1>3. ASSUME settings.replay PROVE s[l].id \in Ids(CompactHistory(s))
  <2>1. CASE size = 0 \/ n <= size
    <3>1. CompactHistory(s) = s
      BY <2>1 DEF CompactHistory
    <3> HIDE DEF l
    <3> QED BY <1>1, <3>1 DEF Ids
  <2>2. CASE ~(size = 0 \/ n <= size) /\ l > n - size
    <3>1. CompactHistory(s) = tail
      BY <1>3, <2>2 DEF CompactHistory
    <3> HIDE DEF l
    <3> DEFINE f == n - size + 1
               k == l - f + 1
    <3>2. f \in 1..n /\ k \in 1..(n - f + 1) /\ f + k - 1 = l
      BY <1>1, <2>2
    <3> HIDE DEF k, f
    <3>3. /\ SubSeq(s, f, n) \in Seq(TurnMessages) /\ Len(SubSeq(s, f, n)) = n - f + 1
          /\ \A i \in 1..(n - f + 1) : SubSeq(s, f, n)[i] = s[f + i - 1]
      BY <1>1, <3>2, SubSeqProperties
    <3>4. SubSeq(s, f, n)[k] = s[l] /\ k \in DOMAIN SubSeq(s, f, n)
      BY <3>2, <3>3, LenProperties
    <3>5. tail = SubSeq(s, f, n)
      BY DEF f
    <3> HIDE DEF tail
    <3> QED BY <3>1, <3>4, <3>5 DEF Ids
  <2>3. CASE ~(size = 0 \/ n <= size) /\ ~(l > n - size)
    <3>1. CompactHistory(s) = <<z, s[l]>> \o tail
      BY <1>3, <2>3 DEF CompactHistory
    <3> DEFINE a == <<z, s[l]>>
               X == {z} \union TurnMessages
    <3>2. a \in Seq(X) /\ Len(a) = 2 /\ a[2] = s[l]
      <4>1. s[l] \in X
        BY <1>1
      <4> HIDE DEF l, z
      <4> QED BY <4>1
    <3>3. tail \in Seq(X)
      <4> DEFINE f == n - size + 1
      <4>1. f \in 1..n
        BY <1>1, <2>3
      <4> HIDE DEF f
      <4>2. \A i \in f..n : s[i] \in X
        BY <1>1, <4>1
      <4>3. SubSeq(s, f, n) \in Seq(X)
        BY <1>1, <4>1, <4>2, SubSeqProperties
      <4> QED BY <4>3 DEF f
    <3> HIDE DEF a, tail, X
    <3>4. /\ a \o tail \in Seq(X) /\ Len(a \o tail) = Len(a) + Len(tail)
          /\ \A i \in 1..(Len(a) + Len(tail)) :
               (a \o tail)[i] = IF i <= Len(a) THEN a[i] ELSE tail[i - Len(a)]
      BY <3>2, <3>3, ConcatProperties
    <3>5. 2 \in 1..(Len(a) + Len(tail)) /\ Len(tail) \in Nat
      BY <3>2, <3>3, LenProperties
    <3>6. (a \o tail)[2] = s[l] /\ 2 \in DOMAIN (a \o tail)
      BY <3>2, <3>4, <3>5, LenProperties
    <3>7. CompactHistory(s) = a \o tail
      BY <3>1 DEF a
    <3> QED BY <3>6, <3>7 DEF Ids
  <2> QED BY <2>1, <2>2, <2>3
<1>4. IsSequence(CompactHistory(s))
  <2>1. CASE size = 0 \/ n <= size
    BY <2>1 DEF CompactHistory, IsSequence
  <2>2. CASE ~(size = 0 \/ n <= size)
    <3> DEFINE X == {z} \union TurnMessages
               f == n - size + 1
    <3>1. f \in 1..n
      BY <1>1, <2>2
    <3> HIDE DEF f, z
    <3>2. \A i \in f..n : s[i] \in X
      BY <1>1, <3>1
    <3>3. SubSeq(s, f, n) \in Seq(X)
      BY <1>1, <3>1, <3>2, SubSeqProperties
    <3>4. tail \in Seq(X)
      BY <3>3 DEF f
    <3>5. s[l] \in X /\ z \in X
      BY <1>1
    <3>6. <<z>> \in Seq(X) /\ <<z, s[l]>> \in Seq(X)
      <4> HIDE DEF X, l
      <4> QED BY <3>5
    <3>7. CompactHistory(s) \in {tail, <<z>> \o tail, <<z, s[l]>> \o tail}
      <4>1. Users(s) # {}
        OBVIOUS
      <4> QED BY <2>2, <4>1 DEF CompactHistory, z
    <3> HIDE DEF X, tail, l
    <3>8. \A a \in Seq(X) : a \o tail \in Seq(X)
      BY <3>4, ConcatProperties
    <3>9. CompactHistory(s) \in Seq(X)
      BY <3>4, <3>6, <3>7, <3>8
    <3> QED BY <3>9 DEF IsSequence
  <2> QED BY <2>1, <2>2
<1> QED BY <1>2, <1>3, <1>4

\* What is in one of the sequences that are joined is in what they are joined to.
LEMMA FlattenHolds ==
  ASSUME NEW X, NEW ss \in Seq(Seq(X)), NEW i \in 1..Len(ss), NEW j \in 1..Len(ss[i])
  PROVE  \E k \in DOMAIN FlattenSeq(ss) : FlattenSeq(ss)[k] = ss[i][j]
<1> DEFINE Holds(tt) == \A a \in 1..Len(tt) : \A b \in 1..Len(tt[a]) :
                          \E k \in DOMAIN FlattenSeq(tt) : FlattenSeq(tt)[k] = tt[a][b]
           Bad == {n \in Nat : \E tt \in Seq(Seq(X)) : Len(tt) = n /\ ~Holds(tt)}
<1> HIDE DEF Holds
<1>1. Bad = {}
  <2> SUFFICES ASSUME Bad # {} PROVE FALSE
    OBVIOUS
  <2>1. PICK n \in Bad : \A m \in Bad : n <= m
    BY NatMin
  <2>2. PICK tt \in Seq(Seq(X)) : Len(tt) = n /\ ~Holds(tt)
    BY <2>1
  <2>3. PICK a \in 1..Len(tt) : \E b \in 1..Len(tt[a]) :
          ~ \E k \in DOMAIN FlattenSeq(tt) : FlattenSeq(tt)[k] = tt[a][b]
    BY <2>2 DEF Holds
  <2>0. PICK b \in 1..Len(tt[a]) : ~ \E k \in DOMAIN FlattenSeq(tt) : FlattenSeq(tt)[k] = tt[a][b]
    BY <2>3
  <2>4. tt # <<>> /\ n \in Nat /\ n # 0
    BY <2>2, <2>3, LenProperties
  <2> DEFINE front == SubSeq(tt, 1, Len(tt) - 1)
             last == tt[Len(tt)]
  <2>5. /\ front \in Seq(Seq(X)) /\ Len(front) = n - 1 /\ last \in Seq(X)
        /\ tt = Append(front, last)
    BY <2>2, <2>4, LastAppended
  <2> HIDE DEF front, last
  <2>6. FlattenSeq(front) \in Seq(X) /\ FlattenSeq(tt) = FlattenSeq(front) \o last
    <3>1. /\ FlattenSeq(front) \in Seq(X)
          /\ FlattenSeq(Append(front, last)) = FlattenSeq(front) \o last
      BY <2>5, FlattenAppend
    <3> QED BY <2>5, <3>1
  <2> DEFINE p == FlattenSeq(front)
             q == p \o last
  <2>7. /\ q \in Seq(X) /\ Len(q) = Len(p) + Len(last)
        /\ \A k \in 1..(Len(p) + Len(last)) : q[k] = IF k <= Len(p) THEN p[k] ELSE last[k - Len(p)]
    <3> HIDE DEF p
    <3>1. p \in Seq(X)
      BY <2>6 DEF p
    <3> QED BY <2>5, <3>1, ConcatProperties
  <2>8. p \in Seq(X) /\ FlattenSeq(tt) = q
    BY <2>6
  <2> HIDE DEF p, q
  <2>9. /\ Len(p) \in Nat /\ Len(last) \in Nat /\ DOMAIN p = 1..Len(p)
        /\ DOMAIN q = 1..(Len(p) + Len(last))
    BY <2>5, <2>7, <2>8, LenProperties
  <2>10. CASE a = n
    <3>1. tt[a] = last
      BY <2>2, <2>10 DEF last
    <3>2. b \in 1..Len(last)
      BY <3>1
    <3>3. Len(p) + b \in DOMAIN q /\ ~(Len(p) + b <= Len(p)) /\ (Len(p) + b) - Len(p) = b
      BY <2>9, <3>2
    <3>4. q[Len(p) + b] = last[b]
      BY <2>7, <2>9, <3>3
    <3> QED BY <2>0, <2>8, <3>1, <3>3, <3>4
  <2>11. CASE a # n
    <3>1. n - 1 \notin Bad /\ n - 1 \in Nat
      BY <2>1, <2>4
    <3>2. Holds(front)
      BY <2>5, <3>1
    <3>3. a \in 1..Len(front) /\ tt[a] = front[a]
      <4>1. a \in 1..Len(front)
        BY <2>2, <2>4, <2>5, <2>11
      <4>2. \A c \in 1..Len(front) : Append(front, last)[c] = front[c]
        BY <2>5, AppendProperties
      <4> QED BY <2>5, <4>1, <4>2
    <3>4. PICK k \in DOMAIN FlattenSeq(front) : FlattenSeq(front)[k] = front[a][b]
      BY <3>2, <3>3 DEF Holds
    <3>5. k \in DOMAIN p /\ p[k] = tt[a][b]
      BY <3>3, <3>4 DEF p
    <3>6. k \in DOMAIN q /\ k <= Len(p)
      BY <2>9, <3>5
    <3>7. q[k] = p[k]
      BY <2>7, <2>9, <3>6
    <3> QED BY <2>0, <2>8, <3>5, <3>6, <3>7
  <2> QED BY <2>10, <2>11
<1>2. Holds(ss)
  <2>1. Len(ss) \in Nat
    BY LenProperties
  <2> QED BY <1>1, <2>1
<1> QED BY <1>2 DEF Holds

\* The age limit leaves out nothing that is not past it.
LEMMA RecentHolds ==
  ASSUME NEW h, IsSequence(h), NEW old, NEW i \in DOMAIN h, h[i].id \notin old
  PROVE  \E k \in DOMAIN Recent(h, old) : Recent(h, old)[k] = h[i]
<1>1. CASE ~settings.aged
  BY <1>1 DEF Recent
<1>2. CASE settings.aged
  <2>1. PICK X : h \in Seq(X)
    BY DEF IsSequence
  <2>2. Len(h) \in Nat /\ DOMAIN h = 1..Len(h) /\ \A j \in 1..Len(h) : h[j] \in X
    BY <2>1, LenProperties
  <2> DEFINE One(j) == IF h[j].id \in old THEN <<>> ELSE <<h[j]>>
             ss == [j \in DOMAIN h |-> One(j)]
  <2>3. \A j \in 1..Len(h) : One(j) \in Seq(X)
    <3> TAKE j \in 1..Len(h)
    <3> DEFINE e == h[j]
    <3>1. e \in X /\ One(j) = IF e.id \in old THEN <<>> ELSE <<e>>
      BY <2>2
    <3> HIDE DEF e, One
    <3> QED BY <3>1
  <2>4. One(i) = <<h[i]>>
    OBVIOUS
  <2> HIDE DEF One
  <2>5. ss \in Seq(Seq(X)) /\ Len(ss) = Len(h) /\ ss[i] = One(i)
    <3>1. ss \in [1..Len(h) -> Seq(X)]
      BY <2>2, <2>3
    <3> QED BY <2>2, <3>1, IsSeqOf
  <2>6. Recent(h, old) = FlattenSeq(ss)
    BY <1>2 DEF Recent, One
  <2> HIDE DEF ss
  <2>7. 1 \in 1..Len(ss[i]) /\ ss[i][1] = h[i] /\ i \in 1..Len(ss)
    BY <2>2, <2>4, <2>5
  <2>8. \E k \in DOMAIN FlattenSeq(ss) : FlattenSeq(ss)[k] = ss[i][1]
    BY <2>5, <2>7, FlattenHolds
  <2> QED BY <2>6, <2>7, <2>8
<1> QED BY <1>1, <1>2

\* The configured prompts are in the request.
LEMMA PromptsAreSent ==
  ASSUME prompts \in PromptTrees, NEW history, NEW readable \in BOOLEAN, NEW old,
         ~LastIs(Collect(prompts), "user")
  PROVE  BuildLlmMessages(history, readable, old).prompts = Collect(prompts)
<1> DEFINE Own(i) == [role |-> IF prompts[i].role = "" THEN "system" ELSE prompts[i].role,
                      text |-> TextOf(prompts)[i]]
           One(i) == IF Enabled(prompts)[i] /\ (TextOf(prompts)[i] # <<>> \/ prompts[i].role # "")
                     THEN <<Own(i)>> ELSE <<>>
           text == <<IF settings.picture THEN "picture" ELSE "question">>
           askedNow == [role |-> "user", text |-> text]
           X == {Own(i) : i \in DOMAIN prompts} \union {askedNow}
           n == Len(prompts)
           all == [i \in DOMAIN prompts |-> One(i)]
           C == Collect(prompts)
<1>1. n \in Nat /\ DOMAIN prompts = 1..n
  BY ContextAssumption
<1>2. C = FlattenSeq(all)
  BY DEF Collect
<1>3. C \in Seq(X)
  <2>1. ASSUME NEW i \in 1..n PROVE One(i) \in Seq(X)
    <3>1. Own(i) \in X
      BY <1>1
    <3> DEFINE own == Own(i)
               yes == Enabled(prompts)[i] /\ (TextOf(prompts)[i] # <<>> \/ prompts[i].role # "")
    <3>2. One(i) = IF yes THEN <<own>> ELSE <<>>
      OBVIOUS
    <3>3. own \in X
      BY <3>1
    <3> HIDE DEF own, yes, X, One
    <3> QED BY <3>2, <3>3
  <2> HIDE DEF X, One
  <2>2. all \in [1..n -> Seq(X)]
    BY <1>1, <2>1
  <2>3. all \in Seq(Seq(X))
    BY <1>1, <2>2, IsSeqOf
  <2>4. <<>> \in Seq(X)
    BY EmptySeq
  <2> HIDE DEF all
  <2> QED BY <1>2, <2>3, <2>4, FlattenAppend
<1>4. PromptConcat(Recent(history, old), readable) = C \o <<>> \/ PromptConcat(Recent(history, old), readable) = C \o <<askedNow>>
  BY DEF PromptConcat
<1>5. askedNow \in X /\ askedNow.role = "user"
  OBVIOUS
<1> DEFINE flat == PromptConcat(Recent(history, old), readable)
<1>6. BuildLlmMessages(history, readable, old).prompts = IF LastIs(flat, "user") THEN Front(flat) ELSE flat
  BY DEF BuildLlmMessages
<1> HIDE DEF X, askedNow, C, flat
<1>7. CASE flat = C \o <<>>
  <2>1. flat = C
    BY <1>3, <1>7, ConcatEmptySeq
  <2> QED BY <1>6, <2>1 DEF C
<1>8. CASE flat = C \o <<askedNow>>
  <2>1. flat = Append(C, askedNow)
    BY <1>3, <1>5, <1>8, AppendIsConcat
  <2>2. /\ flat \in Seq(X) /\ Len(flat) = Len(C) + 1 /\ flat[Len(C) + 1] = askedNow
        /\ \A i \in 1..Len(C) : flat[i] = C[i]
    BY <1>3, <1>5, <2>1, AppendProperties
  <2>3. flat # <<>> /\ Last(flat) = askedNow
    <3>1. Len(flat) # 0
      BY <1>3, <2>2, LenProperties
    <3> QED BY <2>2, <3>1, EmptySeq DEF Last
  <2>4. LastIs(flat, "user")
    BY <1>5, <2>3 DEF LastIs
  <2>5. Front(flat) = C
    <3>1. Len(C) \in Nat
      BY <1>3, LenProperties
    <3>2. Front(flat) = SubSeq(flat, 1, Len(C))
      BY <2>2, <3>1 DEF Front
    <3> DEFINE f == SubSeq(flat, 1, Len(C))
    <3>3. f \in Seq(X) /\ Len(f) = Len(C) /\ \A i \in 1..Len(C) : f[i] = flat[i]
      BY <2>2, <3>1, SubSeqProperties
    <3> HIDE DEF f
    <3>4. \A i \in 1..Len(C) : f[i] = C[i]
      BY <2>2, <3>3
    <3>5. f = C
      BY <1>3, <3>3, <3>4, SeqEqual
    <3> QED BY <3>2, <3>5 DEF f
  <2> QED BY <1>6, <2>4, <2>5 DEF C
<1> QED BY <1>4, <1>7, <1>8 DEF flat

TurnFields == {"pc", "read", "history", "request", "iteration", "old"}
Preparing == {"hook", "auto", "summarise", "persist", "compact", "build"}

\* Where a turn is says what its history is: the messages it read, or those behind a summary.
HistoryOk ==
    /\ turn.pc \in Preparing =>
         turn.read \in Seq(TurnMessages) /\ Users(turn.read) # {} /\ (~interleaved => Paired(turn.read))
    /\ turn.pc \in {"hook", "auto", "summarise", "build"} => turn.history = turn.read
    /\ turn.pc = "summarise" => Droppable(turn.read)
    /\ turn.pc = "persist" => Droppable(turn.read) /\ turn.history = Compacted(turn.read)
    /\ turn.pc = "compact" =>
         \/ turn.history = turn.read
         \/ Droppable(turn.read) /\ turn.history = Compacted(turn.read)

\* A conversation whose turn is under way has a message of the user, and unless one came between
\* them each result follows its call, the next one too.
StoredOk ==
    /\ stored \in Seq(TurnMessages)
    /\ turn.pc # "idle" => Users(stored) # {}
    /\ ~interleaved => Paired(stored)
    /\ ~interleaved /\ turn.pc = "tool" => stored # <<>> /\ Last(stored).role = "call"

TurnInv ==
    /\ settings \in Settings /\ prompts \in PromptTrees
    /\ DOMAIN turn = TurnFields /\ turn.iteration \in Nat
    /\ turn.pc \in Preparing \union {"idle", "read", "sent", "tool"}
    /\ interleaved \in BOOLEAN
    /\ StoredOk /\ HistoryOk
    /\ RequestIsWhole /\ ResultsKeepTheirCalls

LEMMA TurnInitially ==
  ASSUME ContextInit
  PROVE  TurnInv
<1>1. /\ turn.pc = "idle" /\ turn.iteration = 0 /\ DOMAIN turn = TurnFields
      /\ stored = <<>> /\ interleaved = FALSE /\ settings \in Settings /\ prompts \in PromptTrees
  BY DEF ContextInit, TurnFields
<1>2. <<>> \in Seq(TurnMessages) /\ Len(<<>>) = 0
  BY EmptySeq
<1>3. StoredOk
  BY <1>1, <1>2 DEF StoredOk, Paired
<1>4. HistoryOk /\ RequestIsWhole /\ ResultsKeepTheirCalls
  BY <1>1 DEF HistoryOk, Preparing, RequestIsWhole, ResultsKeepTheirCalls, At
<1>5. turn.iteration \in Nat /\ turn.pc \in Preparing \union {"idle", "read", "sent", "tool"}
  BY <1>1
<1>6. interleaved \in BOOLEAN
  BY <1>1
<1> QED BY <1>1, <1>3, <1>4, <1>5, <1>6 DEF TurnInv

\* A message that is stored, after the others.
LEMMA StoreIs ==
  ASSUME stored \in Seq(TurnMessages), NEW m \in TurnMessages, Store(m)
  PROVE  /\ stored' \in Seq(TurnMessages) /\ Len(stored') = Len(stored) + 1
         /\ stored' # <<>> /\ Last(stored') = m
         /\ Users(stored) # {} \/ m.role = "user" => Users(stored)' # {}
         /\ /\ Paired(stored)
            /\ m.role = "tool" => stored # <<>> /\ Last(stored).role = "call"
            => Paired(stored)'
<1>1. /\ stored' \in Seq(TurnMessages) /\ Len(stored') = Len(stored) + 1
      /\ stored'[Len(stored) + 1] = m
      /\ \A i \in 1..Len(stored) : stored'[i] = stored[i]
  <2>1. stored' = Append(stored, m)
    BY DEF Store
  <2> QED BY <2>1, AppendProperties
<1>2. Len(stored) \in Nat /\ DOMAIN stored = 1..Len(stored) /\ DOMAIN stored' = 1..(Len(stored) + 1)
  BY <1>1, LenProperties
<1>3. stored' # <<>> /\ Last(stored') = m
  <2>1. Len(stored') # 0
    BY <1>1, <1>2
  <2> QED BY <1>1, <2>1, EmptySeq DEF Last
<1>4. ASSUME Users(stored) # {} \/ m.role = "user" PROVE Users(stored)' # {}
  <2>1. CASE m.role = "user"
    <3>1. Len(stored) + 1 \in Users(stored)'
      BY <1>1, <1>2, <2>1 DEF Users
    <3> QED BY <3>1
  <2>2. CASE Users(stored) # {}
    <3>1. PICK i \in Users(stored) : TRUE
      BY <2>2
    <3>2. i \in 1..Len(stored) /\ stored[i].role = "user" /\ i \in 1..(Len(stored) + 1)
      BY <1>2, <3>1 DEF Users
    <3>3. i \in Users(stored)'
      BY <1>1, <1>2, <3>2 DEF Users
    <3> QED BY <3>3
  <2> QED BY <1>4, <2>1, <2>2
<1>5. ASSUME Paired(stored), m.role = "tool" => stored # <<>> /\ Last(stored).role = "call"
      PROVE  Paired(stored)'
  <2> SUFFICES ASSUME NEW i \in 1..Len(stored'), stored'[i].role = "tool"
               PROVE  i > 1 /\ stored'[i - 1].role = "call"
    BY DEF Paired
  <2>1. CASE i = Len(stored) + 1
    <3>1. stored # <<>> /\ Last(stored).role = "call"
      BY <1>1, <1>5, <2>1
    <3>2. Len(stored) # 0
      BY <3>1, EmptySeq
    <3>3. Len(stored) \in 1..Len(stored) /\ i - 1 = Len(stored) /\ i > 1
      BY <1>2, <2>1, <3>2
    <3> QED BY <1>1, <3>1, <3>3 DEF Last
  <2>2. CASE i # Len(stored) + 1
    <3>1. i \in 1..Len(stored)
      BY <1>1, <1>2, <2>2
    <3>2. i > 1 /\ stored[i - 1].role = "call"
      BY <1>1, <1>5, <3>1 DEF Paired
    <3>3. i - 1 \in 1..Len(stored)
      BY <1>2, <3>1, <3>2
    <3> QED BY <1>1, <3>2, <3>3
  <2> QED BY <2>1, <2>2
<1> QED BY <1>1, <1>3, <1>4, <1>5

LEMMA MessageIs ==
  ASSUME stored \in Seq(TurnMessages), NEW role \in Roles
  PROVE  Message(role) \in TurnMessages /\ Message(role).role = role
<1>1. Len(stored) \in Nat
  BY LenProperties
<1>2. <<role, Len(stored)>> \in MessageIds /\ {} \in SUBSET MessageIds
  BY <1>1 DEF MessageIds
<1> QED BY <1>2 DEF Message, TurnMessages

\* What a turn that stays where it is has, it keeps while messages come.
LEMMA TurnStays ==
  ASSUME TurnInv, turn' = turn, UNCHANGED <<settings, prompts>>, StoredOk',
         interleaved' \in BOOLEAN, interleaved => interleaved'
  PROVE  TurnInv'
<1>1. Compacted(turn.read)' = Compacted(turn.read) /\ Droppable(turn.read)' = Droppable(turn.read)
  BY DEF Compacted, Summary, KeepStart, Droppable
<1>2. HistoryOk'
  BY <1>1 DEF TurnInv, HistoryOk
<1>3. RequestIsWhole' /\ ResultsKeepTheirCalls'
  <2>1. Collect(prompts)' = Collect(prompts)
    OBVIOUS
  <2>2. TooOld' = TooOld
    BY DEF TooOld
  <2> QED BY <2>1, <2>2 DEF TurnInv, RequestIsWhole, ResultsKeepTheirCalls, At
<1> QED BY <1>2, <1>3 DEF TurnInv

\* A turn that goes to a place without a history.
LEMMA TurnGoes ==
  ASSUME TurnInv, UNCHANGED <<settings, prompts>>, StoredOk', DOMAIN turn' = TurnFields,
         turn'.iteration \in Nat, turn'.pc \in {"idle", "read", "tool"}, interleaved' \in BOOLEAN
  PROVE  TurnInv'
<1>1. HistoryOk' /\ RequestIsWhole' /\ ResultsKeepTheirCalls'
  BY DEF HistoryOk, Preparing, RequestIsWhole, ResultsKeepTheirCalls, At
<1> QED BY <1>1 DEF TurnInv

LEMMA QuestionKeeps ==
  ASSUME TurnInv, UserWrites
  PROVE  TurnInv'
<1>1. Message("user") \in TurnMessages /\ Message("user").role = "user"
  BY MessageIs DEF TurnInv, StoredOk, Roles
<1>2. /\ stored' \in Seq(TurnMessages) /\ Users(stored)' # {}
      /\ Paired(stored) => Paired(stored)'
  BY <1>1, StoreIs DEF UserWrites, TurnInv, StoredOk
<1>3. interleaved' = (interleaved \/ At("tool")) /\ UNCHANGED <<settings, prompts>>
  BY DEF UserWrites
<1>4. /\ interleaved' \in BOOLEAN /\ (interleaved => interleaved')
      /\ (~interleaved' => ~interleaved /\ turn.pc # "tool")
  BY <1>3 DEF At
<1>5. ~interleaved' => Paired(stored)'
  BY <1>2, <1>4 DEF TurnInv, StoredOk
<1>6. CASE turn' = turn
  <2>1. StoredOk'
    BY <1>2, <1>4, <1>5, <1>6 DEF StoredOk
  <2> QED BY <1>3, <1>4, <1>6, <2>1, TurnStays
<1>7. CASE turn' # turn
  <2>1. turn' = [turn EXCEPT !.pc = "read", !.iteration = 0]
    BY <1>7 DEF UserWrites
  <2>2. DOMAIN turn' = TurnFields /\ turn'.pc = "read" /\ turn'.iteration \in Nat
    BY <2>1 DEF TurnInv, TurnFields
  <2>3. StoredOk'
    BY <1>2, <1>5, <2>2 DEF StoredOk
  <2> QED BY <1>3, <1>4, <2>2, <2>3, TurnGoes
<1> QED BY <1>6, <1>7

\* A step of a turn that stores nothing.
LEMMA TurnPrepares ==
  ASSUME TurnInv, UNCHANGED <<settings, prompts, interleaved>>, stored' = stored,
         turn.pc \notin {"idle", "tool"}, DOMAIN turn' = TurnFields, turn'.iteration \in Nat,
         turn'.pc \in Preparing, HistoryOk'
  PROVE  TurnInv'
<1>1. StoredOk'
  BY DEF TurnInv, StoredOk, Preparing
<1>2. RequestIsWhole' /\ ResultsKeepTheirCalls'
  BY DEF Preparing, RequestIsWhole, ResultsKeepTheirCalls, At
<1> QED BY <1>1, <1>2 DEF TurnInv

LEMMA ReadHistoryKeeps ==
  ASSUME TurnInv, ReadHistory
  PROVE  TurnInv'
<1>1. /\ turn.pc = "read" /\ UNCHANGED <<settings, prompts, stored, interleaved>>
      /\ turn' = [turn EXCEPT !.pc = "hook", !.read = stored, !.history = stored, !.iteration = @ + 1]
  BY DEF ReadHistory, At
<1>2. /\ DOMAIN turn' = TurnFields /\ turn'.pc = "hook" /\ turn'.read = stored
      /\ turn'.history = stored /\ turn'.iteration = turn.iteration + 1
  BY <1>1 DEF TurnInv, TurnFields
<1>3. HistoryOk'
  BY <1>1, <1>2 DEF TurnInv, HistoryOk, StoredOk
<1>4. "hook" \in Preparing /\ turn.iteration + 1 \in Nat
  BY DEF Preparing, TurnInv
<1> QED BY <1>1, <1>2, <1>3, <1>4, TurnPrepares

\* Going on with the history as it is.
LEMMA GoesOn ==
  ASSUME TurnInv, UNCHANGED <<settings, prompts, interleaved>>, stored' = stored, NEW pc,
         turn' = [turn EXCEPT !.pc = pc],
         \/ turn.pc = "hook" /\ pc \in {"auto", "build"}
         \/ turn.pc \in {"auto", "summarise"} /\ pc = "compact"
         \/ turn.pc = "auto" /\ pc = "summarise" /\ Droppable(turn.read)
  PROVE  TurnInv'
<1>1. /\ DOMAIN turn' = TurnFields /\ turn'.pc = pc /\ turn'.read = turn.read
      /\ turn'.history = turn.history /\ turn'.iteration = turn.iteration
  BY DEF TurnInv, TurnFields
<1>2. Droppable(turn.read)' = Droppable(turn.read)
  BY <1>1 DEF KeepStart, Droppable
<1>3. HistoryOk'
  BY <1>1, <1>2 DEF TurnInv, HistoryOk, Preparing
<1>4. pc \in Preparing /\ turn.pc \notin {"idle", "tool"} /\ turn.iteration \in Nat
  BY DEF Preparing, TurnInv
<1> QED BY <1>1, <1>3, <1>4, TurnPrepares

LEMMA Compacts ==
  ASSUME TurnInv, UNCHANGED <<settings, prompts, interleaved>>, stored' = stored,
         turn.pc \in {"auto", "summarise"}, Droppable(turn.read),
         turn' = [turn EXCEPT !.pc = "persist", !.history = Compacted(turn.history)]
  PROVE  TurnInv'
<1>0. turn.history = turn.read
  BY DEF TurnInv, HistoryOk
<1>1. /\ DOMAIN turn' = TurnFields /\ turn'.pc = "persist" /\ turn'.read = turn.read
      /\ turn'.history = Compacted(turn.read) /\ turn'.iteration = turn.iteration
  BY <1>0 DEF TurnInv, TurnFields
<1>2. Compacted(turn.read)' = Compacted(turn.read) /\ Droppable(turn.read)' = Droppable(turn.read)
  BY <1>1 DEF Compacted, Summary, KeepStart, Droppable
<1>3. HistoryOk'
  BY <1>1, <1>2 DEF TurnInv, HistoryOk, Preparing
<1>4. "persist" \in Preparing /\ turn.pc \notin {"idle", "tool"} /\ turn.iteration \in Nat
  BY DEF Preparing, TurnInv
<1> QED BY <1>1, <1>3, <1>4, TurnPrepares

LEMMA CompactionHookKeeps ==
  ASSUME TurnInv, CompactionHook
  PROVE  TurnInv'
<1>1. turn.pc = "hook" /\ UNCHANGED <<settings, prompts, interleaved>> /\ stored' = stored
  BY DEF CompactionHook, At
<1>2. turn' = [turn EXCEPT !.pc = "auto"] \/ turn' = [turn EXCEPT !.pc = "build"]
  BY DEF CompactionHook
<1>3. CASE turn' = [turn EXCEPT !.pc = "auto"]
  BY <1>1, <1>3, GoesOn
<1>4. CASE turn' = [turn EXCEPT !.pc = "build"]
  BY <1>1, <1>4, GoesOn
<1> QED BY <1>2, <1>3, <1>4

LEMMA AutoCompactKeeps ==
  ASSUME TurnInv, AutoCompact
  PROVE  TurnInv'
<1>1. turn.pc = "auto" /\ UNCHANGED <<settings, prompts, interleaved>> /\ stored' = stored
  BY DEF AutoCompact, At
<1>2. turn.history = turn.read
  BY <1>1 DEF TurnInv, HistoryOk
<1>3. \/ turn' = [turn EXCEPT !.pc = "compact"]
      \/ Droppable(turn.history) /\ turn' = [turn EXCEPT !.pc = "summarise"]
      \/ Droppable(turn.history)
         /\ turn' = [turn EXCEPT !.pc = "persist", !.history = Compacted(turn.history)]
  BY DEF AutoCompact
<1>4. CASE turn' = [turn EXCEPT !.pc = "compact"]
  BY <1>1, <1>4, GoesOn
<1>5. CASE Droppable(turn.history) /\ turn' = [turn EXCEPT !.pc = "summarise"]
  BY <1>1, <1>2, <1>5, GoesOn
<1>6. CASE Droppable(turn.history)
           /\ turn' = [turn EXCEPT !.pc = "persist", !.history = Compacted(turn.history)]
  BY <1>1, <1>2, <1>6, Compacts
<1> QED BY <1>3, <1>4, <1>5, <1>6

LEMMA SummarisedKeeps ==
  ASSUME TurnInv, Summarised
  PROVE  TurnInv'
<1>1. turn.pc = "summarise" /\ UNCHANGED <<settings, prompts, interleaved>> /\ stored' = stored
  BY DEF Summarised, At
<1>2. Droppable(turn.read)
  BY <1>1 DEF TurnInv, HistoryOk
<1>3. \/ turn' = [turn EXCEPT !.pc = "compact"]
      \/ turn' = [turn EXCEPT !.pc = "persist", !.history = Compacted(turn.history)]
  BY DEF Summarised
<1>4. CASE turn' = [turn EXCEPT !.pc = "compact"]
  BY <1>1, <1>4, GoesOn
<1>5. CASE turn' = [turn EXCEPT !.pc = "persist", !.history = Compacted(turn.history)]
  BY <1>1, <1>2, <1>5, Compacts
<1> QED BY <1>3, <1>4, <1>5

LEMMA SettingsAre ==
  ASSUME TurnInv
  PROVE  settings.keep \in Nat /\ settings.maxMessages \in Nat /\ settings.aged \in BOOLEAN
  BY ContextAssumption DEF TurnInv

LEMMA PersistSummaryKeeps ==
  ASSUME TurnInv, PersistSummary
  PROVE  TurnInv'
<1>1. /\ turn.pc = "persist" /\ UNCHANGED <<settings, prompts, interleaved>>
      /\ turn' = [turn EXCEPT !.pc = "compact"]
  BY DEF PersistSummary, At
<1>2. /\ turn.read \in Seq(TurnMessages) /\ Droppable(turn.read)
      /\ turn.history = Compacted(turn.read)
  BY <1>1 DEF TurnInv, HistoryOk, Preparing
<1>3. Head(turn.history) \in TurnMessages /\ Head(turn.history).role = "summary"
  <2>1. Compacted(turn.read) # <<>> /\ Head(Compacted(turn.read)) \in TurnMessages
    BY <1>2, SettingsAre, CompactedKeeps DEF TurnInv
  <2>2. Compacted(turn.read) \in Seq(TurnMessages) /\ Compacted(turn.read)[1].role = "summary"
    BY <1>2, SettingsAre, CompactedIs DEF TurnInv
  <2> QED BY <1>2, <2>1, <2>2, HeadTailProperties
<1> DEFINE m == [Head(turn.history) EXCEPT !.id = <<"summary", Len(stored)>>]
<1>4. m \in TurnMessages /\ m.role = "summary"
  <2>1. Len(stored) \in Nat
    BY LenProperties DEF TurnInv, StoredOk
  <2>2. <<"summary", Len(stored)>> \in MessageIds
    BY <2>1 DEF MessageIds, Roles
  <2> QED BY <1>3, <2>2 DEF TurnMessages
<1>5. Store(m) \/ stored' = stored
  BY DEF PersistSummary
<1> HIDE DEF m
<1>6. /\ DOMAIN turn' = TurnFields /\ turn'.pc = "compact" /\ turn'.read = turn.read
      /\ turn'.history = turn.history /\ turn'.iteration = turn.iteration
  BY <1>1 DEF TurnInv, TurnFields
<1>7. StoredOk'
  <2>1. CASE Store(m)
    <3>1. /\ stored' \in Seq(TurnMessages)
          /\ Users(stored) # {} => Users(stored)' # {}
          /\ Paired(stored) => Paired(stored)'
      BY <1>4, <2>1, StoreIs DEF TurnInv, StoredOk
    <3> QED BY <1>1, <1>6, <3>1 DEF TurnInv, StoredOk
  <2>2. CASE stored' = stored
    BY <1>1, <1>6, <2>2 DEF TurnInv, StoredOk
  <2> QED BY <1>5, <2>1, <2>2
<1>8. Compacted(turn.read)' = Compacted(turn.read) /\ Droppable(turn.read)' = Droppable(turn.read)
  BY <1>1, <1>6 DEF Compacted, Summary, KeepStart, Droppable
<1>9. HistoryOk'
  BY <1>1, <1>6, <1>8 DEF TurnInv, HistoryOk, Preparing
<1>10. RequestIsWhole' /\ ResultsKeepTheirCalls' /\ turn'.pc \in Preparing
  BY <1>6 DEF Preparing, RequestIsWhole, ResultsKeepTheirCalls, At
<1> QED BY <1>1, <1>6, <1>7, <1>9, <1>10 DEF TurnInv

\* What is asked of a history that is sent.
SentOk(h) ==
    /\ IsSequence(h)
    /\ settings.replay => turn.read[LastUser(turn.read)].id \in Ids(h)
    /\ settings.maxMessages = 0 => Ids(turn.read) \subseteq Covered(h)
    /\ settings.maxMessages = 0 /\ ~interleaved => Paired(h)

LEMMA ReadIsSent ==
  ASSUME TurnInv, turn.pc \in {"compact", "build"}, turn.history = turn.read
  PROVE  SentOk(turn.history) /\ SentOk(CompactHistory(turn.history))
<1>1. turn.read \in Seq(TurnMessages) /\ Users(turn.read) # {} /\ (~interleaved => Paired(turn.read))
  BY DEF TurnInv, HistoryOk, Preparing
<1>2. LastUser(turn.read) \in DOMAIN turn.read
  BY <1>1, LastUserIs DEF Users
<1>3. turn.read[LastUser(turn.read)].id \in Ids(turn.read) /\ Ids(turn.read) \subseteq Covered(turn.read)
  BY <1>2 DEF Ids, Covered
<1>4. /\ IsSequence(CompactHistory(turn.read)) /\ IsSequence(turn.read)
      /\ settings.maxMessages = 0 => CompactHistory(turn.read) = turn.read
      /\ settings.replay => turn.read[LastUser(turn.read)].id \in Ids(CompactHistory(turn.read))
  BY <1>1, SettingsAre, CompactHistoryKeeps DEF IsSequence
<1> QED BY <1>1, <1>3, <1>4 DEF SentOk

LEMMA CompactedIsSent ==
  ASSUME TurnInv, turn.pc = "compact", Droppable(turn.read), turn.history = Compacted(turn.read)
  PROVE  SentOk(CompactHistory(turn.history))
<1> DEFINE c == Compacted(turn.read)
<1>1. turn.read \in Seq(TurnMessages) /\ Users(turn.read) # {} /\ (~interleaved => Paired(turn.read))
  BY DEF TurnInv, HistoryOk, Preparing
<1>2. /\ c \in Seq(TurnMessages) /\ Ids(turn.read) \subseteq Covered(c)
  BY <1>1, SettingsAre, CompactedIs DEF TurnInv
<1>3. /\ Users(c) # {} /\ c[LastUser(c)] = turn.read[LastUser(turn.read)]
      /\ Paired(turn.read) => Paired(c)
  BY <1>1, SettingsAre, CompactedKeeps DEF TurnInv
<1>4. turn.history = c
  OBVIOUS
<1> HIDE DEF c
<1>5. /\ IsSequence(CompactHistory(c))
      /\ settings.maxMessages = 0 => CompactHistory(c) = c
      /\ settings.replay => c[LastUser(c)].id \in Ids(CompactHistory(c))
  BY <1>2, <1>3, SettingsAre, CompactHistoryKeeps
<1> QED BY <1>1, <1>2, <1>3, <1>4, <1>5 DEF SentOk

\* What is sent, and what the age limit leaves out of it.
LEMMA SentIsWhole ==
  ASSUME NEW h, IsSequence(h), NEW old, NEW i \in DOMAIN h
  PROVE  LET given == Recent(h, old)
             late == UNION {{h[j].id} \union h[j].covers : j \in {k \in DOMAIN h : h[k].id \in old}}
         IN /\ h[i].id \in Ids(given) \union old
            /\ {h[i].id} \union h[i].covers \subseteq Covered(given) \union late
<1> DEFINE given == Recent(h, old)
           late == UNION {{h[j].id} \union h[j].covers : j \in {k \in DOMAIN h : h[k].id \in old}}
<1>1. CASE h[i].id \in old
  <2>1. {h[i].id} \union h[i].covers \subseteq late
    BY <1>1
  <2> QED BY <1>1, <2>1
<1>2. CASE h[i].id \notin old
  <2>1. PICK k \in DOMAIN given : given[k] = h[i]
    BY <1>2, RecentHolds
  <2> HIDE DEF given
  <2>2. h[i].id \in Ids(given)
    BY <2>1 DEF Ids
  <2>3. {h[i].id} \union h[i].covers \subseteq Covered(given)
    BY <2>1, <2>2 DEF Covered
  <2> QED BY <2>2, <2>3 DEF given
<1> QED BY <1>1, <1>2

LEMMA SendRequestKeeps ==
  ASSUME TurnInv, SendRequest
  PROVE  TurnInv'
<1> DEFINE h == IF At("build") THEN turn.history ELSE CompactHistory(turn.history)
<1>1. /\ turn.pc \in {"compact", "build"} /\ UNCHANGED <<settings, prompts, stored, interleaved>>
  BY DEF SendRequest
<1>2. PICK readable \in BOOLEAN, old \in IF settings.aged THEN SUBSET Ids(h) ELSE {{}} :
        turn' = [turn EXCEPT !.pc = "sent", !.history = h, !.old = old,
                             !.request = BuildLlmMessages(h, readable, old)]
  BY DEF SendRequest
<1>3. SentOk(h)
  <2>1. turn.pc = "build" => turn.history = turn.read
    BY DEF TurnInv, HistoryOk
  <2>2. turn.pc = "compact" => \/ turn.history = turn.read
                               \/ Droppable(turn.read) /\ turn.history = Compacted(turn.read)
    BY DEF TurnInv, HistoryOk
  <2> QED BY <1>1, <2>1, <2>2, ReadIsSent, CompactedIsSent DEF At
<1> HIDE DEF h
<1> DEFINE r == BuildLlmMessages(h, readable, old)
<1>4. /\ r.history = Recent(h, old)
      /\ ~LastIs(Collect(prompts), "user") => r.prompts = Collect(prompts)
  <2>1. r.history = Recent(h, old)
    BY DEF BuildLlmMessages
  <2> QED BY <2>1, PromptsAreSent DEF TurnInv
<1> HIDE DEF r
<1>5. /\ DOMAIN turn' = TurnFields /\ turn'.pc = "sent" /\ turn'.read = turn.read
      /\ turn'.request = r /\ turn'.iteration = turn.iteration
      /\ turn'.history = h /\ turn'.old = old
  BY <1>2 DEF TurnInv, TurnFields, r
<1>6. StoredOk'
  BY <1>1, <1>5 DEF TurnInv, StoredOk
<1>7. HistoryOk'
  BY <1>5 DEF HistoryOk, Preparing
<1>8. RequestIsWhole'
  <2>1. Collect(prompts)' = Collect(prompts)
    BY <1>1
  <2> DEFINE given == Recent(h, old)
             late == UNION {{h[j].id} \union h[j].covers : j \in {k \in DOMAIN h : h[k].id \in old}}
             question == turn.read[LastUser(turn.read)].id
  <2>2. /\ settings.replay => question \in Ids(h)
        /\ settings.maxMessages = 0 => Ids(turn.read) \subseteq Covered(h)
        /\ IsSequence(h)
    BY <1>3 DEF SentOk
  <2>3. TooOld' = late
    BY <1>5 DEF TooOld
  <2> HIDE DEF question
  <2>4. Ids(h) \subseteq Ids(given) \union old
    BY <2>2, SentIsWhole DEF Ids
  <2>5. Covered(h) \subseteq Covered(given) \union late
    <3>1. Covered(h) = UNION {{h[i].id} \union h[i].covers : i \in DOMAIN h}
      BY DEF Covered, Ids
    <3>2. \A i \in DOMAIN h : {h[i].id} \union h[i].covers \subseteq Covered(given) \union late
      BY <2>2, SentIsWhole
    <3> HIDE DEF given, late
    <3> QED BY <3>1, <3>2
  <2>6. /\ settings.replay => question \in Ids(given) \union old
        /\ settings.maxMessages = 0 => Ids(turn.read) \subseteq Covered(given) \union late
    BY <2>2, <2>4, <2>5
  <2>7. question' = question
    BY <1>5 DEF question
  <2> HIDE DEF late, given
  <2> QED BY <1>1, <1>4, <1>5, <2>1, <2>3, <2>6, <2>7 DEF RequestIsWhole, given, question
<1>9. ResultsKeepTheirCalls'
  <2>0. ~settings.aged => r.history = h
    BY <1>4 DEF Recent
  <2> SUFFICES ASSUME settings.maxMessages = 0, ~interleaved, NEW i \in DOMAIN h, h[i].role = "tool"
               PROVE  \E j \in 1..(i - 1) : h[j].role = "call"
                         /\ \A k \in (j + 1)..(i - 1) : h[k].role \in {"summary"}
    BY <1>1, <1>5, <2>0 DEF ResultsKeepTheirCalls
  <2>1. Paired(h)
    BY <1>3 DEF SentOk
  <2>2. DOMAIN h = 1..Len(h) /\ Len(h) \in Nat
    <3>1. turn.read \in Seq(TurnMessages) /\ settings.keep \in Nat /\ turn.iteration \in Nat
      BY <1>1, SettingsAre DEF TurnInv, HistoryOk, Preparing
    <3>2. turn.history \in Seq(TurnMessages) /\ Users(turn.history) # {}
      <4>1. CASE turn.history = turn.read
        BY <1>1, <4>1 DEF TurnInv, HistoryOk, Preparing
      <4>2. CASE turn.history # turn.read
        <5>1. Droppable(turn.read) /\ turn.history = Compacted(turn.read)
          BY <1>1, <4>2 DEF TurnInv, HistoryOk
        <5> QED BY <3>1, <5>1, CompactedIs, CompactedKeeps
      <4> QED BY <4>1, <4>2
    <3>3. CompactHistory(turn.history) = turn.history
      BY <3>2, SettingsAre, CompactHistoryKeeps
    <3> QED BY <3>2, <3>3, LenProperties DEF h
  <2>3. i > 1 /\ h[i - 1].role = "call" /\ i \in Nat
    BY <2>1, <2>2 DEF Paired
  <2>4. i - 1 \in 1..(i - 1) /\ ((i - 1) + 1)..(i - 1) = {}
    BY <2>3
  <2> QED BY <2>3, <2>4
<1> QED BY <1>1, <1>5, <1>6, <1>7, <1>8, <1>9 DEF TurnInv

LEMMA AnsweredKeeps ==
  ASSUME TurnInv, Answered
  PROVE  TurnInv'
<1>1. turn.pc = "sent" /\ UNCHANGED <<settings, prompts, interleaved>>
  BY DEF Answered, At
<1>2. PICK role \in {"assistant", "call"} :
        /\ Store(Message(role))
        /\ turn' = [turn EXCEPT !.pc = IF role = "call" THEN "tool" ELSE "idle",
                                !.request = <<>>, !.read = <<>>, !.history = <<>>,
                                !.old = {}]
  BY DEF Answered
<1>3. Message(role) \in TurnMessages /\ Message(role).role = role
  BY MessageIs DEF TurnInv, StoredOk, Roles
<1>4. /\ stored' \in Seq(TurnMessages) /\ stored' # <<>> /\ Last(stored').role = role
      /\ Users(stored) # {} => Users(stored)' # {}
      /\ Paired(stored) => Paired(stored)'
  BY <1>2, <1>3, StoreIs DEF TurnInv, StoredOk
<1>5. /\ DOMAIN turn' = TurnFields /\ turn'.pc = IF role = "call" THEN "tool" ELSE "idle"
      /\ turn'.iteration = turn.iteration
  BY <1>2 DEF TurnInv, TurnFields
<1>6. StoredOk'
  BY <1>1, <1>4, <1>5 DEF TurnInv, StoredOk
<1> QED BY <1>1, <1>5, <1>6, TurnGoes DEF TurnInv

LEMMA ToolAnswersKeeps ==
  ASSUME TurnInv, ToolAnswers
  PROVE  TurnInv'
<1>1. /\ turn.pc = "tool" /\ UNCHANGED <<settings, prompts, interleaved>>
      /\ Store(Message("tool")) /\ turn' = [turn EXCEPT !.pc = "read"]
  BY DEF ToolAnswers, At
<1>2. Message("tool") \in TurnMessages /\ Message("tool").role = "tool"
  BY MessageIs DEF TurnInv, StoredOk, Roles
<1>3. /\ stored' \in Seq(TurnMessages)
      /\ Users(stored) # {} => Users(stored)' # {}
      /\ Paired(stored) /\ stored # <<>> /\ Last(stored).role = "call" => Paired(stored)'
  BY <1>1, <1>2, StoreIs DEF TurnInv, StoredOk
<1>4. DOMAIN turn' = TurnFields /\ turn'.pc = "read" /\ turn'.iteration = turn.iteration
  BY <1>1 DEF TurnInv, TurnFields
<1>5. StoredOk'
  BY <1>1, <1>3, <1>4 DEF TurnInv, StoredOk
<1> QED BY <1>1, <1>4, <1>5, TurnGoes DEF TurnInv

LEMMA TurnInvKept ==
  ASSUME TurnInv, [TurnNext \/ TrackerNext]_contextVars
  PROVE  TurnInv'
<1>1. CASE UNCHANGED turnVars
  BY <1>1, TurnStays DEF turnVars, TurnInv, StoredOk
<1>2. ASSUME TrackerNext PROVE UNCHANGED turnVars
  BY <1>2 DEF TrackerNext, RecordUsage, ResetTracker, MaybeAutoCompact, CompactorEnds
<1>3. UNCHANGED contextVars => UNCHANGED turnVars
  BY DEF contextVars
<1> QED BY <1>1, <1>2, <1>3, QuestionKeeps, ReadHistoryKeeps, CompactionHookKeeps,
           AutoCompactKeeps, SummarisedKeeps, PersistSummaryKeeps, SendRequestKeeps,
           AnsweredKeeps, ToolAnswersKeeps DEF TurnNext

-----------------------------------------------------------------------------
(* The counter that decides when a host compacts *)

\* Unless it was reset meanwhile, the counter knows of the one compaction that is under way.
TrackerInv ==
    /\ DOMAIN tracker = {"used", "compacting", "failures"}
    /\ compactor \in [Compactors -> {"idle", "compacting"}]
    /\ reset \in BOOLEAN
    /\ ~reset => \A c \in Compactors : compactor[c] = "compacting" =>
                   tracker.compacting /\ \A d \in Compactors : compactor[d] = "compacting" => d = c

LEMMA TrackerInitially ==
  ASSUME ContextInit
  PROVE  TrackerInv
  BY DEF ContextInit, TrackerInv

LEMMA TrackerInvKept ==
  ASSUME TrackerInv, [TurnNext \/ TrackerNext]_contextVars
  PROVE  TrackerInv'
<1>1. CASE UNCHANGED trackerVars
  BY <1>1 DEF trackerVars, TrackerInv
<1>2. TurnNext => UNCHANGED trackerVars
  BY DEF TurnNext, UserWrites, ReadHistory, CompactionHook, AutoCompact, Summarised, PersistSummary,
         SendRequest, Answered, ToolAnswers, UnchangedTracker
<1>3. UNCHANGED contextVars => UNCHANGED trackerVars
  BY DEF contextVars
<1>4. CASE RecordUsage
  BY <1>4 DEF RecordUsage, TrackerInv
<1>5. CASE ResetTracker
  BY <1>5 DEF ResetTracker, TrackerInv
<1>6. ASSUME NEW c \in Compactors, MaybeAutoCompact(c) PROVE TrackerInv'
  BY <1>6 DEF MaybeAutoCompact, ShouldTrigger, TrackerInv
<1>7. ASSUME NEW c \in Compactors, CompactorEnds(c) PROVE TrackerInv'
  BY <1>7 DEF CompactorEnds, TrackerInv
<1> QED BY <1>1, <1>2, <1>3, <1>4, <1>5, <1>6, <1>7 DEF TrackerNext

LEMMA ContextHolds == TurnInv /\ TrackerInv => ContextIsSound
<1> SUFFICES ASSUME TurnInv, TrackerInv PROVE OneCompaction
  BY DEF TurnInv, ContextIsSound
<1> SUFFICES ASSUME ~reset PROVE Cardinality({c \in Compactors : compactor[c] = "compacting"}) <= 1
  BY DEF OneCompaction
<1> DEFINE S == {c \in Compactors : compactor[c] = "compacting"}
<1>1. CASE S = {}
  <2>1. Cardinality({}) = 0
    BY FS_EmptySet
  <2> QED BY <1>1, <2>1
<1>2. CASE S # {}
  <2>1. PICK c \in S : TRUE
    BY <1>2
  <2>2. S = {c}
    BY <2>1 DEF TrackerInv
  <2>3. Cardinality({c}) = 1
    BY FS_Singleton
  <2> QED BY <2>2, <2>3
<1> QED BY <1>1, <1>2
-----------------------------------------------------------------------------
(* The parts together *)

(***************************************************************************)
(* Whatever plugins, hosts and executions do at once: no hook is skipped,  *)
(* a plugin is active once, and the host's plugins keep their place          *)
(* (HookRegistry, loadPluginModule, registerBuiltinToolPlugins).           *)
(***************************************************************************)
THEOREM PluginsStaySound == FairSpec => []PluginsAreSound
<1>1. Init => PluginInv /\ ToolInv
  BY PluginInitially, LoopInitially DEF Init
<1>2. PluginInv /\ ToolInv /\ [Next]_agentVars => (PluginInv /\ ToolInv)'
  BY PluginSteps, ToolSteps, PluginInvKept, ToolInvKept
<1>3. PluginInv /\ ToolInv => PluginsAreSound
  BY PluginsHold DEF ToolInv, PluginsAreSound
<1> QED BY <1>1, <1>2, <1>3, PTL DEF FairSpec

(***************************************************************************)
(* However many calls a batch has and whatever they and the hooks do, each *)
(* is reported once with its own result, up to a hook that throws,         *)
(* provided a call's timer is shorter than the batch's; a summary of a     *)
(* remote agent is what it wrote; what a call started is stopped, closed   *)
(* or remembered (executeAllMatchingToolCalls, the remote agent's summary, *)
(* the tools of the node).                                                 *)
(***************************************************************************)
THEOREM ToolsAlwaysReport == ShortTimers /\ FairSpec => []ToolsReport
<1> SUFFICES ASSUME ShortTimers PROVE FairSpec => []ToolsReport
  OBVIOUS
<1> DEFINE I == BatchInv /\ RemoteInv /\ NodeInv
<1>1. Init => I
  BY BatchInitially, RemoteInitially, NodeInitially DEF Init
<1>2. I /\ [Next]_agentVars => I'
  BY BatchSteps, RemoteSteps, NodeToolSteps, BatchInvKept, RemoteInvKept, NodeInvKept
<1>3. I => ToolsReport
  BY BatchHolds, NodeToolsHold DEF RemoteInv, ToolsReport
<1> QED BY <1>1, <1>2, <1>3, PTL DEF FairSpec

(***************************************************************************)
(* Whatever children do and whenever the host cancels, an approval is that *)
(* of every reviewer of a whole batch, and no child agent runs behind its  *)
(* script; a foreground task is waited for; a calling device is told what  *)
(* happened; a device that left is served for less than a grant lives; a   *)
(* message runs the definition and the scripts it may (agent-agent loop,   *)
(* task tool, remote agents, CloudDeviceAuthorizer, loop runtime).         *)
(***************************************************************************)
THEOREM DelegationStaysSound == FairSpec => []DelegationIsSound
<1> DEFINE I == /\ ScriptInv /\ TaskInv /\ CallsInv /\ GrantsInv
                /\ MessageInv /\ ScriptsArePermitted
<1>1. Init => I
  BY ScriptInitially, TaskInitially, CallsInitially, GrantsInitially, LoopInitially
     DEF Init, CloudInit
<1>2. I /\ [Next]_agentVars => I'
  BY ScriptSteps, TaskSteps, RemoteCallSteps, CloudSteps, ToolSteps,
     ScriptInvKept, TaskInvKept, CallsInvKept, GrantsInvKept, MessageInvKept, ScriptsKept
<1>3. I => DelegationIsSound
  BY ScriptHolds, TasksHold, CallsHold, GrantsHold, MessagesHold DEF DelegationIsSound
<1> QED BY <1>1, <1>2, <1>3, PTL DEF FairSpec

(***************************************************************************)
(* Whatever is cached, synchronised, saved or backed up meanwhile: a read  *)
(* of a wiki follows its last edit and the roster is that of the wikis; a  *)
(* checkpoint file is a whole record of its chat unless two saves met in   *)
(* it; a backup holds what was here when it was made and a restore loses   *)
(* nothing it could read; the list of devices keeps its pins, the cache on *)
(* disk is the list, and a node is registered as often as it says          *)
(* (WikiManager, CheckpointStore, SolidPodAdapter, CloudDeviceListSync,    *)
(* MemeLoopDaemon).                                                        *)
(***************************************************************************)
THEOREM KnowledgeStaysCurrent == FairSpec => []KnowledgeIsCurrent
<1> DEFINE I == WikiInv /\ CheckpointInv /\ PodInv /\ SyncInv /\ DaemonInv
<1>1. Init => I
  BY WikiInitially, CheckpointsInitially, PodInitially, SyncInitially, DaemonInitially
     DEF Init, CloudInit
<1>2. I /\ [Next]_agentVars => I'
  BY WikiSteps, CheckpointSteps, PodSteps, CloudSteps,
     WikiInvKept, CheckpointInvKept, PodInvKept, SyncInvKept, DaemonInvKept
<1>3. I => KnowledgeIsCurrent
  BY WikisHold, CheckpointsHold, PodHolds, SyncHolds DEF DaemonInv, KnowledgeIsCurrent
<1> QED BY <1>1, <1>2, <1>3, PTL DEF FairSpec

(***************************************************************************)
(* Whatever is configured, stored meanwhile or fails: a request holds the  *)
(* last message of the user, every message it read or a summary of it, and *)
(* the configured prompts; compaction by turns parts no result from its    *)
(* call; and one compaction is under way at a time unless the counter was  *)
(* reset during one (prepareIterationHistory, buildLlmMessages,            *)
(* maybeAutoCompact).                                                      *)
(***************************************************************************)
THEOREM ContextStaysSound == FairSpec => []ContextIsSound
<1> DEFINE I == TurnInv /\ TrackerInv
<1>1. Init => I
  BY TurnInitially, TrackerInitially DEF Init
<1>2. I /\ [Next]_agentVars => I'
  BY ContextSteps, TurnInvKept, TrackerInvKept
<1>3. I => ContextIsSound
  BY ContextHolds
<1> QED BY <1>1, <1>2, <1>3, PTL DEF FairSpec
=============================================================================
