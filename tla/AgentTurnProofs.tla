-------------------------- MODULE AgentTurnProofs --------------------------
EXTENDS AgentTurn, FiniteSetTheorems, WellFoundedInduction, TLAPS

LEMMA LeastOf ==
  ASSUME NEW S, S \subseteq Nat, S # {}
  PROVE  \E x \in S : \A y \in S : x <= y
<1>1. PICK x \in S : \A y \in S : ~(<<y, x>> \in OpToRel(<, Nat))
  BY NatLessThanWellFounded, WFMin
<1>2. \A y, z \in Nat : y < z => <<y, z>> \in OpToRel(<, Nat)
  BY Zenon DEF OpToRel
<1>3. \A y \in S : ~(y < x)
  BY <1>1, <1>2, Zenon
<1>4. \A y \in S : x <= y
  BY <1>3
<1>5. QED
  BY <1>4

LEMMA LeastIn ==
  ASSUME NEW S, S \subseteq Nat, S # {}
  PROVE  Least(S) \in S
BY LeastOf DEF Least

-----------------------------------------------------------------------------
(* The part of a turn's state that decides what runs.                      *)

Fields == DOMAIN IdleTurn

LEMMA FieldNames ==
  Fields = {"pc", "iter", "reason", "started", "ms", "lam", "calls", "par", "todo", "ok",
            "batch", "waits", "ended", "recent", "cause", "stopped", "stops", "told", "late",
            "ran", "approved", "refused", "written"}
BY DEF Fields, IdleTurn

\* turn is a function on Turn whose values have the fields of a turn's state.
Shape ==
  /\ turn = [t \in Turn |-> turn[t]]
  /\ \A t \in Turn : DOMAIN turn[t] = Fields

Early == {"idle", "queued", "user", "hooks", "iterate"}
Asking == {"history", "llm", "assistant", "plugins"}
Gating == {"gate", "askPermission", "hook", "askHook", "deny"}
Running == {"run", "result", "await", "listening", "awaited"}
Ending == {"stopping", "done"}

\* The settings let the call at position p through as it was written.
Passed(s, p) == LetThrough(s.iter, p, s.written[p], s.approved)

\* The call at position p may run: the settings let it through, and the hooks.
Permitted(s, p) ==
  Passed(s, p) /\ HookLetsRun(s.iter, p, s.written[p], s.calls[p], s.approved)

Unrefused(s, p) == <<s.iter, p>> \notin s.refused

\* Positions to gate and to run are those of the response, and none is left over from the last.
CallsInv(s) ==
  /\ s.pc \in Pcs /\ s.iter \in Nat
  /\ s.calls \in Seq(Call)
  /\ s.written \in Seq(Call) /\ DOMAIN s.written = DOMAIN s.calls
  /\ s.pc \in {"assistant", "plugins"} => s.calls = s.written
  /\ s.todo \subseteq DOMAIN s.calls /\ s.ok \subseteq DOMAIN s.calls
  /\ s.pc \in Early \cup Asking => s.todo = {} /\ s.ok = {}
  /\ s.pc \in Running => s.ok = {}
  /\ s.pc \in Gating \cup {"run"} => s.todo # {}
  /\ s.pc \in Gating => s.ok \cap s.todo = {}

\* What ran was permitted; what is admitted is; what waits at the gate was not refused, but for
\* the call whose denial is being stored, and stands as it was written until a hook answered; the
\* settings let the call before the hooks through, and a hook left the call it asks about.
GateInv(s) ==
  /\ \A p \in s.ok : s.pc \in Gating => Permitted(s, p) /\ Unrefused(s, p)
  /\ s.pc \in Running => \A p \in s.todo : Permitted(s, p) /\ Unrefused(s, p)
  /\ s.pc \in Gating => \A p \in s.todo : (s.pc = "deny" /\ p = Least(s.todo)) \/ Unrefused(s, p)
  /\ s.pc \in Gating => \A p \in s.todo :
       (s.pc \in {"askHook", "deny"} /\ p = Least(s.todo)) \/ s.calls[p] = s.written[p]
  /\ s.pc \in {"askPermission", "hook", "askHook"} =>
       ~Forbids(ToolOf[s.written[Least(s.todo)]])
  /\ s.pc \in {"hook", "askHook"} => Passed(s, Least(s.todo))
  /\ s.pc = "askHook" => \E a \in HookAnswers[s.written[Least(s.todo)]] :
       a.call = s.calls[Least(s.todo)] /\ a.act \in {"allow", "ask"}

\* Runs and refusals are of this iteration or of earlier ones.
RanInv(s) ==
  /\ \A x \in s.refused : x[1] \in Nat /\ x[1] <= s.iter /\ (s.pc \in Asking => x[1] < s.iter)
  /\ \A r \in s.ran :
       /\ r.iter \in Nat /\ r.iter <= s.iter
       /\ s.pc \in Asking \cup Gating => r.iter < s.iter
       /\ <<r.iter, r.pos>> \notin s.refused
       /\ LetThrough(r.iter, r.pos, r.written, s.approved)
       /\ HookLetsRun(r.iter, r.pos, r.written, r.call, s.approved)

TurnInv(s) == CallsInv(s) /\ GateInv(s) /\ RanInv(s)

\* u has the work of s.
SameWork(s, u) ==
  /\ u.iter = s.iter /\ u.calls = s.calls /\ u.written = s.written
  /\ u.todo = s.todo /\ u.ok = s.ok
  /\ u.ran = s.ran /\ u.approved = s.approved /\ u.refused = s.refused

LEMMA WorkGoesOn ==
  ASSUME NEW s, NEW u, TurnInv(s), SameWork(s, u),
         \/ u.pc \in Ending \/ u.pc = s.pc
         \/ s.pc \in Early /\ u.pc \in Early
         \/ s.pc \in Asking /\ u.pc \in {"history", "llm", "iterate"}
         \/ s.pc \in {"assistant", "plugins"} /\ u.pc = "plugins"
         \/ s.pc \in Running \ {"run"} /\ u.pc \in Running \ {"run"}
  PROVE  TurnInv(u)
<1> USE DEF SameWork, Early, Asking, Gating, Running, Ending, Pcs
<1>1. CallsInv(u)
  BY DEF TurnInv, CallsInv
<1>2. GateInv(u)
  BY DEF TurnInv, CallsInv, GateInv, Passed, Permitted, Unrefused
<1>3. RanInv(u)
  BY DEF TurnInv, RanInv
<1>4. QED
  BY <1>1, <1>2, <1>3 DEF TurnInv

LEMMA LeastTodo ==
  ASSUME NEW s, CallsInv(s), s.todo # {}
  PROVE  Least(s.todo) \in s.todo /\ Least(s.todo) \in Nat /\ s.calls[Least(s.todo)] \in Call
<1>1. s.todo \subseteq Nat
  BY DEF CallsInv
<1>2. QED
  BY <1>1, LeastIn DEF CallsInv

\* An approval takes nothing away.
LEMMA ApprovedMore ==
  ASSUME NEW s, NEW u, TurnInv(s), u.pc = s.pc, s.approved \subseteq u.approved,
         u.iter = s.iter, u.calls = s.calls, u.written = s.written, u.todo = s.todo, u.ok = s.ok,
         u.ran = s.ran, u.refused = s.refused
  PROVE  TurnInv(u)
<1>1. CallsInv(u)
  BY DEF TurnInv, CallsInv
<1>2. ASSUME NEW i, NEW p, NEW c, LetThrough(i, p, c, s.approved)
      PROVE  LetThrough(i, p, c, u.approved)
  BY <1>2 DEF LetThrough
<1>3. ASSUME NEW i, NEW p, NEW c, NEW d, HookLetsRun(i, p, c, d, s.approved)
      PROVE  HookLetsRun(i, p, c, d, u.approved)
  BY <1>3 DEF HookLetsRun
<1>4. \A p : Passed(s, p) => Passed(u, p)
  BY <1>2 DEF Passed
<1>5. \A p : Permitted(s, p) => Permitted(u, p)
  BY <1>3, <1>4 DEF Permitted
<1>6. GateInv(u)
  BY <1>4, <1>5 DEF TurnInv, GateInv, Unrefused
<1>7. RanInv(u)
  <2>1. \A r \in u.ran : /\ LetThrough(r.iter, r.pos, r.written, s.approved)
                         /\ HookLetsRun(r.iter, r.pos, r.written, r.call, s.approved)
    BY DEF TurnInv, RanInv
  <2>2. \A r \in u.ran : /\ LetThrough(r.iter, r.pos, r.written, u.approved)
                         /\ HookLetsRun(r.iter, r.pos, r.written, r.call, u.approved)
    BY <1>2, <1>3, <2>1, Zenon
  <2>3. QED
    BY <2>2 DEF TurnInv, RanInv
<1>8. QED
  BY <1>1, <1>6, <1>7 DEF TurnInv

\* A hook that does not deny leaves a call to ask about.
LEMMA CallRewritten ==
  ASSUME NEW s, NEW u, TurnInv(s), s.pc = "hook", u.pc = "askHook",
         NEW a \in HookAnswers[s.calls[Least(s.todo)]], a.call \in Call, a.act \in {"allow", "ask"},
         u.calls = [s.calls EXCEPT ![Least(s.todo)] = a.call],
         u.iter = s.iter, u.written = s.written, u.todo = s.todo, u.ok = s.ok,
         u.ran = s.ran, u.approved = s.approved, u.refused = s.refused
  PROVE  TurnInv(u)
<1> DEFINE cur == Least(s.todo)
<1>1. /\ CallsInv(s) /\ s.todo # {} /\ cur \in s.todo /\ s.ok \cap s.todo = {}
      /\ s.calls[cur] = s.written[cur] /\ cur \in DOMAIN s.calls
  BY LeastTodo DEF TurnInv, CallsInv, GateInv, Gating
<1>2. /\ u.calls \in Seq(Call) /\ DOMAIN u.calls = DOMAIN s.calls /\ u.calls[cur] = a.call
      /\ \A p \in DOMAIN s.calls \ {cur} : u.calls[p] = s.calls[p]
  BY <1>1 DEF CallsInv
<1>3. CallsInv(u)
  BY <1>1, <1>2 DEF CallsInv, Pcs, Early, Asking, Gating, Running
<1>4. GateInv(u)
  <2>1. \A p \in s.ok : p # cur /\ p \in DOMAIN s.calls
    BY <1>1 DEF CallsInv
  <2>2. \A p \in s.ok : Permitted(u, p) /\ Unrefused(u, p)
    BY <1>2, <2>1 DEF TurnInv, GateInv, Passed, Permitted, Unrefused, Gating
  <2>3. \A p \in s.todo : Unrefused(u, p) /\ (p # cur => u.calls[p] = u.written[p])
    BY <1>1, <1>2 DEF TurnInv, CallsInv, GateInv, Unrefused, Gating
  <2>4. Passed(u, cur) /\ ~Forbids(ToolOf[u.written[cur]])
    BY DEF TurnInv, GateInv, Passed
  <2>5. \E x \in HookAnswers[u.written[cur]] : x.call = u.calls[cur] /\ x.act \in {"allow", "ask"}
    BY <1>1, <1>2
  <2>6. QED
    BY <2>2, <2>3, <2>4, <2>5 DEF GateInv, Running
<1>5. RanInv(u)
  BY DEF TurnInv, RanInv, Gating, Asking
<1>6. QED
  BY <1>3, <1>4, <1>5 DEF TurnInv

\* u has the calls of s, but for the current one.
SameCalls(s, u) ==
  /\ u.calls \in Seq(Call) /\ DOMAIN u.calls = DOMAIN s.calls
  /\ \A p \in DOMAIN s.calls \ {Least(s.todo)} : u.calls[p] = s.calls[p]

\* u follows s when the current call is denied.
DeniedNow(s, u) ==
  /\ u.pc = "deny" /\ u.refused = s.refused \cup {<<s.iter, Least(s.todo)>>}
  /\ u.iter = s.iter /\ u.written = s.written /\ u.todo = s.todo /\ u.ok = s.ok
  /\ u.ran = s.ran /\ u.approved = s.approved

\* The denied call may be one a hook put in the place of another.
LEMMA Refused ==
  ASSUME NEW s, TurnInv(s), s.pc \in Gating \ {"deny"}, NEW u, SameCalls(s, u), DeniedNow(s, u)
  PROVE  TurnInv(u)
<1> USE DEF SameCalls, DeniedNow
<1>2. CallsInv(s) /\ s.iter \in Nat /\ s.todo # {} /\ Least(s.todo) \in s.todo
  BY LeastTodo DEF TurnInv, CallsInv, Gating
<1>3. CallsInv(u)
  BY <1>2 DEF CallsInv, Pcs, Gating, Early, Asking, Running
<1>4. GateInv(u)
  <2>1. \A p \in s.ok : p # Least(s.todo) /\ p \in DOMAIN s.calls
    BY <1>2 DEF CallsInv, Gating
  <2>2. \A p \in s.ok : Permitted(u, p) /\ Unrefused(u, p)
    BY <1>2, <2>1 DEF TurnInv, GateInv, Passed, Permitted, Unrefused, Gating
  <2>3. \A p \in s.todo \ {Least(s.todo)} : Unrefused(u, p) /\ u.calls[p] = u.written[p]
    BY <1>2 DEF TurnInv, CallsInv, GateInv, Unrefused, Gating
  <2>4. QED
    BY <2>2, <2>3 DEF GateInv, Gating, Running
<1>5. RanInv(u)
  BY <1>2 DEF TurnInv, RanInv, Gating, Asking
<1>6. QED
  BY <1>3, <1>4, <1>5 DEF TurnInv

\* The gate goes on to the next call, lets the admitted calls run, or asks the LLM again.
LEMMA GateGoesOn ==
  ASSUME NEW s, TurnInv(s), s.pc \in Gating, NEW v, DOMAIN v = Fields, SameWork(s, v),
         NEW ok, ok \subseteq s.ok \cup {Least(s.todo)},
         \A p \in ok : Permitted(s, p) /\ Unrefused(s, p)
  PROVE  TurnInv(GateNext(v, ok))
<1> DEFINE rest == s.todo \ {Least(s.todo)}
           u == GateNext(v, ok)
<1>1. CallsInv(s) /\ s.iter \in Nat /\ s.todo # {} /\ Least(s.todo) \in s.todo
  BY LeastTodo DEF TurnInv, CallsInv, Gating
<1>2. /\ u.iter = s.iter /\ u.calls = s.calls /\ u.written = s.written
      /\ u.ran = s.ran /\ u.approved = s.approved /\ u.refused = s.refused
  BY FieldNames DEF GateNext, SameWork
<1>3. ok \subseteq DOMAIN s.calls /\ ok \cap rest = {}
  BY <1>1 DEF CallsInv
<1>4. CASE rest # {}
  <2>1. u.pc = "gate" /\ u.todo = rest /\ u.ok = ok
    BY <1>4, FieldNames DEF GateNext, SameWork
  <2> HIDE DEF u
  <2>2. CallsInv(u)
    BY <1>1, <1>2, <1>3, <1>4, <2>1 DEF CallsInv, Pcs, Gating, Early, Asking, Running
  <2>3. GateInv(u)
    BY <1>1, <1>2, <2>1 DEF TurnInv, GateInv, Passed, Permitted, Unrefused, Gating, Running
  <2>4. RanInv(u)
    BY <1>1, <1>2, <2>1 DEF TurnInv, RanInv, Gating, Asking
  <2>5. QED
    BY <2>2, <2>3, <2>4 DEF TurnInv, u
<1>5. CASE rest = {} /\ ok = {}
  <2>1. u.pc = "iterate" /\ u.todo = {} /\ u.ok = {}
    BY <1>5, FieldNames DEF GateNext, SameWork
  <2> HIDE DEF u
  <2>2. CallsInv(u)
    BY <1>1, <1>2, <2>1 DEF CallsInv, Pcs, Gating, Early, Asking, Running
  <2>3. GateInv(u)
    BY <2>1 DEF GateInv, Gating, Running
  <2>4. RanInv(u)
    BY <1>1, <1>2, <2>1 DEF TurnInv, RanInv, Gating, Asking
  <2>5. QED
    BY <2>2, <2>3, <2>4 DEF TurnInv, u
<1>6. CASE rest = {} /\ ok # {}
  <2>1. u.pc = "run" /\ u.todo = ok /\ u.ok = {}
    BY <1>6, FieldNames DEF GateNext, SameWork
  <2> HIDE DEF u
  <2>2. CallsInv(u)
    BY <1>1, <1>2, <1>3, <1>6, <2>1 DEF CallsInv, Pcs, Gating, Early, Asking, Running
  <2>3. GateInv(u)
    BY <1>1, <1>2, <2>1 DEF TurnInv, GateInv, Passed, Permitted, Unrefused, Gating, Running
  <2>4. RanInv(u)
    BY <1>1, <1>2, <2>1 DEF TurnInv, RanInv, Gating, Asking
  <2>5. QED
    BY <2>2, <2>3, <2>4 DEF TurnInv, u
<1>7. QED
  BY <1>4, <1>5, <1>6

\* What follows the storing of a result.
LEMMA RunGoesOn ==
  ASSUME NEW s, DOMAIN s = Fields, TurnInv(s), s.pc \in Running
  PROVE  TurnInv(RunNext(s)) /\ DOMAIN RunNext(s) = Fields
<1> DEFINE u == RunNext(s)
<1>1. /\ u.iter = s.iter /\ u.calls = s.calls /\ u.written = s.written
      /\ u.todo = s.todo /\ u.ok = s.ok
      /\ u.ran = s.ran /\ u.approved = s.approved /\ u.refused = s.refused
      /\ u.pc = (IF s.todo = {} THEN "iterate" ELSE "run") /\ DOMAIN u = Fields
  BY FieldNames DEF RunNext
<1> HIDE DEF u
<1>2. CallsInv(u)
  BY <1>1 DEF TurnInv, CallsInv, Pcs, Gating, Early, Asking, Running
<1>3. GateInv(u)
  BY <1>1 DEF TurnInv, CallsInv, GateInv, Passed, Permitted, Unrefused, Gating, Running
<1>4. RanInv(u)
  BY <1>1 DEF TurnInv, RanInv, Gating, Asking
<1>5. QED
  BY <1>1, <1>2, <1>3, <1>4 DEF TurnInv, u

\* What follows an assistant message.
LEMMA DispatchGoesOn ==
  ASSUME NEW s, DOMAIN s = Fields, TurnInv(s), s.pc \in {"assistant", "plugins"}, NEW handled
  PROVE  TurnInv(Dispatch(s, handled)) /\ DOMAIN Dispatch(s, handled) = Fields
<1> DEFINE u == Dispatch(s, handled)
           pending == DOMAIN s.calls \ handled
<1>1. /\ u.iter = s.iter /\ u.calls = s.calls /\ u.written = s.written /\ u.ok = s.ok
      /\ u.ran = s.ran /\ u.approved = s.approved /\ u.refused = s.refused
      /\ DOMAIN u = Fields
      /\ \/ u.todo = s.todo /\ u.pc \in {"stopping", "iterate"}
         \/ u.todo = pending /\ pending # {} /\ u.pc = "gate"
  BY FieldNames DEF Dispatch, Stop, Positions
<1> HIDE DEF u
<1>2. CASE u.todo = s.todo /\ u.pc \in {"stopping", "iterate"}
  BY <1>1, <1>2, WorkGoesOn DEF SameWork, Ending, Asking, u
<1>3. CASE u.todo = pending /\ pending # {} /\ u.pc = "gate"
  <2>1. s.iter \in Nat /\ s.ok = {}
    BY DEF TurnInv, CallsInv, Asking
  <2>2. CallsInv(u)
    BY <1>1, <1>3, <2>1 DEF TurnInv, CallsInv, Pcs, Gating, Early, Asking, Running
  <2>3. \A x \in s.refused : x[1] < s.iter
    BY DEF TurnInv, RanInv, Asking
  <2>4. \A p : <<s.iter, p>> \notin s.refused
    BY <2>1, <2>3
  <2>5. GateInv(u)
    BY <1>1, <1>3, <2>1, <2>4 DEF TurnInv, CallsInv, GateInv, Unrefused, Gating, Running
  <2>6. RanInv(u)
    BY <1>1, <1>3 DEF TurnInv, RanInv, Gating, Asking
  <2>7. QED
    BY <1>1, <2>2, <2>5, <2>6 DEF TurnInv, u
<1>4. QED
  BY <1>1, <1>2, <1>3

-----------------------------------------------------------------------------
(* What decides when the stop hook runs and how often the LLM is asked.    *)

Inside == {"assistant", "plugins"} \cup Gating \cup Running

\* u follows s inside an iteration and leaves alone what start, stop and cancellation left.
Kept(s, u) ==
  /\ DOMAIN u = Fields
  /\ u.pc \in Inside \cup {"iterate"}
  /\ u.started = s.started /\ u.stopped = s.stopped /\ u.stops = s.stops
  /\ u.told = s.told /\ u.late = s.late

LEMMA GateNextKeeps ==
  ASSUME NEW s, DOMAIN s = Fields, NEW ok
  PROVE  Kept(s, GateNext(s, ok))
BY FieldNames DEF Kept, GateNext, Inside, Gating, Running

LEMMA RefuseKeeps ==
  ASSUME NEW t, NEW s, DOMAIN s = Fields
  PROVE  Kept(s, Refuse(t, s))
BY FieldNames DEF Kept, Refuse, Inside, Gating

LEMMA KeptKept ==
  ASSUME NEW s, NEW u, NEW v, Kept(u, v),
         u.started = s.started, u.stopped = s.stopped, u.stops = s.stops,
         u.told = s.told, u.late = s.late
  PROVE  Kept(s, v)
BY DEF Kept

-----------------------------------------------------------------------------
(* The permissions.                                                        *)

LEMMA GreatestOf ==
  ASSUME NEW n \in Nat, NEW S, S \subseteq 1..n, S # {}
  PROVE  \E x \in S : \A y \in S : y <= x
<1> DEFINE T == {n - i : i \in S}
<1>1. T \subseteq Nat /\ T # {}
  <2>1. \A i \in S : n - i \in Nat
    OBVIOUS
  <2>2. PICK i \in S : TRUE
    OBVIOUS
  <2>3. QED
    BY <2>1, <2>2
<1>2. PICK x \in T : \A y \in T : x <= y
  BY <1>1, LeastOf
<1>3. PICK i \in S : x = n - i
  BY <1>2
<1>4. ASSUME NEW j \in S PROVE j <= i
  <2>1. n - i <= n - j
    BY <1>2, <1>3
  <2>2. i \in 1..n /\ j \in 1..n
    <3> HIDE DEF T
    <3>1. QED
      OBVIOUS
  <2> HIDE DEF T
  <2>3. QED
    BY <2>1, <2>2
<1>5. QED
  BY <1>4

LEMMA RulesAreRules == Rules \in Seq(Rule)
<1>1. ASSUME NEW action \in Actions \cup {NoAction} PROVE DefaultRule(action) \in Seq(Rule)
  <2>1. CASE action = NoAction
    BY <2>1 DEF DefaultRule
  <2>2. CASE action # NoAction
    <3>1. Everything \in Wildcard /\ action \in Actions
      BY <2>2, TurnAssumption
    <3>2. [pattern |-> Everything, action |-> action] \in Rule
      BY <3>1 DEF Rule
    <3>3. QED
      BY <2>2, <3>2 DEF DefaultRule
  <2>3. QED
    BY <2>1, <2>2
<1>2. Layers \in Seq(Rule)
  BY <1>1, TurnAssumption DEF Layers
<1>3. DefaultRule("allow") \in Seq(Rule)
  BY <1>1 DEF Actions
<1>4. QED
  BY <1>2, <1>3 DEF Rules

\* The action a pattern has after the merge is that of its only rule in force.
LEMMA MergedIsInForce ==
  ASSUME NEW p \in Patterns
  PROVE  /\ Merged[p] \in Actions
         /\ \E r \in InForce : r.pattern = p
         /\ \A r \in InForce : r.pattern = p => r.action = Merged[p]
<1> DEFINE last == CHOOSE i \in Positioned(p) : \A j \in Positioned(p) : j <= i
<1>1. /\ Len(Rules) \in Nat /\ DOMAIN Rules = 1..Len(Rules)
      /\ \A i \in DOMAIN Rules : Rules[i] \in Rule
  BY RulesAreRules
<1>2. Positioned(p) \subseteq 1..Len(Rules) /\ Positioned(p) # {}
  BY <1>1 DEF Positioned, Patterns
<1>3. \E i \in Positioned(p) : \A j \in Positioned(p) : j <= i
  BY <1>1, <1>2, GreatestOf
<1>4. last \in Positioned(p) /\ \A j \in Positioned(p) : j <= last
  BY <1>3
<1>5. Merged[p] = Rules[last].action
  BY DEF Merged
<1> HIDE DEF last
<1>6. Merged[p] \in Actions /\ Rules[last].pattern = p
  BY <1>1, <1>4, <1>5 DEF Positioned, Rule
<1>7. Rules[last] \in InForce
  <2>1. ASSUME NEW k \in DOMAIN Rules, k > last PROVE Rules[k].pattern # Rules[last].pattern
    <3>1. k \notin Positioned(p)
      BY <1>1, <1>2, <1>4, <2>1
    <3>2. QED
      BY <1>6, <3>1 DEF Positioned
  <2>2. QED
    BY <1>4, <2>1 DEF InForce, Positioned
<1>8. ASSUME NEW r \in InForce, r.pattern = p PROVE r.action = Merged[p]
  <2>1. PICK j \in DOMAIN Rules :
          r = Rules[j] /\ \A k \in DOMAIN Rules : k > j => Rules[k].pattern # Rules[j].pattern
    BY DEF InForce
  <2>2. j \in Positioned(p) /\ last \in DOMAIN Rules
    BY <1>4, <1>8, <2>1 DEF Positioned
  <2>3. j = last
    BY <1>1, <1>4, <1>6, <1>8, <2>1, <2>2
  <2>4. QED
    BY <1>5, <2>1, <2>3
<1>9. QED
  BY <1>6, <1>7, <1>8

\* checkPermission answers what the rules in force say (permission/engine.ts).
LEMMA PermissionIsSound ==
  ASSUME NEW tool \in Tool
  PROVE  /\ CheckPermission(tool) \in Actions
         /\ CheckPermission(tool) # "deny" => ~Forbids(tool)
         /\ CheckPermission(tool) = "allow" => ~Asks(tool)
<1> DEFINE act == CheckPermission(tool)
           exact == {Merged[p] : p \in ExactPatterns(tool)}
           wild == {Merged[p] : p \in WildcardPatterns(tool)}
           naming == {r \in InForce : r.pattern = tool}
<1>1. \A r \in InForce : r.pattern \in Patterns
  BY DEF InForce, Patterns
<1>2. \A S : /\ Strictest(S) \in Actions
             /\ "deny" \in S => Strictest(S) = "deny"
             /\ "ask" \in S => Strictest(S) # "allow"
  BY DEF Strictest, Actions
<1>3. ASSUME ExactPatterns(tool) # {}
      PROVE  act = Strictest(exact) /\ \A r \in Deciding(tool) : r.action \in exact
  <2>1. ExactPatterns(tool) = {tool} /\ tool \in Patterns
    BY <1>3 DEF ExactPatterns
  <2>2. naming # {} /\ \A r \in naming : r.action = Merged[tool]
    BY <2>1, MergedIsInForce
  <2>3. Deciding(tool) = naming
    BY <2>2 DEF Deciding
  <2>4. QED
    BY <1>3, <2>1, <2>2, <2>3 DEF CheckPermission
<1>4. ASSUME ExactPatterns(tool) = {}
      PROVE  \A r \in Deciding(tool) : r.pattern \in WildcardPatterns(tool) /\ r.action \in wild
  <2>1. naming = {}
    BY <1>1, <1>4 DEF ExactPatterns
  <2>2. Deciding(tool) = {r \in InForce : r.pattern \in Wildcard /\ tool \in Covers[r.pattern]}
    BY <2>1 DEF Deciding
  <2>3. \A r \in Deciding(tool) : r \in InForce /\ r.pattern \in WildcardPatterns(tool)
    BY <1>1, <2>2 DEF WildcardPatterns
  <2>4. \A r \in InForce : r.action = Merged[r.pattern]
    BY <1>1, MergedIsInForce
  <2>5. QED
    BY <2>3, <2>4
<1>5. CASE ExactPatterns(tool) # {}
  BY <1>2, <1>3, <1>5 DEF Forbids, Asks
<1>6. CASE ExactPatterns(tool) = {} /\ WildcardPatterns(tool) # {}
  <2>1. act = Strictest(wild)
    BY <1>6 DEF CheckPermission
  <2>2. QED
    BY <1>2, <1>4, <1>6, <2>1 DEF Forbids, Asks
<1>7. CASE ExactPatterns(tool) = {} /\ WildcardPatterns(tool) = {}
  <2>1. act \in Actions
    BY <1>7 DEF CheckPermission, Actions
  <2>2. QED
    BY <1>4, <1>7, <2>1 DEF Forbids, Asks
<1>8. QED
  BY <1>5, <1>6, <1>7

-----------------------------------------------------------------------------
(* One lemma for each step of a turn that changes what is to run.          *)

LEMMA CurrentIsACall ==
  ASSUME NEW t \in Turn, CallsInv(turn[t]), turn[t].todo # {}
  PROVE  /\ Current(t) \in turn[t].todo /\ CurrentCall(t) \in Call
         /\ CheckPermission(ToolOf[CurrentCall(t)]) \in Actions
<1>1. Current(t) \in turn[t].todo /\ CurrentCall(t) \in Call
  BY LeastTodo DEF Current, CurrentCall
<1>2. ToolOf[CurrentCall(t)] \in Tool
  BY <1>1, TurnAssumption
<1>3. QED
  BY <1>1, <1>2, PermissionIsSound

LEMMA LlmAnswersStep ==
  ASSUME Shape, NEW t \in Turn, TurnInv(turn[t]), LlmAnswers(t)
  PROVE  TurnInv(turn'[t]) /\ Kept(turn[t], turn'[t])
<1> DEFINE s == turn[t]
           u == turn'[t]
<1>1. PICK r \in Responses :
        u = [s EXCEPT !.pc = "assistant", !.calls = r.calls,
                      !.written = r.calls, !.par = r.par, !.ms = now, !.lam = NextLamport]
  BY DEF LlmAnswers, Local, Become, Shape
<1>2. DOMAIN s = Fields /\ s.pc = "llm" /\ r.calls \in Seq(Call)
  BY TurnAssumption DEF Shape, LlmAnswers, At
<1>3. /\ u.pc = "assistant" /\ u.calls = r.calls /\ u.written = r.calls
      /\ u.iter = s.iter /\ u.todo = s.todo /\ u.ok = s.ok
      /\ u.ran = s.ran /\ u.approved = s.approved /\ u.refused = s.refused
      /\ Kept(s, u)
  BY <1>1, <1>2, FieldNames DEF Kept, Inside
<1> HIDE DEF s, u
<1>4. s.todo = {} /\ s.ok = {} /\ TurnInv(s)
  BY <1>2 DEF TurnInv, CallsInv, Asking, s
<1>5. CallsInv(u)
  BY <1>2, <1>3, <1>4 DEF TurnInv, CallsInv, Pcs, Gating, Early, Asking, Running
<1>6. GateInv(u)
  BY <1>3, <1>4 DEF GateInv, Gating, Running
<1>7. RanInv(u)
  BY <1>2, <1>3, <1>4 DEF TurnInv, RanInv, Asking, Gating
<1>8. QED
  BY <1>3, <1>5, <1>6, <1>7 DEF TurnInv, s, u

LEMMA PermissionStep ==
  ASSUME Shape, NEW t \in Turn, TurnInv(turn[t]), PermissionHook(t)
  PROVE  TurnInv(turn'[t]) /\ Kept(turn[t], turn'[t])
<1> DEFINE s == turn[t]
           u == turn'[t]
           act == CheckPermission(ToolOf[CurrentCall(t)])
<1>1. DOMAIN s = Fields /\ s.pc = "gate" /\ CallsInv(s) /\ s.todo # {}
  BY DEF Shape, PermissionHook, At, TurnInv, CallsInv, Gating
<1>2. act \in Actions
  BY <1>1, CurrentIsACall
<1>3. u = CASE act = "allow" -> [s EXCEPT !.pc = "hook"]
            [] act = "ask" -> [s EXCEPT !.pc = "askPermission"]
            [] act = "deny" -> Refuse(t, s)
  BY DEF PermissionHook, Local, Become, Shape
<1>4. CASE act \in {"allow", "ask"}
  <2>1. /\ SameWork(s, u) /\ Kept(s, u)
        /\ \/ u.pc = "hook" /\ act = "allow"
           \/ u.pc = "askPermission" /\ act = "ask"
    <3>1. CASE act = "allow"
      <4>1. u = [s EXCEPT !.pc = "hook"]
        BY <1>3, <3>1
      <4>2. u.pc = "hook" /\ SameWork(s, u)
        BY <1>1, <4>1, FieldNames DEF SameWork
      <4>3. Kept(s, u)
        BY <1>1, <4>1, FieldNames DEF Kept, Inside, Gating
      <4>4. QED
        BY <3>1, <4>2, <4>3
    <3>2. CASE act = "ask"
      <4>1. u = [s EXCEPT !.pc = "askPermission"]
        BY <1>3, <3>2
      <4>2. u.pc = "askPermission" /\ SameWork(s, u)
        BY <1>1, <4>1, FieldNames DEF SameWork
      <4>3. Kept(s, u)
        BY <1>1, <4>1, FieldNames DEF Kept, Inside, Gating
      <4>4. QED
        BY <3>2, <4>2, <4>3
    <3>3. QED
      BY <1>4, <3>1, <3>2
  <2>2. /\ ~Forbids(ToolOf[u.written[Least(u.todo)]])
        /\ act = "allow" => ~Asks(ToolOf[u.written[Least(u.todo)]])
    <3>1. CurrentCall(t) = s.written[Least(s.todo)] /\ ToolOf[CurrentCall(t)] \in Tool
      BY <1>1, LeastTodo, TurnAssumption DEF TurnInv, GateInv, Gating, CurrentCall, Current
    <3>2. /\ act # "deny" => ~Forbids(ToolOf[CurrentCall(t)])
          /\ act = "allow" => ~Asks(ToolOf[CurrentCall(t)])
      BY <3>1, PermissionIsSound
    <3>3. QED
      BY <1>4, <2>1, <3>1, <3>2 DEF SameWork
  <2> HIDE DEF u, act
  <2>3. CallsInv(u)
    BY <1>1, <2>1 DEF CallsInv, SameWork, Pcs, Gating, Early, Asking, Running
  <2>4. GateInv(u)
    BY <1>1, <2>1, <2>2
    DEF TurnInv, GateInv, SameWork, Passed, LetThrough, Permitted, Unrefused, Gating, Running
  <2>5. RanInv(u)
    BY <1>1, <2>1 DEF TurnInv, RanInv, SameWork, Gating, Asking
  <2>6. QED
    BY <2>1, <2>3, <2>4, <2>5 DEF TurnInv, u
<1>5. CASE act = "deny"
  <2>1. u = Refuse(t, s)
    BY <1>3, <1>5
  <2>2. SameCalls(s, u) /\ DeniedNow(s, u)
    <3>1. DeniedNow(s, u) /\ u.calls = s.calls
      BY <1>1, <2>1, FieldNames DEF Refuse, Instance, Current, DeniedNow
    <3>2. QED
      BY <1>1, <3>1 DEF SameCalls, CallsInv
  <2>3. TurnInv(u)
    BY <1>1, <2>2, Refused DEF Gating, SameCalls, CallsInv
  <2>4. Kept(s, u)
    BY <1>1, <2>1, RefuseKeeps
  <2>5. QED
    BY <2>3, <2>4
<1>6. QED
  BY <1>2, <1>4, <1>5 DEF Actions

LEMMA ApprovalDeniedStep ==
  ASSUME Shape, NEW t \in Turn, TurnInv(turn[t]), ApprovalDenied(t)
  PROVE  TurnInv(turn'[t]) /\ Kept(turn[t], turn'[t])
<1>1. DOMAIN turn[t] = Fields /\ turn[t].pc \in {"askPermission", "askHook"}
  BY DEF Shape, ApprovalDenied, At
<1>2. turn'[t] = Refuse(t, turn[t])
  BY DEF ApprovalDenied, Local, Become, Shape
<1>3. SameCalls(turn[t], turn'[t]) /\ DeniedNow(turn[t], turn'[t])
  BY <1>1, <1>2, FieldNames
  DEF Refuse, Instance, Current, SameCalls, DeniedNow, TurnInv, CallsInv
<1>4. TurnInv(turn'[t])
  BY <1>1, <1>2, <1>3, Refused DEF Gating
<1>5. Kept(turn[t], turn'[t])
  BY <1>1, <1>2, RefuseKeeps
<1>6. QED
  BY <1>4, <1>5

LEMMA ApprovalGivenStep ==
  ASSUME Shape, NEW t \in Turn, TurnInv(turn[t]), ApprovalGiven(t)
  PROVE  TurnInv(turn'[t]) /\ Kept(turn[t], turn'[t])
<1> DEFINE s == turn[t]
           v == [s EXCEPT !.approved = @ \cup {Shown(t)}]
           u == turn'[t]
<1>1. /\ DOMAIN v = Fields /\ v.pc = s.pc /\ s.approved \subseteq v.approved
      /\ v.iter = s.iter /\ v.calls = s.calls /\ v.written = s.written
      /\ v.todo = s.todo /\ v.ok = s.ok
      /\ v.ran = s.ran /\ v.refused = s.refused
      /\ v.started = s.started /\ v.stopped = s.stopped /\ v.stops = s.stops
      /\ v.told = s.told /\ v.late = s.late
      /\ <<s.iter, Least(s.todo), s.calls[Least(s.todo)]>> \in v.approved
  BY FieldNames DEF Shape, Shown, Current, CurrentCall
<1>2. TurnInv(v)
  BY <1>1, ApprovedMore
<1>3. \/ s.pc = "askPermission" /\ u = [v EXCEPT !.pc = "hook"]
      \/ s.pc = "askHook" /\ u = GateNext(v, v.ok \cup {Least(v.todo)})
  BY <1>1 DEF ApprovalGiven, Local, Become, Shape, At, Admit, Current
<1> HIDE DEF s, v, u
<1>4. CASE s.pc = "askPermission" /\ u = [v EXCEPT !.pc = "hook"]
  <2>1. SameWork(v, u) /\ u.pc = "hook" /\ Kept(v, u)
    BY <1>1, <1>4, FieldNames DEF SameWork, Kept, Inside, Gating
  <2>2. CallsInv(u)
    BY <1>1, <1>2, <1>4, <2>1 DEF TurnInv, CallsInv, SameWork, Pcs, Gating, Early, Asking, Running
  <2>3. GateInv(u)
    <3>1. Least(s.todo) \in s.todo /\ s.calls[Least(s.todo)] = s.written[Least(s.todo)]
      BY <1>1, <1>2, <1>4, LeastTodo DEF TurnInv, CallsInv, GateInv, Gating
    <3>2. Passed(v, Least(v.todo))
      BY <1>1, <1>2, <1>4, <3>1 DEF TurnInv, GateInv, Passed, LetThrough
    <3>3. QED
      BY <1>1, <1>2, <1>4, <2>1, <3>2
      DEF TurnInv, GateInv, SameWork, Passed, Permitted, Unrefused, Gating, Running
  <2>4. RanInv(u)
    BY <1>1, <1>2, <1>4, <2>1 DEF TurnInv, RanInv, SameWork, Gating, Asking
  <2>5. Kept(s, u)
    BY <1>1, <2>1, KeptKept
  <2>6. QED
    BY <2>2, <2>3, <2>4, <2>5 DEF TurnInv, s, u
<1>5. CASE s.pc = "askHook" /\ u = GateNext(v, v.ok \cup {Least(v.todo)})
  <2>1. CallsInv(v) /\ Least(v.todo) \in v.todo /\ v.pc \in Gating
    BY <1>1, <1>2, <1>5, LeastTodo DEF TurnInv, CallsInv, Gating
  <2>2. \A p \in v.ok \cup {Least(v.todo)} : Permitted(v, p) /\ Unrefused(v, p)
    <3>1. \A p \in v.ok : Permitted(v, p) /\ Unrefused(v, p)
      BY <2>1, <1>2 DEF TurnInv, GateInv
    <3>2. Permitted(v, Least(v.todo))
      BY <1>1, <1>2, <1>5 DEF TurnInv, GateInv, Permitted, HookLetsRun
    <3>3. Unrefused(v, Least(v.todo))
      BY <1>1, <1>2, <1>5, <2>1 DEF TurnInv, GateInv
    <3>4. QED
      BY <3>1, <3>2, <3>3
  <2>3. TurnInv(u)
    BY <1>1, <1>2, <1>5, <2>1, <2>2, GateGoesOn DEF SameWork
  <2>4. Kept(v, u)
    BY <1>1, <1>5, GateNextKeeps
  <2>5. Kept(s, u)
    BY <1>1, <2>4, KeptKept
  <2>6. QED
    BY <2>3, <2>5 DEF s, u
<1>6. QED
  BY <1>3, <1>4, <1>5

LEMMA PreToolUseStep ==
  ASSUME Shape, NEW t \in Turn, TurnInv(turn[t]), PreToolUse(t)
  PROVE  TurnInv(turn'[t]) /\ Kept(turn[t], turn'[t])
<1> DEFINE s == turn[t]
           u == turn'[t]
<1>1. /\ DOMAIN s = Fields /\ s.pc = "hook" /\ CallsInv(s) /\ s.todo # {}
      /\ Least(s.todo) \in s.todo /\ Current(t) = Least(s.todo)
      /\ CurrentCall(t) = s.calls[Least(s.todo)] /\ CurrentCall(t) \in Call
  BY LeastTodo DEF Shape, PreToolUse, At, TurnInv, CallsInv, Gating, Current, CurrentCall
<1>2. PICK a \in HookAnswers[CurrentCall(t)] :
        LET v == [s EXCEPT !.calls[Current(t)] = a.call] IN
        u = CASE a.act = "allow" -> Admit(t, v)
              [] a.act = "ask" -> [v EXCEPT !.pc = "askHook"]
              [] a.act = "deny" -> Refuse(t, v)
  BY DEF PreToolUse, Local, Become, Shape
<1>3. a.act \in Actions /\ a.call \in Call
  BY <1>1, TurnAssumption
<1> DEFINE v == [s EXCEPT !.calls[Current(t)] = a.call]
           w == [v EXCEPT !.pc = "askHook"]
<1>4. /\ DOMAIN v = Fields /\ v.pc = "hook"
      /\ v.calls = [s.calls EXCEPT ![Least(s.todo)] = a.call]
      /\ v.iter = s.iter /\ v.written = s.written /\ v.todo = s.todo /\ v.ok = s.ok
      /\ v.ran = s.ran /\ v.approved = s.approved /\ v.refused = s.refused
      /\ v.started = s.started /\ v.stopped = s.stopped /\ v.stops = s.stops
      /\ v.told = s.told /\ v.late = s.late
  BY <1>1, FieldNames
<1>5. \/ a.act = "allow" /\ u = GateNext(v, v.ok \cup {Least(v.todo)})
      \/ a.act = "ask" /\ u = w
      \/ a.act = "deny" /\ u = Refuse(t, v)
  BY <1>1, <1>2, <1>3, <1>4 DEF Admit, Actions
<1>6. SameWork(v, w) /\ w.pc = "askHook"
  BY <1>4, FieldNames DEF SameWork
<1>7. DeniedNow(s, Refuse(t, v)) /\ SameCalls(s, Refuse(t, v))
  <2>1. /\ Refuse(t, v).calls = v.calls /\ Refuse(t, v).pc = "deny"
        /\ Refuse(t, v).refused = s.refused \cup {<<s.iter, Least(s.todo)>>}
        /\ Refuse(t, v).iter = s.iter /\ Refuse(t, v).written = s.written
        /\ Refuse(t, v).todo = s.todo /\ Refuse(t, v).ok = s.ok
        /\ Refuse(t, v).ran = s.ran /\ Refuse(t, v).approved = s.approved
    BY <1>1, <1>4, FieldNames DEF Refuse, Instance
  <2> DEFINE d == Refuse(t, v)
  <2> HIDE DEF d, v
  <2>2. d.calls \in Seq(Call) /\ DOMAIN d.calls = DOMAIN s.calls
    BY <1>1, <1>3, <1>4, <2>1 DEF d, CallsInv
  <2>3. \A p \in DOMAIN s.calls \ {Least(s.todo)} : d.calls[p] = s.calls[p]
    BY <1>4, <2>1 DEF d
  <2>4. QED
    BY <2>1, <2>2, <2>3 DEF d, DeniedNow, SameCalls
<1> HIDE DEF s, u, v, w
<1>8. TurnInv(u)
  <2>1. a.act \in {"allow", "ask"} => TurnInv(w)
    BY <1>1, <1>3, <1>4, <1>6, CallRewritten DEF SameWork, s
  <2>2. CASE a.act = "allow" /\ u = GateNext(v, v.ok \cup {Least(v.todo)})
    <3>1. \A p \in w.ok : Permitted(w, p) /\ Unrefused(w, p)
      BY <1>6, <2>1, <2>2 DEF TurnInv, GateInv, Gating
    <3>2. Passed(w, Least(w.todo)) /\ Unrefused(w, Least(w.todo))
      BY <1>1, <1>4, <1>6, <2>1, <2>2 DEF TurnInv, GateInv, Gating, SameWork
    <3>3. s.written[Least(s.todo)] = CurrentCall(t) /\ v.calls[Least(s.todo)] = a.call
      BY <1>1, <1>4 DEF TurnInv, CallsInv, GateInv, Gating, s
    <3>4. HookLetsRun(w.iter, Least(w.todo), w.written[Least(w.todo)], w.calls[Least(w.todo)],
                      w.approved)
      BY <1>4, <1>6, <2>2, <3>3 DEF HookLetsRun, SameWork
    <3>5. \A p \in v.ok \cup {Least(v.todo)} : Permitted(w, p) /\ Unrefused(w, p)
      BY <1>6, <3>1, <3>2, <3>4 DEF Permitted, SameWork
    <3>6. SameWork(w, v) /\ v.ok \cup {Least(v.todo)} \subseteq w.ok \cup {Least(w.todo)}
      BY <1>6 DEF SameWork
    <3>7. QED
      BY <1>4, <1>6, <2>1, <2>2, <3>5, <3>6, GateGoesOn DEF Gating
  <2>3. CASE a.act = "ask" /\ u = w
    BY <2>1, <2>3
  <2>4. CASE a.act = "deny" /\ u = Refuse(t, v)
    BY <1>1, <1>7, <2>4, Refused DEF Gating, s
  <2>5. QED
    BY <1>5, <2>2, <2>3, <2>4
<1>9. Kept(v, u)
  <2>1. CASE u = w
    BY <1>4, <2>1, FieldNames DEF Kept, Inside, Gating, w
  <2>2. QED
    BY <1>4, <1>5, <2>1, GateNextKeeps, RefuseKeeps
<1>10. Kept(s, u)
  BY <1>4, <1>9, KeptKept
<1>11. QED
  BY <1>8, <1>10 DEF s, u

LEMMA ThrowEnds ==
  ASSUME NEW s, DOMAIN s = Fields, TurnInv(s), NEW cause
  PROVE  TurnInv(Throw(s, cause)) /\ DOMAIN Throw(s, cause) = Fields
<1>1. SameWork(s, Throw(s, cause)) /\ Throw(s, cause).pc = "stopping"
      /\ DOMAIN Throw(s, cause) = Fields
  BY FieldNames DEF SameWork, Throw, Stop
<1>2. QED
  BY <1>1, WorkGoesOn DEF Ending

LEMMA StoreDeniedStep ==
  ASSUME Shape, NEW t \in Turn, TurnInv(turn[t]), StoreDenied(t)
  PROVE  TurnInv(turn'[t]) /\ DOMAIN turn'[t] = Fields
<1> DEFINE s == turn[t]
           v == [s EXCEPT !.lam = 0]
           u == turn'[t]
<1>1. DOMAIN s = Fields /\ s.pc = "deny"
  BY DEF Shape, StoreDenied, At
<1>2. u = Throw(s, "store") \/ u = GateNext(v, s.ok)
  BY DEF StoreDenied, Persist, Become, Shape
<1>3. DOMAIN v = Fields /\ v.pc = "deny" /\ SameWork(s, v)
  BY <1>1, FieldNames DEF SameWork
<1> HIDE DEF v, u
<1>4. TurnInv(v)
  BY <1>1, <1>3, WorkGoesOn
<1>5. \A p \in s.ok : Permitted(v, p) /\ Unrefused(v, p)
  BY <1>3, <1>4 DEF TurnInv, GateInv, SameWork, Gating
<1>6. TurnInv(GateNext(v, s.ok)) /\ DOMAIN GateNext(v, s.ok) = Fields
  BY <1>3, <1>4, <1>5, GateGoesOn, GateNextKeeps DEF Gating, Kept, SameWork
<1>7. QED
  BY <1>1, <1>2, <1>6, ThrowEnds DEF u

LEMMA StoreResultStep ==
  ASSUME Shape, NEW t \in Turn, TurnInv(turn[t]), StoreResult(t)
  PROVE  TurnInv(turn'[t]) /\ DOMAIN turn'[t] = Fields
<1> DEFINE s == turn[t]
           v == [s EXCEPT !.lam = 0, !.batch = @ \ {Least(s.batch)}]
           u == turn'[t]
<1>1. DOMAIN s = Fields /\ s.pc = "result"
  BY DEF Shape, StoreResult, At
<1>2. u = Throw(s, "store") \/ u = ResultNext(v)
  BY DEF StoreResult, Persist, Become, Shape
<1>3. DOMAIN v = Fields /\ v.pc = "result" /\ SameWork(s, v)
  BY <1>1, FieldNames DEF SameWork
<1> HIDE DEF v, u
<1>4. TurnInv(v)
  BY <1>1, <1>3, WorkGoesOn
<1>5. TurnInv([v EXCEPT !.pc = "await"]) /\ DOMAIN [v EXCEPT !.pc = "await"] = Fields
  <2> DEFINE w == [v EXCEPT !.pc = "await"]
  <2>1. DOMAIN w = Fields /\ w.pc = "await" /\ SameWork(v, w)
    BY <1>3, FieldNames DEF SameWork
  <2>2. QED
    BY <1>3, <1>4, <2>1, WorkGoesOn DEF Running
<1>6. TurnInv(ResultNext(v)) /\ DOMAIN ResultNext(v) = Fields
  BY <1>3, <1>4, <1>5, RunGoesOn DEF ResultNext, Running
<1>7. QED
  BY <1>1, <1>2, <1>6, ThrowEnds DEF u

LEMMA StoreAwaitedStep ==
  ASSUME Shape, NEW t \in Turn, TurnInv(turn[t]), StoreAwaited(t)
  PROVE  TurnInv(turn'[t]) /\ DOMAIN turn'[t] = Fields
<1> DEFINE s == turn[t]
           v == [s EXCEPT !.lam = 0, !.waits = @ \ {Least(s.waits)}]
           w == [v EXCEPT !.pc = "await"]
           u == turn'[t]
<1>1. DOMAIN s = Fields /\ s.pc = "awaited"
  BY DEF Shape, StoreAwaited, At
<1>2. u = Throw(s, "store") \/ u = w \/ u = RunNext(v)
  BY DEF StoreAwaited, Persist, Become, Shape
<1>3. DOMAIN v = Fields /\ v.pc = "awaited" /\ SameWork(s, v)
  BY <1>1, FieldNames DEF SameWork
<1>4. DOMAIN w = Fields /\ w.pc = "await" /\ SameWork(v, w)
  BY <1>1, FieldNames DEF SameWork
<1> HIDE DEF v, w, u
<1>5. TurnInv(v)
  BY <1>1, <1>3, WorkGoesOn
<1>6. TurnInv(w)
  BY <1>3, <1>4, <1>5, WorkGoesOn DEF Running
<1>7. QED
  BY <1>1, <1>2, <1>3, <1>4, <1>5, <1>6, ThrowEnds, RunGoesOn DEF u, Running

LEMMA StoreAssistantStep ==
  ASSUME Shape, NEW t \in Turn, TurnInv(turn[t]), StoreAssistant(t)
  PROVE  TurnInv(turn'[t]) /\ DOMAIN turn'[t] = Fields
<1> DEFINE s == turn[t]
           v == [s EXCEPT !.lam = 0, !.ended = {}]
           w == [v EXCEPT !.pc = "plugins"]
           u == turn'[t]
<1>1. DOMAIN s = Fields /\ s.pc = "assistant"
  BY DEF Shape, StoreAssistant, At
<1>2. u = Throw(s, "store") \/ u = w \/ u = Dispatch(v, {})
  BY DEF StoreAssistant, Persist, Become, Shape
<1>3. DOMAIN v = Fields /\ v.pc = "assistant" /\ SameWork(s, v)
  BY <1>1, FieldNames DEF SameWork
<1>4. DOMAIN w = Fields /\ w.pc = "plugins" /\ SameWork(v, w)
  BY <1>1, FieldNames DEF SameWork
<1> HIDE DEF v, w, u
<1>5. TurnInv(v)
  BY <1>1, <1>3, WorkGoesOn
<1>6. TurnInv(w)
  BY <1>3, <1>4, <1>5, WorkGoesOn DEF Asking
<1>7. QED
  BY <1>1, <1>2, <1>3, <1>4, <1>5, <1>6, ThrowEnds, DispatchGoesOn DEF u

LEMMA RunPluginsStep ==
  ASSUME Shape, NEW t \in Turn, TurnInv(turn[t]), RunPlugins(t)
  PROVE  TurnInv(turn'[t]) /\ DOMAIN turn'[t] = Fields
<1> DEFINE s == turn[t]
           u == turn'[t]
<1>1. DOMAIN s = Fields /\ s.pc = "plugins"
  BY DEF Shape, RunPlugins, At
<1>2. PICK H \in PluginChoices(s), target \in {"none", "self", "human"} :
        u = CASE target = "human" -> Stop(s, "completed")
              [] target = "self" -> [s EXCEPT !.pc = "iterate"]
              [] target = "none" -> Dispatch(s, Handled(s, H))
  BY DEF RunPlugins, Become, Shape
<1>3. \/ u = Stop(s, "completed") \/ u = [s EXCEPT !.pc = "iterate"]
      \/ u = Dispatch(s, Handled(s, H))
  BY <1>2
<1>4. CASE u = Stop(s, "completed") \/ u = [s EXCEPT !.pc = "iterate"]
  <2>1. DOMAIN u = Fields /\ SameWork(s, u) /\ u.pc \in {"stopping", "iterate"}
    BY <1>1, <1>4, FieldNames DEF SameWork, Stop
  <2>2. QED
    BY <1>1, <2>1, WorkGoesOn DEF Asking, Ending
<1>5. CASE u = Dispatch(s, Handled(s, H))
  BY <1>1, <1>5, DispatchGoesOn
<1>6. QED
  BY <1>3, <1>4, <1>5

\* The calls of a batch are those to be run, or the first of them.
LEMMA RunToolsStep ==
  ASSUME Shape, NEW t \in Turn, TurnInv(turn[t]), RunTools(t)
  PROVE  TurnInv(turn'[t]) /\ Kept(turn[t], turn'[t])
<1> DEFINE s == turn[t]
           u == turn'[t]
           batch == IF s.par THEN s.todo ELSE {Current(t)}
           run == {p \in batch : ~DoomLoop(s, batch, p)}
           started == {[iter |-> s.iter, pos |-> p, call |-> s.calls[p],
                         written |-> s.written[p]] : p \in run}
<1>1. DOMAIN s = Fields /\ s.pc = "run" /\ CallsInv(s) /\ s.iter \in Nat
      /\ Least(s.todo) \in s.todo
  BY LeastTodo DEF Shape, RunTools, At, TurnInv, CallsInv
<1>2. batch \subseteq s.todo /\ run \subseteq batch
  BY <1>1 DEF Current
<1>3. PICK waits \in SUBSET {p \in run : ToolOf[s.calls[p]] \in AwaitingTools} :
        u = [s EXCEPT !.pc = "result", !.todo = @ \ batch, !.batch = batch, !.waits = waits,
                      !.recent = Pushed(s, batch), !.ran = @ \cup started]
  BY DEF RunTools, Local, Become, Shape
<1> HIDE DEF batch, run, started
<1>4. /\ u.pc = "result" /\ u.todo = s.todo \ batch /\ u.ran = s.ran \cup started
      /\ u.iter = s.iter /\ u.calls = s.calls /\ u.written = s.written /\ u.ok = s.ok
      /\ u.approved = s.approved /\ u.refused = s.refused
  BY <1>1, <1>3, FieldNames
<1>5. Kept(s, u)
  BY <1>1, <1>3, FieldNames DEF Kept, Inside, Running
<1> HIDE DEF s, u
<1>6. CallsInv(u)
  BY <1>1, <1>4 DEF CallsInv, Pcs, Gating, Early, Asking, Running
<1>7. TurnInv(s)
  BY DEF s
<1>8. GateInv(u)
  BY <1>1, <1>4, <1>7 DEF TurnInv, GateInv, Passed, Permitted, Unrefused, Gating, Running
<1>9. RanInv(u)
  <2>1. ASSUME NEW r \in started
        PROVE  /\ r.iter = s.iter /\ <<r.iter, r.pos>> \notin s.refused
               /\ LetThrough(r.iter, r.pos, r.written, s.approved)
               /\ HookLetsRun(r.iter, r.pos, r.written, r.call, s.approved)
    <3>1. PICK p \in run : r = [iter |-> s.iter, pos |-> p, call |-> s.calls[p],
                                written |-> s.written[p]]
      BY DEF started
    <3>2. Permitted(s, p) /\ Unrefused(s, p)
      BY <1>1, <1>2, <1>7 DEF TurnInv, GateInv, Running
    <3>3. QED
      BY <3>1, <3>2 DEF Passed, Permitted, Unrefused
  <2>2. QED
    BY <1>1, <1>4, <1>7, <2>1 DEF TurnInv, RanInv, Gating, Asking
<1>10. QED
  BY <1>5, <1>6, <1>8, <1>9 DEF TurnInv, s, u

LEMMA StartIterationStep ==
  ASSUME Shape, NEW t \in Turn, TurnInv(turn[t]), StartIteration(t)
  PROVE  TurnInv(turn'[t]) /\ DOMAIN turn'[t] = Fields
<1> DEFINE s == turn[t]
           u == turn'[t]
<1>1. DOMAIN s = Fields /\ s.pc = "iterate"
  BY DEF Shape, StartIteration, At
<1>2. /\ u.pc \in {"stopping", "history"} /\ u.iter = s.iter + 1 /\ DOMAIN u = Fields
      /\ u.calls = s.calls /\ u.written = s.written /\ u.todo = s.todo /\ u.ok = s.ok
      /\ u.ran = s.ran /\ u.approved = s.approved /\ u.refused = s.refused
  BY <1>1, FieldNames DEF StartIteration, Local, Become, Shape, Stop
<1> HIDE DEF s, u
<1>3. TurnInv(s)
  BY DEF s
<1>4. CallsInv(u)
  BY <1>1, <1>2, <1>3 DEF TurnInv, CallsInv, Pcs, Gating, Early, Asking, Running
<1>5. GateInv(u)
  BY <1>1, <1>2, <1>3 DEF TurnInv, CallsInv, GateInv, Gating, Early, Running
<1>6. RanInv(u)
  BY <1>1, <1>2, <1>3 DEF TurnInv, CallsInv, RanInv, Gating, Asking
<1>7. QED
  BY <1>2, <1>4, <1>5, <1>6 DEF TurnInv, s, u

LEMMA SessionStep ==
  ASSUME Shape, NEW t \in Turn, TurnInv(turn[t]), SomeSessionEnds(t)
  PROVE  /\ TurnInv(turn'[t])
         /\ turn'[t].pc = turn[t].pc \/ Kept(turn[t], turn'[t])
         /\ DOMAIN turn'[t] = Fields
         /\ turn'[t].started = turn[t].started /\ turn'[t].stopped = turn[t].stopped
         /\ turn'[t].stops = turn[t].stops /\ turn'[t].reason = turn[t].reason
         /\ turn'[t].told = turn[t].told /\ turn'[t].late = turn[t].late
<1> DEFINE s == turn[t]
           u == turn'[t]
<1>1. PICK p \in s.waits :
        u = [s EXCEPT !.ended = @ \cup {p},
                      !.pc = IF @ = "listening" /\ p = Least(s.waits) THEN "awaited" ELSE @]
  BY DEF SomeSessionEnds, SessionEnds, Local, Become, Shape
<1>2. DOMAIN s = Fields
  BY DEF Shape
<1>3. /\ DOMAIN u = Fields /\ SameWork(s, u)
      /\ u.pc = s.pc \/ (s.pc = "listening" /\ u.pc = "awaited")
      /\ u.started = s.started /\ u.stopped = s.stopped /\ u.stops = s.stops
      /\ u.reason = s.reason /\ u.told = s.told /\ u.late = s.late
  <2> DEFINE pc == IF s.pc = "listening" /\ p = Least(s.waits) THEN "awaited" ELSE s.pc
  <2>1. u = [s EXCEPT !.ended = @ \cup {p}, !.pc = pc]
    BY <1>1
  <2>2. pc = s.pc \/ (s.pc = "listening" /\ pc = "awaited")
    OBVIOUS
  <2> HIDE DEF s, u, pc
  <2>3. QED
    BY <1>2, <2>1, <2>2, FieldNames DEF SameWork, s
<1>4. TurnInv(u)
  BY <1>3, WorkGoesOn DEF Running
<1>5. QED
  BY <1>3, <1>4 DEF Kept, Inside, Running

\* The steps that leave the work of a turn alone.
OtherStep(t) ==
  \/ SendMessage(t) \/ BeginTurn(t) \/ StoreUser(t) \/ StartTurn(t) \/ BlockTurn(t)
  \/ HitMaxIterations(t) \/ CallLlm(t) \/ LlmFails(t) \/ ReadClock(t) \/ AwaitSession(t)
  \/ ListenerThrows(t) \/ Finish(t)

LEMMA OtherSteps ==
  ASSUME Shape, NEW t \in Turn, TurnInv(turn[t]), OtherStep(t)
  PROVE  TurnInv(turn'[t]) /\ DOMAIN turn'[t] = Fields
<1> DEFINE s == turn[t]
           u == turn'[t]
           Works == /\ DOMAIN u = Fields /\ SameWork(s, u)
                    /\ \/ u.pc \in Ending \/ u.pc = s.pc
                       \/ s.pc \in Early /\ u.pc \in Early
                       \/ s.pc \in Asking /\ u.pc \in {"history", "llm", "iterate"}
                       \/ s.pc \in Running \ {"run"} /\ u.pc \in Running \ {"run"}
<1>0. DOMAIN s = Fields
  BY DEF Shape
<1>1. SendMessage(t) \/ BeginTurn(t) \/ StartTurn(t) => Works
  <2>1. ASSUME SendMessage(t) PROVE Works
    BY <1>0, <2>1, FieldNames DEF SendMessage, Local, Become, Shape, At, SameWork, Early
  <2>2. ASSUME BeginTurn(t) PROVE Works
    BY <1>0, <2>2, FieldNames DEF BeginTurn, Local, Become, Shape, At, SameWork, Early
  <2>3. ASSUME StartTurn(t) PROVE Works
    BY <1>0, <2>3, FieldNames DEF StartTurn, Local, Become, Shape, At, SameWork, Early
  <2>4. QED
    BY <2>1, <2>2, <2>3
<1>2. ASSUME StoreUser(t) PROVE Works
  <2>1. u = Throw(s, "store") \/ u = [s EXCEPT !.pc = "hooks", !.lam = 0]
    BY <1>2 DEF StoreUser, Persist, Become, Shape
  <2>2. s.pc = "user"
    BY <1>2 DEF StoreUser, At
  <2> HIDE DEF s, u
  <2>3. QED
    BY <1>0, <2>1, <2>2, FieldNames DEF Throw, Stop, SameWork, Early, Ending
<1>3. BlockTurn(t) \/ HitMaxIterations(t) \/ LlmFails(t) \/ ListenerThrows(t) => Works
  <2>1. ASSUME BlockTurn(t) PROVE Works
    BY <1>0, <2>1, FieldNames DEF BlockTurn, Local, Become, Shape, At, SameWork, Ending
  <2>2. ASSUME HitMaxIterations(t) PROVE Works
    BY <1>0, <2>2, FieldNames DEF HitMaxIterations, Stop, Local, Become, Shape, At, SameWork, Ending
  <2>3. ASSUME LlmFails(t) PROVE Works
    BY <1>0, <2>3, FieldNames DEF LlmFails, Throw, Stop, Local, Become, Shape, At, SameWork, Ending
  <2>4. ASSUME ListenerThrows(t) PROVE Works
    BY <1>0, <2>4, FieldNames DEF ListenerThrows, Local, Become, Shape, At, SameWork, Ending
  <2>5. QED
    BY <2>1, <2>2, <2>3, <2>4
<1>4. ASSUME CallLlm(t) PROVE Works
  <2>1. PICK late : u = [s EXCEPT !.pc = "llm", !.late = late]
    BY <1>4, Zenon DEF CallLlm, Local, Become, Shape
  <2>2. QED
    BY <1>0, <1>4, <2>1, FieldNames DEF CallLlm, At, SameWork, Asking
<1>5. ReadClock(t) => Works
  BY <1>0, FieldNames DEF ReadClock, Local, Become, Shape, SameWork
<1>6. AwaitSession(t) => Works
  BY <1>0, FieldNames DEF AwaitSession, Local, Become, Shape, At, SameWork, Running
<1>7. ASSUME Finish(t) PROVE Works
  <2> DEFINE s1 == IF s.cause \in {"llm", "store"} THEN CallStop(s) ELSE s
             s2 == CallStop(s1)
  <2>1. DOMAIN s1 = Fields /\ SameWork(s, s1)
    BY <1>0, FieldNames DEF CallStop, SameWork
  <2> HIDE DEF s1
  <2>2. DOMAIN s2 = Fields /\ SameWork(s, s2)
    BY <2>1, FieldNames DEF CallStop, SameWork
  <2>3. u = [s2 EXCEPT !.pc = "done"]
    BY <1>7 DEF Finish, Local, Become, Shape, s1
  <2> HIDE DEF s, u, s2
  <2>4. QED
    BY <2>2, <2>3, FieldNames DEF SameWork, Ending
<1>8. Works => TurnInv(u)
  BY WorkGoesOn
<1>9. QED
  BY <1>1, <1>2, <1>3, <1>4, <1>5, <1>6, <1>7, <1>8 DEF OtherStep

-----------------------------------------------------------------------------
(* Nothing runs without its permission.                                    *)

TurnsInv == Shape /\ \A t \in Turn : TurnInv(turn[t])

TurnStep(t) == SendMessage(t) \/ Progress(t) \/ SomeSessionEnds(t) \/ Setback(t)

\* A step of one turn leaves the others alone.
LEMMA OneTurn ==
  ASSUME Shape, NEW t \in Turn, TurnStep(t)
  PROVE  turn' = [turn EXCEPT ![t] = turn'[t]]
BY DEF Shape, TurnStep, Progress, Setback, SendMessage, BeginTurn, StoreUser, StartTurn,
       BlockTurn, HitMaxIterations, StartIteration, CallLlm, LlmAnswers, LlmFails, StoreAssistant,
       RunPlugins, PermissionHook, ApprovalGiven, ApprovalDenied, PreToolUse, ReadClock,
       StoreDenied, RunTools, StoreResult, AwaitSession, StoreAwaited, SomeSessionEnds,
       SessionEnds, ListenerThrows, Finish, Local, Persist, Become

Steady(s) == TurnInv(s) /\ DOMAIN s = Fields

LEMMA StepKeepsTurn ==
  ASSUME Shape, NEW t \in Turn, TurnInv(turn[t]), TurnStep(t)
  PROVE  TurnInv(turn'[t]) /\ DOMAIN turn'[t] = Fields
<1>1. StartIteration(t) => Steady(turn'[t])
  BY StartIterationStep DEF Kept, Steady
<1>2. LlmAnswers(t) => Steady(turn'[t])
  BY LlmAnswersStep DEF Kept, Steady
<1>3. StoreAssistant(t) => Steady(turn'[t])
  BY StoreAssistantStep DEF Kept, Steady
<1>4. RunPlugins(t) => Steady(turn'[t])
  BY RunPluginsStep DEF Kept, Steady
<1>5. PermissionHook(t) => Steady(turn'[t])
  BY PermissionStep DEF Kept, Steady
<1>6. ApprovalGiven(t) => Steady(turn'[t])
  BY ApprovalGivenStep DEF Kept, Steady
<1>7. ApprovalDenied(t) => Steady(turn'[t])
  BY ApprovalDeniedStep DEF Kept, Steady
<1>8. PreToolUse(t) => Steady(turn'[t])
  BY PreToolUseStep DEF Kept, Steady
<1>9. StoreDenied(t) => Steady(turn'[t])
  BY StoreDeniedStep DEF Kept, Steady
<1>10. RunTools(t) => Steady(turn'[t])
  BY RunToolsStep DEF Kept, Steady
<1>11. StoreResult(t) => Steady(turn'[t])
  BY StoreResultStep DEF Kept, Steady
<1>12. StoreAwaited(t) => Steady(turn'[t])
  BY StoreAwaitedStep DEF Kept, Steady
<1>13. SomeSessionEnds(t) => Steady(turn'[t])
  BY SessionStep DEF Kept, Steady
<1>14. OtherStep(t) => Steady(turn'[t])
  BY OtherSteps DEF Steady
<1>15. Progress(t) => Steady(turn'[t])
  BY <1>1, <1>2, <1>3, <1>4, <1>5, <1>6, <1>7, <1>8, <1>9, <1>10, <1>11, <1>12, <1>14
  DEF Progress, OtherStep
<1>16. Setback(t) => Steady(turn'[t])
  BY <1>14 DEF Setback, OtherStep
<1>17. QED
  BY <1>13, <1>14, <1>15, <1>16 DEF TurnStep, OtherStep, Steady

LEMMA InitTurns ==
  Init => TurnsInv
<1> SUFFICES ASSUME Init PROVE TurnsInv
  OBVIOUS
<1>1. \A t \in Turn : turn[t] = IdleTurn
  BY DEF Init
<1>2. Shape
  BY <1>1 DEF Init, Shape, Fields
<1>3. TurnInv(IdleTurn)
  BY DEF TurnInv, CallsInv, GateInv, RanInv, IdleTurn, Pcs, Early, Asking, Gating, Running
<1>4. QED
  BY <1>1, <1>2, <1>3 DEF TurnsInv

LEMMA NextTurns ==
  ASSUME TurnsInv, [Next]_vars
  PROVE  TurnsInv'
<1>1. ASSUME NEW t \in Turn, TurnStep(t) PROVE TurnsInv'
  <2>1. TurnInv(turn'[t]) /\ DOMAIN turn'[t] = Fields
    BY <1>1, StepKeepsTurn DEF TurnsInv
  <2>2. turn' = [turn EXCEPT ![t] = turn'[t]]
    BY <1>1, OneTurn DEF TurnsInv
  <2>3. \A u \in Turn : u # t => turn'[u] = turn[u]
    BY <2>2 DEF TurnsInv, Shape
  <2>4. turn' = [u \in Turn |-> turn'[u]]
    BY <2>2 DEF TurnsInv, Shape
  <2>5. QED
    BY <2>1, <2>3, <2>4 DEF TurnsInv, Shape
<1>2. ASSUME CancelAgent PROVE TurnsInv'
  <2>1. turn' = [t \in Turn |-> IF Active(t) THEN [turn[t] EXCEPT !.told = TRUE] ELSE turn[t]]
    BY <1>2 DEF CancelAgent
  <2>2. turn' = [t \in Turn |-> turn'[t]]
    BY <2>1
  <2>3. ASSUME NEW t \in Turn PROVE TurnInv(turn'[t]) /\ DOMAIN turn'[t] = Fields
    <3>1. DOMAIN turn[t] = Fields /\ TurnInv(turn[t])
      BY DEF TurnsInv, Shape
    <3>2. turn'[t] = [turn[t] EXCEPT !.told = TRUE] \/ turn'[t] = turn[t]
      BY <2>1
    <3>3. DOMAIN turn'[t] = Fields /\ SameWork(turn[t], turn'[t]) /\ turn'[t].pc = turn[t].pc
      BY <3>1, <3>2, FieldNames DEF SameWork
    <3>4. QED
      BY <3>1, <3>3, WorkGoesOn
  <2>4. QED
    BY <2>2, <2>3 DEF TurnsInv, Shape
<1>3. ASSUME turn' = turn PROVE TurnsInv'
  BY <1>3 DEF TurnsInv, Shape
<1>4. QED
  BY <1>1, <1>2, <1>3 DEF Next, TurnStep, vars, Tick

\* For any turns, responses, permission settings and hooks: the positions of the gate and of the
\* runner are those of the response, and whatever waits behind the gate has been let through by
\* settings, hooks and people (gateToolCallsWithPreToolUse).
THEOREM TurnInvariant ==
  Spec => []TurnsInv
<1>1. Init => TurnsInv
  BY InitTurns
<1>2. TurnsInv /\ [Next]_vars => TurnsInv'
  BY NextTurns
<1>3. QED
  BY <1>1, <1>2, PTL DEF Spec

\* A tool runs only for a call no one refused.  The rules in force do not deny the tool of the
\* call as the LLM wrote it, and where they ask, a person approved this very call; what runs is
\* that call or one a hook put in its place, approved as it runs where the hook asked.
THEOREM NothingRunsUnpermitted ==
  Spec => []RunsArePermitted
<1>1. TurnsInv => RunsArePermitted
  BY DEF TurnsInv, TurnInv, RanInv, RunsArePermitted
<1>2. QED
  BY <1>1, TurnInvariant, PTL

-----------------------------------------------------------------------------
(* The stop hook.                                                          *)

\* The hook has not run before the end, and a turn that passed its start ends with a reason.
StopInv(s) ==
  /\ s.pc # "done" => ~s.stopped /\ s.stops = 0
  /\ s.pc \in {"idle", "queued", "user", "hooks"} => ~s.started
  /\ s.pc = "stopping" /\ s.started => s.reason # "none"
  /\ s.pc = "done" => s.stops = (IF s.started THEN 1 ELSE 0)

\* Inside an iteration nothing of this changes.
LEMMA KeptStop ==
  ASSUME NEW s, NEW u, StopInv(s), Kept(s, u), s.pc # "done"
  PROVE  StopInv(u)
BY DEF StopInv, Kept, Inside, Gating, Running

LEMMA CallStopOnce ==
  ASSUME NEW s, DOMAIN s = Fields
  PROVE  /\ DOMAIN CallStop(s) = Fields
         /\ CallStop(s).started = s.started /\ CallStop(s).reason = s.reason
         /\ StopHookDue(s) => CallStop(s).stopped /\ CallStop(s).stops = s.stops + 1
         /\ ~StopHookDue(s) => CallStop(s) = s
BY FieldNames DEF CallStop

\* The loop may stop a turn where it catches an exception and again finally; the hook runs once.
LEMMA CallStopTwice ==
  ASSUME NEW s, DOMAIN s = Fields, ~s.stopped, s.stops = 0, s.started => s.reason # "none",
         NEW s1, s1 = s \/ s1 = CallStop(s)
  PROVE  /\ DOMAIN CallStop(s1) = Fields /\ CallStop(s1).started = s.started
         /\ CallStop(s1).stops = (IF s.started THEN 1 ELSE 0)
<1>1. DOMAIN s1 = Fields /\ s1.started = s.started /\ s1.reason = s.reason
  BY CallStopOnce
<1>2. CASE s.started
  <2>1. StopHookDue(s)
    BY <1>2 DEF StopHookDue
  <2>2. CASE s1 = s
    <3>1. CallStop(s).stops = 1
      BY <2>1, CallStopOnce
    <3>2. QED
      BY <3>1, <2>2, <1>2, CallStopOnce
  <2>3. CASE s1 = CallStop(s)
    <3>1. s1.stopped /\ s1.stops = 1
      BY <2>1, <2>3, CallStopOnce
    <3>2. ~StopHookDue(s1)
      BY <3>1 DEF StopHookDue
    <3>3. CallStop(s1) = s1
      BY <1>1, <3>2, CallStopOnce
    <3>4. QED
      BY <1>1, <1>2, <3>1, <3>3
  <2>4. QED
    BY <2>2, <2>3
<1>3. CASE ~s.started
  <2>1. ~StopHookDue(s)
    BY <1>3 DEF StopHookDue
  <2>2. s1 = s
    BY <2>1, CallStopOnce
  <2>3. QED
    BY <1>3, <2>1, <2>2, CallStopOnce
<1>4. QED
  BY <1>2, <1>3

LEMMA StopFinish ==
  ASSUME Shape, NEW t \in Turn, Finish(t), StopInv(turn[t])
  PROVE  StopInv(turn'[t])
<1> DEFINE s == turn[t]
           s1 == IF s.cause \in {"llm", "store"} THEN CallStop(s) ELSE s
           s2 == CallStop(s1)
<1>1. DOMAIN s = Fields /\ s.pc = "stopping" /\ ~s.stopped /\ s.stops = 0
  BY DEF Shape, Finish, At, StopInv
<1>2. s.started => s.reason # "none"
  BY <1>1 DEF StopInv
<1>3. s1 = s \/ s1 = CallStop(s)
  OBVIOUS
<1> HIDE DEF s1
<1>4. DOMAIN s2 = Fields /\ s2.started = s.started /\ s2.stops = (IF s.started THEN 1 ELSE 0)
  BY <1>1, <1>2, <1>3, CallStopTwice
<1>5. turn'[t] = [s2 EXCEPT !.pc = "done"]
  BY DEF Shape, Finish, Local, Become, s1
<1> HIDE DEF s2
<1>6. QED
  BY <1>4, <1>5, FieldNames DEF StopInv

LEMMA StepKeepsStop ==
  ASSUME ~ListenersThrow, Shape, NEW t \in Turn, TurnInv(turn[t]),
         StopInv(turn[t]), TurnStep(t)
  PROVE  StopInv(turn'[t])
<1>1. LlmAnswers(t) => StopInv(turn'[t])
  BY LlmAnswersStep, KeptStop DEF LlmAnswers, At
<1>2. PermissionHook(t) => StopInv(turn'[t])
  BY PermissionStep, KeptStop DEF PermissionHook, At
<1>3. ApprovalGiven(t) => StopInv(turn'[t])
  BY ApprovalGivenStep, KeptStop DEF ApprovalGiven, At
<1>4. ApprovalDenied(t) => StopInv(turn'[t])
  BY ApprovalDeniedStep, KeptStop DEF ApprovalDenied, At
<1>5. PreToolUse(t) => StopInv(turn'[t])
  BY PreToolUseStep, KeptStop DEF PreToolUse, At
<1>6. RunTools(t) => StopInv(turn'[t])
  BY RunToolsStep, KeptStop DEF RunTools, At
<1>7. SendMessage(t) => StopInv(turn'[t])
  BY FieldNames DEF Shape, SendMessage, Local, Become, At, StopInv
<1>8. BeginTurn(t) => StopInv(turn'[t])
  BY FieldNames DEF Shape, BeginTurn, Local, Become, At, StopInv
<1>9. StoreUser(t) => StopInv(turn'[t])
  BY FieldNames DEF Shape, StoreUser, Local, Become, At, StopInv, Persist, Throw, Stop
<1>10. ASSUME StartTurn(t) PROVE StopInv(turn'[t])
  <2>1. turn'[t] = [turn[t] EXCEPT !.pc = "iterate", !.started = TRUE]
    BY <1>10 DEF StartTurn, Local, Become, Shape
  <2>2. DOMAIN turn[t] = Fields /\ turn[t].pc = "hooks"
    BY <1>10 DEF Shape, StartTurn, At
  <2>3. QED
    BY <2>1, <2>2, FieldNames DEF StopInv
<1>11. BlockTurn(t) => StopInv(turn'[t])
  BY FieldNames DEF Shape, BlockTurn, Local, Become, At, StopInv
<1>12. ASSUME HitMaxIterations(t) PROVE StopInv(turn'[t])
  <2>1. turn'[t] = Stop(turn[t], "max-iterations")
    BY <1>12 DEF HitMaxIterations, Local, Become, Shape
  <2>2. DOMAIN turn[t] = Fields /\ turn[t].pc = "iterate"
    BY <1>12 DEF Shape, HitMaxIterations, At
  <2>3. QED
    BY <2>1, <2>2, FieldNames DEF StopInv, Stop
<1>13. StartIteration(t) => StopInv(turn'[t])
  BY FieldNames DEF Shape, StartIteration, Local, Become, At, StopInv, Stop
<1>14. ASSUME CallLlm(t) PROVE StopInv(turn'[t])
  <2>1. PICK late : turn'[t] = [turn[t] EXCEPT !.pc = "llm", !.late = late]
    BY <1>14, Zenon DEF CallLlm, Local, Become, Shape
  <2>2. DOMAIN turn[t] = Fields /\ turn[t].pc = "history"
    BY <1>14 DEF Shape, CallLlm, At
  <2>3. QED
    BY <2>1, <2>2, FieldNames DEF StopInv
<1>15. StoreAssistant(t) => StopInv(turn'[t])
  BY FieldNames DEF Shape, StoreAssistant, Local, Become, At, StopInv, Persist, Throw, Stop,
     Dispatch
<1>16. RunPlugins(t) => StopInv(turn'[t])
  BY FieldNames DEF Shape, RunPlugins, Local, Become, At, StopInv, Dispatch, Stop
<1>17. ReadClock(t) => StopInv(turn'[t])
  BY FieldNames DEF Shape, ReadClock, Local, Become, At, StopInv
<1>18. StoreDenied(t) => StopInv(turn'[t])
  BY FieldNames DEF Shape, StoreDenied, Local, Become, At, StopInv, Persist, Throw, Stop, GateNext
<1>19. StoreResult(t) => StopInv(turn'[t])
  BY FieldNames DEF Shape, StoreResult, Local, Become, At, StopInv, Persist, Throw, Stop,
     ResultNext, RunNext
<1>20. AwaitSession(t) => StopInv(turn'[t])
  BY FieldNames DEF Shape, AwaitSession, Local, Become, At, StopInv
<1>21. StoreAwaited(t) => StopInv(turn'[t])
  BY FieldNames DEF Shape, StoreAwaited, Local, Become, At, StopInv, Persist, Throw, Stop, RunNext
<1>22. ASSUME LlmFails(t) PROVE StopInv(turn'[t])
  <2>1. turn'[t] = Throw(turn[t], "llm")
    BY <1>22 DEF LlmFails, Local, Become, Shape
  <2>2. DOMAIN turn[t] = Fields /\ turn[t].pc = "llm"
    BY <1>22 DEF Shape, LlmFails, At
  <2>3. QED
    BY <2>1, <2>2, FieldNames DEF StopInv, Throw, Stop
<1>23. ASSUME SomeSessionEnds(t) PROVE StopInv(turn'[t])
  <2>1. CASE turn'[t].pc = turn[t].pc
    BY <1>23, <2>1, SessionStep DEF StopInv
  <2>2. CASE Kept(turn[t], turn'[t]) /\ turn'[t].pc # turn[t].pc
    <3>1. turn[t].pc = "listening"
      <4>1. PICK p \in turn[t].waits : SessionEnds(t, p)
        BY <1>23 DEF SomeSessionEnds
      <4>2. CASE turn[t].pc # "listening"
        <5>1. turn'[t] = [turn[t] EXCEPT !.ended = @ \cup {p}, !.pc = @]
          BY <4>1, <4>2, Zenon DEF SessionEnds, Local, Become, Shape
        <5>2. QED
          BY <2>2, <5>1, FieldNames DEF Shape
      <4>3. QED
        BY <4>2
    <3>2. QED
      BY <2>2, <3>1, KeptStop
  <2>3. QED
    BY <1>23, <2>1, <2>2, SessionStep
<1>24. Finish(t) => StopInv(turn'[t])
  BY StopFinish
<1>25. ~ListenerThrows(t)
  BY DEF ListenerThrows
<1>26. QED
  BY <1>1, <1>2, <1>3, <1>4, <1>5, <1>6, <1>7, <1>8, <1>9, <1>10, <1>11, <1>12, <1>13, <1>14,
     <1>15, <1>16, <1>17, <1>18, <1>19, <1>20, <1>21, <1>22, <1>23, <1>24, <1>25 DEF TurnStep,
     Progress, Setback

\* The AgentStop hook runs exactly once for a turn that passed AgentStart and never for one that
\* was blocked, whichever way the turn ends, if no listener throws (stopAgentToolLoopTurn).
THEOREM StopHookRunsOnce ==
  ASSUME ~ListenersThrow
  PROVE  Spec => []StopHookOnce
<1> DEFINE Inv == TurnsInv /\ \A t \in Turn : StopInv(turn[t])
<1>1. Init => Inv
  BY InitTurns DEF Init, IdleTurn, StopInv
<1>2. Inv /\ [Next]_vars => Inv'
  <2> SUFFICES ASSUME Inv, [Next]_vars PROVE \A t \in Turn : StopInv(turn'[t])
    BY NextTurns
  <2>1. ASSUME NEW t \in Turn, TurnStep(t), NEW u \in Turn PROVE StopInv(turn'[u])
    <3>1. CASE u = t
      BY <2>1, <3>1, StepKeepsStop DEF TurnsInv
    <3>2. CASE u # t
      <4>1. turn'[u] = turn[u]
        BY <2>1, <3>2, OneTurn DEF TurnsInv, Shape
      <4>2. QED
        BY <4>1
    <3>3. QED
      BY <3>1, <3>2
  <2>2. ASSUME CancelAgent, NEW t \in Turn PROVE StopInv(turn'[t])
    <3>1. turn'[t] = [turn[t] EXCEPT !.told = TRUE] \/ turn'[t] = turn[t]
      BY <2>2 DEF CancelAgent
    <3>2. DOMAIN turn[t] = Fields /\ StopInv(turn[t])
      BY DEF TurnsInv, Shape
    <3>3. QED
      BY <3>1, <3>2, FieldNames DEF StopInv
  <2>3. ASSUME turn' = turn, NEW t \in Turn PROVE StopInv(turn'[t])
    BY <2>3
  <2>4. QED
    BY <2>1, <2>2, <2>3 DEF Next, TurnStep, vars, Tick
<1>3. Inv => StopHookOnce
  BY DEF StopInv, StopHookOnce, At
<1> HIDE DEF Inv
<1>4. QED
  BY <1>1, <1>2, <1>3, PTL DEF Spec

-----------------------------------------------------------------------------
(* Cancellation.                                                           *)

\* A turn that was told of a cancellation finds the flag set when it looks, and asks at most once.
CancelInv(s, flag) ==
  /\ s.late \in Nat /\ s.late <= 1
  /\ s.late > 0 => s.told
  /\ s.told => flag
  /\ s.pc = "history" => s.late = 0
  /\ s.pc = "idle" => ~s.told

LEMMA KeptCancel ==
  ASSUME NEW s, NEW u, NEW flag, CancelInv(s, flag), u.told = s.told, u.late = s.late,
         u.pc \notin {"history", "idle"}
  PROVE  CancelInv(u, flag)
BY DEF CancelInv

LEMMA StepKeepsCancel ==
  ASSUME Shape, NEW t \in Turn, TurnInv(turn[t]),
         CancelInv(turn[t], cancelled), TurnStep(t)
  PROVE  CancelInv(turn'[t], cancelled')
<1>1. ASSUME LlmAnswers(t) PROVE CancelInv(turn'[t], cancelled')
  BY <1>1, LlmAnswersStep, KeptCancel DEF LlmAnswers, Local, Kept, Inside, Gating, Running
<1>2. ASSUME PermissionHook(t) PROVE CancelInv(turn'[t], cancelled')
  BY <1>2, PermissionStep, KeptCancel DEF PermissionHook, Local, Kept, Inside, Gating, Running
<1>3. ASSUME ApprovalGiven(t) PROVE CancelInv(turn'[t], cancelled')
  BY <1>3, ApprovalGivenStep, KeptCancel DEF ApprovalGiven, Local, Kept, Inside, Gating, Running
<1>4. ASSUME ApprovalDenied(t) PROVE CancelInv(turn'[t], cancelled')
  BY <1>4, ApprovalDeniedStep, KeptCancel DEF ApprovalDenied, Local, Kept, Inside, Gating, Running
<1>5. ASSUME PreToolUse(t) PROVE CancelInv(turn'[t], cancelled')
  BY <1>5, PreToolUseStep, KeptCancel DEF PreToolUse, Local, Kept, Inside, Gating, Running
<1>6. ASSUME RunTools(t) PROVE CancelInv(turn'[t], cancelled')
  BY <1>6, RunToolsStep, KeptCancel DEF RunTools, Local, Kept, Inside, Gating, Running
<1>7. ASSUME BeginTurn(t) PROVE CancelInv(turn'[t], cancelled')
  <2>1. /\ turn'[t].told = turn[t].told /\ turn'[t].late = turn[t].late
        /\ turn'[t].pc \notin {"history", "idle"} /\ cancelled' = cancelled
    BY <1>7, FieldNames DEF Shape, BeginTurn, Local, Become, At
  <2>2. QED
    BY <2>1, KeptCancel
<1>8. ASSUME StoreUser(t) PROVE CancelInv(turn'[t], cancelled')
  <2>1. /\ turn'[t].told = turn[t].told /\ turn'[t].late = turn[t].late
        /\ turn'[t].pc \notin {"history", "idle"} /\ cancelled' = cancelled
    BY <1>8, FieldNames DEF Shape, StoreUser, Local, Become, At, Persist, Throw, Stop
  <2>2. QED
    BY <2>1, KeptCancel
<1>9. ASSUME StartTurn(t) PROVE CancelInv(turn'[t], cancelled')
  <2>1. /\ turn'[t].told = turn[t].told /\ turn'[t].late = turn[t].late
        /\ turn'[t].pc \notin {"history", "idle"} /\ cancelled' = cancelled
    BY <1>9, FieldNames DEF Shape, StartTurn, Local, Become, At
  <2>2. QED
    BY <2>1, KeptCancel
<1>10. ASSUME BlockTurn(t) PROVE CancelInv(turn'[t], cancelled')
  <2>1. /\ turn'[t].told = turn[t].told /\ turn'[t].late = turn[t].late
        /\ turn'[t].pc \notin {"history", "idle"} /\ cancelled' = cancelled
    BY <1>10, FieldNames DEF Shape, BlockTurn, Local, Become, At
  <2>2. QED
    BY <2>1, KeptCancel
<1>11. ASSUME HitMaxIterations(t) PROVE CancelInv(turn'[t], cancelled')
  <2>1. /\ turn'[t].told = turn[t].told /\ turn'[t].late = turn[t].late
        /\ turn'[t].pc \notin {"history", "idle"} /\ cancelled' = cancelled
    BY <1>11, FieldNames DEF Shape, HitMaxIterations, Local, Become, At, Stop
  <2>2. QED
    BY <2>1, KeptCancel
<1>12. ASSUME StoreAssistant(t) PROVE CancelInv(turn'[t], cancelled')
  <2>1. /\ turn'[t].told = turn[t].told /\ turn'[t].late = turn[t].late
        /\ turn'[t].pc \notin {"history", "idle"} /\ cancelled' = cancelled
    BY <1>12, FieldNames DEF Shape, StoreAssistant, Local, Become, At, Persist, Throw, Stop,
       Dispatch
  <2>2. QED
    BY <2>1, KeptCancel
<1>13. ASSUME RunPlugins(t) PROVE CancelInv(turn'[t], cancelled')
  <2>1. /\ turn'[t].told = turn[t].told /\ turn'[t].late = turn[t].late
        /\ turn'[t].pc \notin {"history", "idle"} /\ cancelled' = cancelled
    BY <1>13, FieldNames DEF Shape, RunPlugins, Local, Become, At, Dispatch, Stop
  <2>2. QED
    BY <2>1, KeptCancel
<1>14. ASSUME ReadClock(t) PROVE CancelInv(turn'[t], cancelled')
  <2>1. /\ turn'[t].told = turn[t].told /\ turn'[t].late = turn[t].late
        /\ turn'[t].pc \notin {"history", "idle"} /\ cancelled' = cancelled
    BY <1>14, FieldNames DEF Shape, ReadClock, Local, Become, At
  <2>2. QED
    BY <2>1, KeptCancel
<1>15. ASSUME StoreDenied(t) PROVE CancelInv(turn'[t], cancelled')
  <2>1. /\ turn'[t].told = turn[t].told /\ turn'[t].late = turn[t].late
        /\ turn'[t].pc \notin {"history", "idle"} /\ cancelled' = cancelled
    BY <1>15, FieldNames DEF Shape, StoreDenied, Local, Become, At, Persist, Throw, Stop, GateNext
  <2>2. QED
    BY <2>1, KeptCancel
<1>16. ASSUME StoreResult(t) PROVE CancelInv(turn'[t], cancelled')
  <2>1. /\ turn'[t].told = turn[t].told /\ turn'[t].late = turn[t].late
        /\ turn'[t].pc \notin {"history", "idle"} /\ cancelled' = cancelled
    BY <1>16, FieldNames DEF Shape, StoreResult, Local, Become, At, Persist, Throw, Stop,
       ResultNext, RunNext
  <2>2. QED
    BY <2>1, KeptCancel
<1>17. ASSUME AwaitSession(t) PROVE CancelInv(turn'[t], cancelled')
  <2>1. /\ turn'[t].told = turn[t].told /\ turn'[t].late = turn[t].late
        /\ turn'[t].pc \notin {"history", "idle"} /\ cancelled' = cancelled
    BY <1>17, FieldNames DEF Shape, AwaitSession, Local, Become, At
  <2>2. QED
    BY <2>1, KeptCancel
<1>18. ASSUME StoreAwaited(t) PROVE CancelInv(turn'[t], cancelled')
  <2>1. /\ turn'[t].told = turn[t].told /\ turn'[t].late = turn[t].late
        /\ turn'[t].pc \notin {"history", "idle"} /\ cancelled' = cancelled
    BY <1>18, FieldNames DEF Shape, StoreAwaited, Local, Become, At, Persist, Throw, Stop, RunNext
  <2>2. QED
    BY <2>1, KeptCancel
<1>19. ASSUME LlmFails(t) PROVE CancelInv(turn'[t], cancelled')
  <2>1. /\ turn'[t].told = turn[t].told /\ turn'[t].late = turn[t].late
        /\ turn'[t].pc \notin {"history", "idle"} /\ cancelled' = cancelled
    BY <1>19, FieldNames DEF Shape, LlmFails, Local, Become, At, Throw, Stop
  <2>2. QED
    BY <2>1, KeptCancel
<1>20. ASSUME ListenerThrows(t) PROVE CancelInv(turn'[t], cancelled')
  <2>1. /\ turn'[t].told = turn[t].told /\ turn'[t].late = turn[t].late
        /\ turn'[t].pc \notin {"history", "idle"} /\ cancelled' = cancelled
    BY <1>20, FieldNames DEF Shape, ListenerThrows, Local, Become, At
  <2>2. QED
    BY <2>1, KeptCancel
<1>21. ASSUME Finish(t) PROVE CancelInv(turn'[t], cancelled')
  <2>1. /\ turn'[t].told = turn[t].told /\ turn'[t].late = turn[t].late
        /\ turn'[t].pc \notin {"history", "idle"} /\ cancelled' = cancelled
    BY <1>21, FieldNames DEF Shape, Finish, Local, Become, At, CallStop
  <2>2. QED
    BY <2>1, KeptCancel
<1>22. ASSUME SendMessage(t) PROVE CancelInv(turn'[t], cancelled')
  <2>1. turn'[t] = [turn[t] EXCEPT !.pc = "queued"] /\ turn[t].pc = "idle"
    BY <1>22 DEF SendMessage, Become, Shape, At
  <2>2. DOMAIN turn[t] = Fields /\ ~turn[t].told /\ turn[t].late = 0
    BY <2>1 DEF CancelInv, Shape
  <2>3. QED
    BY <2>1, <2>2, FieldNames DEF CancelInv
<1>23. ASSUME StartIteration(t) PROVE CancelInv(turn'[t], cancelled')
  <2> DEFINE s == [turn[t] EXCEPT !.iter = @ + 1]
  <2>1. /\ turn'[t] = IF cancelled THEN Stop(s, "cancelled") ELSE [s EXCEPT !.pc = "history"]
        /\ cancelled' = cancelled
    BY <1>23 DEF StartIteration, IsCancelled, Local, Become, Shape
  <2>2. DOMAIN s = Fields /\ s.told = turn[t].told /\ s.late = turn[t].late
    BY FieldNames DEF Shape
  <2> HIDE DEF s
  <2>3. CASE cancelled
    <3>1. turn'[t].told = s.told /\ turn'[t].late = s.late /\ turn'[t].pc = "stopping"
      BY <2>1, <2>2, <2>3, FieldNames DEF Stop
    <3>2. QED
      BY <2>1, <2>2, <3>1, KeptCancel
  <2>4. CASE ~cancelled
    <3>1. turn'[t].told = s.told /\ turn'[t].late = s.late /\ turn'[t].pc = "history"
      BY <2>1, <2>2, <2>4, FieldNames
    <3>2. s.late = 0 /\ ~s.told
      BY <2>2, <2>4 DEF CancelInv
    <3>3. QED
      BY <3>1, <3>2 DEF CancelInv
  <2>5. QED
    BY <2>3, <2>4
<1>24. ASSUME CallLlm(t) PROVE CancelInv(turn'[t], cancelled')
  <2> DEFINE late == IF turn[t].told THEN turn[t].late + 1 ELSE turn[t].late
  <2>1. /\ turn'[t] = [turn[t] EXCEPT !.pc = "llm", !.late = late]
        /\ cancelled' = cancelled
    BY <1>24 DEF CallLlm, Local, Become, Shape
  <2>2. DOMAIN turn[t] = Fields /\ turn[t].pc = "history" /\ turn[t].late = 0
    BY <1>24 DEF Shape, CallLlm, At, CancelInv
  <2>3. late \in {0, 1} /\ (late = 1 => turn[t].told)
    BY <2>2
  <2> HIDE DEF late
  <2>4. turn'[t].told = turn[t].told /\ turn'[t].late = late /\ turn'[t].pc = "llm"
    BY <2>1, <2>2, FieldNames
  <2>5. QED
    BY <2>1, <2>3, <2>4 DEF CancelInv
<1>25. ASSUME SomeSessionEnds(t) PROVE CancelInv(turn'[t], cancelled')
  <2>1. cancelled' = cancelled
    BY <1>25 DEF SomeSessionEnds, SessionEnds, Local
  <2>2. QED
    BY <1>25, <2>1, SessionStep DEF CancelInv, Kept, Inside, Gating, Running
<1>26. QED
  BY <1>1, <1>2, <1>3, <1>4, <1>5, <1>6, <1>7, <1>8, <1>9, <1>10, <1>11, <1>12, <1>13, <1>14,
     <1>15, <1>16, <1>17, <1>18, <1>19, <1>20, <1>21, <1>22, <1>23, <1>24, <1>25
  DEF TurnStep, Progress, Setback

\* Once it was cancelled, a turn that has the conversation to itself asks the LLM at most once
\* more; a second message would clear the flag (agent_turn_resume).
THEOREM CancellationStops ==
  ASSUME \A t, u \in Turn : t = u
  PROVE  Spec => []CancelStops
<1> DEFINE Inv == TurnsInv /\ \A t \in Turn : CancelInv(turn[t], cancelled)
<1>1. Init => Inv
  BY InitTurns DEF Init, IdleTurn, CancelInv
<1>2. Inv /\ [Next]_vars => Inv'
  <2> SUFFICES ASSUME Inv, [Next]_vars PROVE \A t \in Turn : CancelInv(turn'[t], cancelled')
    BY NextTurns
  <2>1. ASSUME NEW t \in Turn, TurnStep(t) PROVE CancelInv(turn'[t], cancelled')
    BY <2>1, StepKeepsCancel DEF TurnsInv
  <2>2. ASSUME CancelAgent, NEW t \in Turn PROVE CancelInv(turn'[t], cancelled')
    <3>1. /\ cancelled'
          /\ \/ Active(t) /\ turn'[t] = [turn[t] EXCEPT !.told = TRUE]
             \/ ~Active(t) /\ turn'[t] = turn[t]
      BY <2>2 DEF CancelAgent
    <3>2. DOMAIN turn[t] = Fields /\ CancelInv(turn[t], cancelled)
      BY DEF TurnsInv, Shape
    <3>3. QED
      BY <3>1, <3>2, FieldNames DEF CancelInv, Active
  <2>3. ASSUME turn' = turn, cancelled' = cancelled, NEW t \in Turn
        PROVE  CancelInv(turn'[t], cancelled')
    BY <2>3
  <2>4. QED
    BY <2>1, <2>2, <2>3 DEF Next, TurnStep, vars, Tick
<1>3. Inv => CancelStops
  BY DEF CancelInv, CancelStops
<1> HIDE DEF Inv
<1>4. QED
  BY <1>1, <1>2, <1>3, PTL DEF Spec

-----------------------------------------------------------------------------
(* The order messages are read in.                                         *)

Reading == {"history", "llm", "assistant"}
Writing == {"deny", "result", "awaited"}
ClockPcs == Writing \cup {"user", "assistant", "stopping", "done"}

\* A message of the millisecond n or before, with a clock of at most b.
Stamped(m, n, b) == m.lam \in Nat /\ m.lam <= b /\ m.ts \in Nat /\ m.ts <= n

IsResult(m) == m.kind \in {"tool", "await"}

\* ResultsFollowCall of the messages st, which were stored before the clock showed n + 1.
Table(st, n) ==
  /\ n \in Nat
  /\ \E b \in Nat : \A m \in st : Stamped(m, n, b)
  /\ \A a, r \in st :
       a.kind = "assistant" /\ IsResult(r) /\ a.turn = r.turn /\ a.iter = r.iter => Before(a, r)

\* A clock that was read is kept until its message is stored, and is later than that of the
\* assistant message it answers; before an iteration has its assistant message it has no result.
OrderInv(t, s, st, n) ==
  /\ s.lam \in Nat /\ s.ms \in Nat /\ s.ms <= n /\ s.iter \in Nat
  /\ s.pc \notin ClockPcs => s.lam = 0
  /\ s.pc \in Writing /\ s.lam # 0 =>
       \A a \in st : a.kind = "assistant" /\ a.turn = t /\ a.iter = s.iter => a.lam < s.lam
  /\ \A r \in st : IsResult(r) /\ r.turn = t =>
       /\ r.iter \in Nat /\ r.iter <= s.iter
       /\ s.pc \in Reading => r.iter < s.iter

\* A table with a bound on its clocks has a latest one.
LEMMA MaxLamportIsMax ==
  ASSUME Table(store, now)
  PROVE  MaxLamport \in Nat /\ \A m \in store : m.lam <= MaxLamport
<1>1. PICK top \in Nat : \A m \in store : Stamped(m, now, top)
  BY DEF Table
<1>2. CASE store = {}
  BY <1>2 DEF MaxLamport
<1>3. CASE store # {}
  <2> DEFINE B == {b \in Nat : \A m \in store : m.lam <= b}
             b == Least(B)
  <2>1. top \in B /\ B \subseteq Nat
    BY <1>1 DEF Stamped
  <2>2. b \in B
    BY <2>1, LeastIn
  <2>3. \A c \in B : b <= c
    <3>1. \E x \in B : \A y \in B : x <= y
      BY <2>1, LeastOf
    <3>2. QED
      BY <3>1 DEF Least
  <2> HIDE DEF b
  <2>4. \E m \in store : m.lam = b
    <3> SUFFICES ASSUME \A m \in store : m.lam # b PROVE FALSE
      OBVIOUS
    <3>1. \A m \in store : m.lam \in Nat /\ m.lam <= b
      BY <1>1, <2>2 DEF Stamped
    <3>2. b \in Nat /\ b # 0
      BY <1>3, <2>2, <3>1
    <3>3. b - 1 \in B
      BY <3>1, <3>2
    <3>4. QED
      BY <2>3, <3>2, <3>3
  <2>5. b \in {m.lam : m \in store} /\ \A m \in store : m.lam <= b
    BY <2>2, <2>4
  <2>6. MaxLamport \in {m.lam : m \in store} /\ \A m \in store : m.lam <= MaxLamport
    BY <1>3, <2>5 DEF MaxLamport
  <2>7. QED
    BY <1>1, <2>6 DEF Stamped
<1>4. QED
  BY <1>2, <1>3

\* u follows s without a message, a clock read or a new iteration.
Quiet(s, u) ==
  /\ u.iter = s.iter /\ u.ms = s.ms /\ u.lam = s.lam
  /\ u.pc \in Reading => s.pc \in Reading
  /\ u.pc = s.pc \/ u.pc \in Ending \/ s.pc \notin ClockPcs

\* u follows s with its message stored.
Stored(s, u) ==
  /\ u.iter = s.iter /\ u.ms = s.ms /\ u.lam = 0
  /\ u.pc \notin Reading

LEMMA QuietKeeps ==
  ASSUME NEW t, NEW s, NEW u, NEW st, NEW n, OrderInv(t, s, st, n), Quiet(s, u)
  PROVE  OrderInv(t, u, st, n)
BY DEF OrderInv, Quiet, Ending, ClockPcs, Writing, Reading

LEMMA StoredKeeps ==
  ASSUME NEW t, NEW s, NEW u, NEW st, NEW n, OrderInv(t, s, st, n), Stored(s, u), NEW M,
         \A m \in M : IsResult(m) => m.iter = s.iter
  PROVE  OrderInv(t, u, st \cup M, n)
BY DEF OrderInv, Stored, Reading

LEMMA OthersKeep ==
  ASSUME NEW t, NEW s, NEW st, NEW n, OrderInv(t, s, st, n), NEW M,
         \A m \in M : m.turn # t
  PROVE  OrderInv(t, s, st \cup M, n)
BY DEF OrderInv

\* Messages of this millisecond that are neither calls nor results.
LEMMA TableWithOthers ==
  ASSUME NEW st, NEW n, Table(st, n), NEW M,
         NEW c \in Nat, \A m \in M : Stamped(m, n, c),
         \A m \in M : m.kind # "assistant" /\ ~IsResult(m)
  PROVE  Table(st \cup M, n)
<1>1. PICK b \in Nat : \A m \in st : Stamped(m, n, b)
  BY DEF Table
<1> DEFINE d == IF b < c THEN c ELSE b
<1>2. d \in Nat /\ \A m \in st \cup M : Stamped(m, n, d)
  BY <1>1 DEF Stamped
<1>3. QED
  BY <1>2 DEF Table

\* The assistant message of an iteration that has no result yet.
LEMMA TableWithCall ==
  ASSUME NEW st, NEW n, Table(st, n), NEW m, m.kind = "assistant",
         NEW c \in Nat, Stamped(m, n, c),
         \A r \in st : IsResult(r) /\ r.turn = m.turn => r.iter # m.iter
  PROVE  Table(st \cup {m}, n)
<1>1. PICK b \in Nat : \A x \in st : Stamped(x, n, b)
  BY DEF Table
<1> DEFINE d == IF b < c THEN c ELSE b
<1>2. d \in Nat /\ \A x \in st \cup {m} : Stamped(x, n, d)
  BY <1>1 DEF Stamped
<1>3. ~IsResult(m)
  BY DEF IsResult
<1>4. QED
  BY <1>2, <1>3 DEF Table

\* A result whose clock is later than that of its call.
LEMMA TableWithResult ==
  ASSUME NEW st, NEW n, Table(st, n), NEW m, IsResult(m), m.ts = n, m.lam \in Nat,
         \A a \in st : a.kind = "assistant" /\ a.turn = m.turn /\ a.iter = m.iter
                         => a.lam < m.lam
  PROVE  Table(st \cup {m}, n)
<1>1. PICK b \in Nat : \A x \in st : Stamped(x, n, b)
  BY DEF Table
<1> DEFINE d == IF b < m.lam THEN m.lam ELSE b
<1>2. d \in Nat /\ \A x \in st \cup {m} : Stamped(x, n, d)
  BY <1>1 DEF Stamped, Table
<1>3. m.kind # "assistant"
  BY DEF IsResult
<1>4. ASSUME NEW a \in st, a.kind = "assistant", a.turn = m.turn, a.iter = m.iter
      PROVE  Before(a, m)
  <2>1. a.ts \in Nat /\ a.ts <= n /\ n \in Nat /\ a.lam < m.lam
    BY <1>1, <1>4 DEF Stamped, Table
  <2>2. QED
    BY <2>1 DEF Before
<1>5. QED
  BY <1>2, <1>3, <1>4 DEF Table

\* What a step of turn t comes to.
OrderStep(t) ==
  /\ now' = now
  /\ OrderInv(t, turn'[t], store', now)
  /\ Table(store', now)
  /\ \E M : store' = store \cup M /\ \A m \in M : m.turn = t

Sorted(t) == Shape /\ Table(store, now) /\ OrderInv(t, turn[t], store, now)

LEMMA UnstoredStep ==
  ASSUME NEW t \in Turn, Sorted(t), store' = store, now' = now,
         OrderInv(t, turn'[t], store, now)
  PROVE  OrderStep(t)
<1>1. \E M : store' = store \cup M /\ \A m \in M : m.turn = t
  <2> DEFINE M == {}
  <2>1. store' = store \cup M /\ \A m \in M : m.turn = t
    OBVIOUS
  <2> HIDE DEF M
  <2>2. QED
    BY <2>1
<1>2. QED
  BY <1>1 DEF OrderStep, Sorted

LEMMA QuietStep ==
  ASSUME NEW t \in Turn, Sorted(t), Quiet(turn[t], turn'[t]), store' = store, now' = now
  PROVE  OrderStep(t)
BY QuietKeeps, UnstoredStep DEF Sorted

LEMMA StoredStep ==
  ASSUME NEW t \in Turn, Sorted(t), NEW M, Table(store \cup M, now),
         Stored(turn[t], turn'[t]), store' = store \cup M, now' = now,
         \A m \in M : m.turn = t /\ m.iter = turn[t].iter
  PROVE  OrderStep(t)
<1>1. OrderInv(t, turn'[t], store', now)
  BY StoredKeeps DEF Sorted
<1>2. \E N : store' = store \cup N /\ \A m \in N : m.turn = t
  BY Zenon
<1>3. QED
  BY <1>1, <1>2 DEF OrderStep

\* appendMessage stores a message or throws.
LEMMA PersistStep ==
  ASSUME NEW t \in Turn, Sorted(t), NEW m, NEW s, Persist(t, m, s),
         m.turn = t, m.iter = turn[t].iter, Table(store \cup {m}, now), Stored(turn[t], s)
  PROVE  OrderStep(t)
<1>1. DOMAIN turn[t] = Fields /\ now' = now
  BY DEF Sorted, Shape, Persist
<1>2. CASE Taken(m)
  <2>1. store' = store /\ turn'[t] = Throw(turn[t], "store")
    BY <1>2 DEF Persist, Become, Sorted, Shape
  <2>2. Quiet(turn[t], turn'[t])
    BY <1>1, <2>1, FieldNames DEF Throw, Stop, Quiet, Ending, Reading
  <2>3. QED
    BY <1>1, <2>1, <2>2, QuietStep
<1>3. CASE ~Taken(m)
  <2>1. store' = store \cup {m} /\ turn'[t] = s
    BY <1>3 DEF Persist, Become, Sorted, Shape
  <2>2. \A x \in {m} : x.turn = t /\ x.iter = turn[t].iter
    OBVIOUS
  <2> DEFINE M == {m}
  <2>3. /\ store' = store \cup M /\ Table(store \cup M, now)
        /\ \A x \in M : x.turn = t /\ x.iter = turn[t].iter
        /\ Stored(turn[t], turn'[t])
    BY <2>1, <2>2
  <2> HIDE DEF M
  <2>4. QED
    BY <1>1, <2>3, StoredStep
<1>4. QED
  BY <1>2, <1>3

\* The steps that neither store a message nor read a clock nor start an iteration.
QuietKind(t) ==
  \/ SendMessage(t) \/ StartTurn(t) \/ BlockTurn(t) \/ HitMaxIterations(t) \/ CallLlm(t)
  \/ LlmFails(t) \/ PermissionHook(t) \/ ApprovalGiven(t) \/ ApprovalDenied(t) \/ PreToolUse(t)
  \/ RunTools(t) \/ AwaitSession(t) \/ SomeSessionEnds(t) \/ ListenerThrows(t) \/ Finish(t)

LEMMA GateNextQuiet ==
  ASSUME NEW s, DOMAIN s = Fields, NEW ok
  PROVE  /\ GateNext(s, ok).iter = s.iter /\ GateNext(s, ok).ms = s.ms
         /\ GateNext(s, ok).lam = s.lam /\ GateNext(s, ok).pc \in {"gate", "iterate", "run"}
BY FieldNames DEF GateNext

LEMMA QuietKinds ==
  ASSUME NEW t \in Turn, Shape, TurnInv(turn[t]), QuietKind(t)
  PROVE  Quiet(turn[t], turn'[t]) /\ store' = store /\ now' = now
<1> DEFINE s == turn[t]
           u == turn'[t]
<1> USE DEF Quiet, Reading, Ending, ClockPcs, Writing
<1>0. DOMAIN s = Fields
  BY DEF Shape
<1>1. store' = store /\ now' = now
  BY DEF QuietKind, SendMessage, StartTurn, BlockTurn, HitMaxIterations, CallLlm, LlmFails,
         PermissionHook, ApprovalGiven, ApprovalDenied, PreToolUse, RunTools, AwaitSession,
         SomeSessionEnds, SessionEnds, ListenerThrows, Finish, Local
<1>2. SendMessage(t) => Quiet(s, u)
  BY <1>0, FieldNames DEF Shape, SendMessage, Become, At
<1>3. StartTurn(t) => Quiet(s, u)
  BY <1>0, FieldNames DEF Shape, StartTurn, Local, Become, At
<1>4. BlockTurn(t) => Quiet(s, u)
  BY <1>0, FieldNames DEF Shape, BlockTurn, Local, Become, At
<1>5. ASSUME HitMaxIterations(t) PROVE Quiet(s, u)
  <2>1. u = Stop(s, "max-iterations") /\ s.pc = "iterate"
    BY <1>5 DEF HitMaxIterations, Local, Become, Shape, At
  <2> HIDE DEF s, u
  <2>2. u.iter = s.iter /\ u.ms = s.ms /\ u.lam = s.lam /\ u.pc = "stopping"
    BY <1>0, <2>1, FieldNames DEF Stop
  <2>3. QED
    BY <2>1, <2>2
<1>6. ASSUME CallLlm(t) PROVE Quiet(s, u)
  <2>1. PICK late : u = [s EXCEPT !.pc = "llm", !.late = late]
    BY <1>6, Zenon DEF CallLlm, Local, Become, Shape
  <2>2. QED
    BY <1>0, <1>6, <2>1, FieldNames DEF CallLlm, At
<1>7. ASSUME LlmFails(t) PROVE Quiet(s, u)
  <2>1. u = Throw(s, "llm")
    BY <1>7 DEF LlmFails, Local, Become, Shape
  <2>2. u.iter = s.iter /\ u.ms = s.ms /\ u.lam = s.lam /\ u.pc = "stopping"
    BY <1>0, <2>1, FieldNames DEF Throw, Stop
  <2>3. QED
    BY <2>2
<1>8. ASSUME PermissionHook(t) PROVE Quiet(s, u)
  <2> DEFINE act == CheckPermission(ToolOf[CurrentCall(t)])
  <2>1. s.pc = "gate" /\ act \in Actions
    BY <1>8, CurrentIsACall DEF PermissionHook, At, TurnInv, CallsInv, Gating
  <2>2. u = CASE act = "allow" -> [s EXCEPT !.pc = "hook"]
              [] act = "ask" -> [s EXCEPT !.pc = "askPermission"]
              [] act = "deny" -> Refuse(t, s)
    BY <1>8 DEF PermissionHook, Local, Become, Shape
  <2> HIDE DEF act
  <2>3. u \in {[s EXCEPT !.pc = "hook"], [s EXCEPT !.pc = "askPermission"], Refuse(t, s)}
    BY <2>1, <2>2 DEF Actions
  <2>4. QED
    BY <1>0, <2>1, <2>3, FieldNames DEF Refuse
<1>9. ASSUME ApprovalGiven(t) PROVE Quiet(s, u)
  <2> DEFINE a == [s EXCEPT !.approved = @ \cup {Shown(t)}]
  <2>1. DOMAIN a = Fields /\ a.iter = s.iter /\ a.ms = s.ms /\ a.lam = s.lam
    BY <1>0, FieldNames
  <2>2. s.pc \in {"askPermission", "askHook"} /\ (u = [a EXCEPT !.pc = "hook"] \/ u = Admit(t, a))
    BY <1>9 DEF ApprovalGiven, Local, Become, Shape, At
  <2> HIDE DEF a, s, u
  <2>3. CASE u = [a EXCEPT !.pc = "hook"]
    BY <2>1, <2>2, <2>3, FieldNames
  <2>4. CASE u = Admit(t, a)
    BY <2>1, <2>2, <2>4, GateNextQuiet DEF Admit
  <2>5. QED
    BY <2>2, <2>3, <2>4
<1>10. ASSUME ApprovalDenied(t) PROVE Quiet(s, u)
  <2>1. s.pc \in {"askPermission", "askHook"} /\ u = Refuse(t, s)
    BY <1>10 DEF ApprovalDenied, Local, Become, Shape, At
  <2>2. QED
    BY <1>0, <2>1, FieldNames DEF Refuse
<1>11. ASSUME PreToolUse(t) PROVE Quiet(s, u)
  <2>1. s.pc = "hook" /\ CurrentCall(t) \in Call
    BY <1>11, CurrentIsACall DEF PreToolUse, At, TurnInv, CallsInv, Gating
  <2>2. PICK a \in HookAnswers[CurrentCall(t)] :
          LET c == [s EXCEPT !.calls[Current(t)] = a.call] IN
          u = CASE a.act = "allow" -> Admit(t, c)
                [] a.act = "ask" -> [c EXCEPT !.pc = "askHook"]
                [] a.act = "deny" -> Refuse(t, c)
    BY <1>11 DEF PreToolUse, Local, Become, Shape
  <2>3. a.act \in Actions
    BY <2>1, TurnAssumption
  <2> DEFINE c == [s EXCEPT !.calls[Current(t)] = a.call]
  <2>4. DOMAIN c = Fields /\ c.iter = s.iter /\ c.ms = s.ms /\ c.lam = s.lam
    BY <1>0, FieldNames
  <2>5. u = CASE a.act = "allow" -> Admit(t, c)
              [] a.act = "ask" -> [c EXCEPT !.pc = "askHook"]
              [] a.act = "deny" -> Refuse(t, c)
    BY <2>2
  <2> HIDE DEF c
  <2>6. u \in {Admit(t, c), [c EXCEPT !.pc = "askHook"], Refuse(t, c)}
    BY <2>3, <2>5 DEF Actions
  <2> HIDE DEF s, u
  <2>7. CASE u = Admit(t, c)
    BY <2>1, <2>4, <2>7, GateNextQuiet DEF Admit
  <2>8. CASE u = [c EXCEPT !.pc = "askHook"] \/ u = Refuse(t, c)
    BY <2>1, <2>4, <2>8, FieldNames DEF Refuse
  <2>9. QED
    BY <2>6, <2>7, <2>8
<1>12. ASSUME RunTools(t) PROVE Quiet(s, u)
  <2> DEFINE batch == IF s.par THEN s.todo ELSE {Current(t)}
             run == {p \in batch : ~DoomLoop(s, batch, p)}
             started == {[iter |-> s.iter, pos |-> p, call |-> s.calls[p],
                         written |-> s.written[p]] : p \in run}
  <2>1. PICK waits \in SUBSET {p \in run : ToolOf[s.calls[p]] \in AwaitingTools} :
          u = [s EXCEPT !.pc = "result", !.todo = @ \ batch, !.batch = batch, !.waits = waits,
                        !.recent = Pushed(s, batch), !.ran = @ \cup started]
    BY <1>12 DEF RunTools, Local, Become, Shape
  <2>2. s.pc = "run"
    BY <1>12 DEF RunTools, At
  <2> HIDE DEF batch, run, started
  <2>3. QED
    BY <1>0, <2>1, <2>2, FieldNames
<1>13. AwaitSession(t) => Quiet(s, u)
  BY <1>0, FieldNames DEF Shape, AwaitSession, Local, Become, At
<1>14. SomeSessionEnds(t) => Quiet(s, u)
  BY <1>0, FieldNames DEF Shape, SomeSessionEnds, SessionEnds, Local, Become
<1>15. ListenerThrows(t) => Quiet(s, u)
  BY <1>0, FieldNames DEF Shape, ListenerThrows, Local, Become
<1>16. ASSUME Finish(t) PROVE Quiet(s, u)
  <2> DEFINE s1 == IF s.cause \in {"llm", "store"} THEN CallStop(s) ELSE s
             s2 == CallStop(s1)
  <2>1. DOMAIN s1 = Fields /\ s1.iter = s.iter /\ s1.ms = s.ms /\ s1.lam = s.lam
    BY <1>0, FieldNames DEF CallStop
  <2> HIDE DEF s1
  <2>2. DOMAIN s2 = Fields /\ s2.iter = s.iter /\ s2.ms = s.ms /\ s2.lam = s.lam
    BY <2>1, FieldNames DEF CallStop
  <2>3. u = [s2 EXCEPT !.pc = "done"]
    BY <1>16 DEF Finish, Local, Become, Shape, s1
  <2> HIDE DEF s, u, s2
  <2>4. QED
    BY <2>2, <2>3, FieldNames
<1>17. QED
  BY <1>1, <1>2, <1>3, <1>4, <1>5, <1>6, <1>7, <1>8, <1>9, <1>10, <1>11, <1>12, <1>13, <1>14,
     <1>15, <1>16 DEF QuietKind

LEMMA StepKeepsOrder ==
  ASSUME NEW t \in Turn, Sorted(t), TurnInv(turn[t]), TurnStep(t)
  PROVE  OrderStep(t)
<1> DEFINE s == turn[t]
           u == turn'[t]
<1>0. /\ DOMAIN s = Fields /\ now \in Nat /\ s.iter \in Nat
      /\ s.lam \in Nat /\ s.ms \in Nat /\ s.ms <= now
  BY DEF Sorted, Shape, OrderInv, Table
<1>1. QuietKind(t) => OrderStep(t)
  BY QuietKinds, QuietStep DEF Sorted
<1>2. MaxLamport \in Nat /\ NextLamport \in Nat /\ \A m \in store : m.lam < NextLamport
  <2>1. \A m \in store : m.lam \in Nat
    BY DEF Sorted, Table, Stamped
  <2>2. QED
    BY <2>1, MaxLamportIsMax DEF Sorted, NextLamport
<1>3. ASSUME BeginTurn(t) PROVE OrderStep(t)
  <2>1. /\ u.pc = "user" /\ u.iter = s.iter /\ u.ms = now /\ u.lam = NextLamport
        /\ store' = store /\ now' = now
    BY <1>0, <1>3, FieldNames DEF BeginTurn, Local, Become, Sorted, Shape
  <2>2. OrderInv(t, u, store, now)
    BY <1>0, <1>2, <2>1 DEF Sorted, OrderInv, Reading, Writing, ClockPcs
  <2>3. QED
    BY <2>1, <2>2, UnstoredStep
<1>4. ASSUME LlmAnswers(t) PROVE OrderStep(t)
  <2>1. PICK r \in Responses :
          u = [s EXCEPT !.pc = "assistant", !.calls = r.calls,
                        !.written = r.calls, !.par = r.par, !.ms = now, !.lam = NextLamport]
    BY <1>4 DEF LlmAnswers, Local, Become, Sorted, Shape
  <2>2. /\ u.pc = "assistant" /\ u.iter = s.iter /\ u.ms = now /\ u.lam = NextLamport
        /\ s.pc = "llm" /\ store' = store /\ now' = now
    BY <1>0, <1>4, <2>1, FieldNames DEF LlmAnswers, Local, At
  <2>3. OrderInv(t, u, store, now)
    BY <1>0, <1>2, <2>2 DEF Sorted, OrderInv, Reading, Writing, ClockPcs
  <2>4. QED
    BY <2>2, <2>3, UnstoredStep
<1>5. ASSUME StartIteration(t) PROVE OrderStep(t)
  <2>1. /\ u.pc \in {"history", "stopping"} /\ u.iter = s.iter + 1 /\ u.ms = s.ms
        /\ u.lam = s.lam /\ s.pc = "iterate" /\ store' = store /\ now' = now
    BY <1>0, <1>5, FieldNames DEF StartIteration, Stop, Local, Become, At, Sorted, Shape
  <2>2. OrderInv(t, u, store, now)
    BY <1>0, <2>1 DEF Sorted, OrderInv, Reading, Writing, ClockPcs
  <2>3. QED
    BY <2>1, <2>2, UnstoredStep
<1>6. ASSUME ReadClock(t) PROVE OrderStep(t)
  <2>1. /\ u.pc = s.pc /\ u.iter = s.iter /\ u.ms = s.ms /\ u.lam = NextLamport
        /\ s.pc \in Writing /\ store' = store /\ now' = now
    BY <1>0, <1>6, FieldNames DEF ReadClock, Local, Become, Sorted, Shape, Writing
  <2>2. OrderInv(t, u, store, now)
    BY <1>0, <1>2, <2>1 DEF Sorted, OrderInv, Reading, Writing, ClockPcs
  <2>3. QED
    BY <2>1, <2>2, UnstoredStep
<1>7. ASSUME StoreUser(t) PROVE OrderStep(t)
  <2> DEFINE m == NewMessage(t, "user", NoTool, s.ms, 0, <<>>)
             v == [s EXCEPT !.pc = "hooks", !.lam = 0]
  <2>1. Persist(t, m, v)
    BY <1>7 DEF StoreUser
  <2>2. m.kind = "user" /\ m.turn = t /\ m.iter = s.iter /\ m.lam = s.lam /\ m.ts = s.ms
    BY DEF NewMessage
  <2>3. Stored(s, v)
    BY <1>0, FieldNames DEF Stored, Reading
  <2> DEFINE M == {m}
  <2> HIDE DEF m, v
  <2>4. \A x \in M : Stamped(x, now, s.lam) /\ x.kind # "assistant" /\ ~IsResult(x)
    BY <1>0, <2>2 DEF Stamped, IsResult
  <2> HIDE DEF M
  <2>5. Table(store \cup M, now)
    BY <1>0, <2>4, TableWithOthers DEF Sorted
  <2>6. QED
    BY <2>1, <2>2, <2>3, <2>5, PersistStep DEF M
<1>8. ASSUME StoreAssistant(t) PROVE OrderStep(t)
  <2> DEFINE m == NewMessage(t, "assistant", NoTool, s.ms, 0, s.calls)
             w == [s EXCEPT !.lam = 0, !.ended = {}]
             v == IF HasPlugins THEN [w EXCEPT !.pc = "plugins"] ELSE Dispatch(w, {})
  <2>1. Persist(t, m, v) /\ s.pc = "assistant"
    BY <1>8 DEF StoreAssistant, At
  <2>2. m.kind = "assistant" /\ m.turn = t /\ m.iter = s.iter /\ m.lam = s.lam /\ m.ts = s.ms
    BY DEF NewMessage
  <2>3. DOMAIN w = Fields /\ w.iter = s.iter /\ w.ms = s.ms /\ w.lam = 0
    BY <1>0, FieldNames
  <2> HIDE DEF m, w
  <2>4. Stored(s, v)
    BY <2>3, FieldNames DEF Stored, Reading, Dispatch, Stop
  <2> HIDE DEF v
  <2>5. Stamped(m, now, s.lam)
    BY <1>0, <2>2 DEF Stamped
  <2>6. \A r \in store : IsResult(r) /\ r.turn = m.turn => r.iter # m.iter
    BY <1>0, <2>1, <2>2 DEF Sorted, OrderInv, Reading
  <2>7. Table(store \cup {m}, now)
    BY <1>0, <2>2, <2>5, <2>6, TableWithCall DEF Sorted
  <2>8. QED
    BY <2>1, <2>2, <2>4, <2>7, PersistStep
<1>9. ASSUME RunPlugins(t) PROVE OrderStep(t)
  <2>1. PICK H \in PluginChoices(s), target \in {"none", "self", "human"} :
          /\ store' = store \cup {PluginResult(t, p) : p \in H}
          /\ u = CASE target = "human" -> Stop(s, "completed")
                   [] target = "self" -> [s EXCEPT !.pc = "iterate"]
                   [] target = "none" -> Dispatch(s, Handled(s, H))
    BY <1>9 DEF RunPlugins, Become, Sorted, Shape
  <2>2. s.pc = "plugins" /\ now' = now /\ s.lam = 0
    BY <1>9 DEF RunPlugins, At, Sorted, OrderInv, ClockPcs, Writing
  <2>3. u \in {Stop(s, "completed"), [s EXCEPT !.pc = "iterate"], Dispatch(s, Handled(s, H))}
    BY <2>1
  <2>4. Stored(s, u)
    BY <1>0, <2>2, <2>3, FieldNames DEF Stored, Reading, Dispatch, Stop
  <2> DEFINE M == {PluginResult(t, p) : p \in H}
  <2>5. \A m \in M : m.kind = "plugin" /\ m.turn = t /\ m.iter = s.iter /\ m.lam = 0 /\ m.ts = now
    BY DEF PluginResult, NewMessage
  <2>6. store' = store \cup M
    BY <2>1
  <2> HIDE DEF M
  <2>7. \A m \in M : Stamped(m, now, 0) /\ m.kind # "assistant" /\ ~IsResult(m)
    BY <1>0, <2>5 DEF Stamped, IsResult
  <2>8. Table(store \cup M, now)
    BY <2>7, TableWithOthers DEF Sorted
  <2>9. QED
    BY <2>2, <2>4, <2>5, <2>6, <2>8, StoredStep
<1>10. ASSUME NEW m, NEW v, Persist(t, m, v), s.pc \in Writing, s.lam # 0, IsResult(m),
              m.turn = t, m.iter = s.iter, m.lam = s.lam, m.ts = now, Stored(s, v)
       PROVE  OrderStep(t)
  <2>1. \A a \in store : a.kind = "assistant" /\ a.turn = m.turn /\ a.iter = m.iter
                           => a.lam < m.lam
    BY <1>10 DEF Sorted, OrderInv
  <2>2. Table(store \cup {m}, now)
    BY <1>0, <1>10, <2>1, TableWithResult DEF Sorted
  <2>3. QED
    BY <1>10, <2>2, PersistStep
<1>11. ASSUME StoreDenied(t) PROVE OrderStep(t)
  <2> DEFINE m == NewMessage(t, "tool", ToolOf[CurrentCall(t)], now, Current(t), <<>>)
             w == [s EXCEPT !.lam = 0]
             v == GateNext(w, s.ok)
  <2>1. Persist(t, m, v) /\ s.pc \in Writing /\ s.lam # 0
    BY <1>11 DEF StoreDenied, At, Writing
  <2>2. IsResult(m) /\ m.turn = t /\ m.iter = s.iter /\ m.lam = s.lam /\ m.ts = now
    BY DEF NewMessage, IsResult
  <2>3. DOMAIN w = Fields /\ w.iter = s.iter /\ w.ms = s.ms /\ w.lam = 0
    BY <1>0, FieldNames
  <2> HIDE DEF m, w
  <2>4. Stored(s, v)
    BY <2>3, FieldNames DEF Stored, Reading, GateNext
  <2> HIDE DEF v
  <2>5. QED
    BY <1>10, <2>1, <2>2, <2>4
<1>12. ASSUME StoreResult(t) PROVE OrderStep(t)
  <2> DEFINE p == Least(s.batch)
             m == NewMessage(t, "tool", ToolOf[s.calls[p]], now, p, <<>>)
             w == [s EXCEPT !.lam = 0, !.batch = @ \ {p}]
             v == ResultNext(w)
  <2>1. Persist(t, m, v) /\ s.pc = "result" /\ s.lam # 0
    BY <1>12 DEF StoreResult, At
  <2>2. IsResult(m) /\ m.turn = t /\ m.iter = s.iter /\ m.lam = s.lam /\ m.ts = now
    BY DEF NewMessage, IsResult
  <2>3. DOMAIN w = Fields /\ w.iter = s.iter /\ w.ms = s.ms /\ w.lam = 0 /\ w.pc = s.pc
    BY <1>0, FieldNames
  <2> HIDE DEF m, w
  <2>4. Stored(s, v)
    BY <2>1, <2>3, FieldNames DEF Stored, Reading, ResultNext, RunNext
  <2> HIDE DEF v
  <2>5. QED
    BY <1>10, <2>1, <2>2, <2>4 DEF Writing
<1>13. ASSUME StoreAwaited(t) PROVE OrderStep(t)
  <2> DEFINE p == Least(s.waits)
             m == NewMessage(t, "await", ToolOf[s.calls[p]], now, p, <<>>)
             w == [s EXCEPT !.lam = 0, !.waits = @ \ {p}]
             v == IF w.waits # {} THEN [w EXCEPT !.pc = "await"] ELSE RunNext(w)
  <2>1. Persist(t, m, v) /\ s.pc = "awaited" /\ s.lam # 0
    BY <1>13 DEF StoreAwaited, At
  <2>2. IsResult(m) /\ m.turn = t /\ m.iter = s.iter /\ m.lam = s.lam /\ m.ts = now
    BY DEF NewMessage, IsResult
  <2>3. DOMAIN w = Fields /\ w.iter = s.iter /\ w.ms = s.ms /\ w.lam = 0
    BY <1>0, FieldNames
  <2> HIDE DEF m, w
  <2>4. Stored(s, v)
    BY <2>3, FieldNames DEF Stored, Reading, RunNext
  <2> HIDE DEF v
  <2>5. QED
    BY <1>10, <2>1, <2>2, <2>4 DEF Writing
<1>14. QED
  BY <1>1, <1>3, <1>4, <1>5, <1>6, <1>7, <1>8, <1>9, <1>11, <1>12, <1>13
  DEF TurnStep, Progress, Setback, QuietKind

OrderedInv ==
  /\ TurnsInv
  /\ Table(store, now)
  /\ \A t \in Turn : OrderInv(t, turn[t], store, now)

\* In the order getMessages reads them a result the gate or the runner stored comes after the
\* assistant message that asked for it, whatever other turns of the conversation store in the
\* same millisecond.
THEOREM ResultsComeAfterCalls ==
  Spec => []ResultsFollowCall
<1>1. Init => OrderedInv
  <2> SUFFICES ASSUME Init PROVE OrderedInv
    OBVIOUS
  <2>1. Table(store, now)
    BY DEF Init, Table
  <2>2. ASSUME NEW t \in Turn PROVE OrderInv(t, turn[t], store, now)
    BY DEF Init, IdleTurn, OrderInv, Writing, Reading
  <2>3. QED
    BY <2>1, <2>2, InitTurns DEF OrderedInv
<1>2. OrderedInv /\ [Next]_vars => OrderedInv'
  <2> SUFFICES ASSUME OrderedInv, [Next]_vars
               PROVE  Table(store', now') /\ \A t \in Turn : OrderInv(t, turn'[t], store', now')
    BY NextTurns DEF OrderedInv
  <2>1. ASSUME NEW t \in Turn, TurnStep(t)
        PROVE  Table(store', now') /\ \A u \in Turn : OrderInv(u, turn'[u], store', now')
    <3>1. OrderStep(t)
      BY <2>1, StepKeepsOrder DEF OrderedInv, TurnsInv, Sorted
    <3>2. PICK M : store' = store \cup M /\ \A m \in M : m.turn = t
      BY <3>1 DEF OrderStep
    <3>3. ASSUME NEW u \in Turn, u # t PROVE OrderInv(u, turn'[u], store', now')
      <4>1. turn'[u] = turn[u] /\ now' = now
        BY <2>1, <3>1, <3>3, OneTurn DEF OrderedInv, TurnsInv, Shape, OrderStep
      <4>2. \A m \in M : m.turn # u
        BY <3>2, <3>3
      <4>3. OrderInv(u, turn[u], store \cup M, now)
        BY <4>2, OthersKeep DEF OrderedInv
      <4>4. QED
        BY <3>2, <4>1, <4>3
    <3>4. QED
      BY <3>1, <3>3 DEF OrderStep
  <2>2. ASSUME CancelAgent
        PROVE  Table(store', now') /\ \A t \in Turn : OrderInv(t, turn'[t], store', now')
    <3>1. store' = store /\ now' = now
      BY <2>2 DEF CancelAgent
    <3>2. ASSUME NEW t \in Turn PROVE OrderInv(t, turn'[t], store', now')
      <4>1. turn'[t] = [turn[t] EXCEPT !.told = TRUE] \/ turn'[t] = turn[t]
        BY <2>2 DEF CancelAgent
      <4>2. Quiet(turn[t], turn'[t])
        BY <4>1, FieldNames DEF Quiet, OrderedInv, TurnsInv, Shape
      <4>3. QED
        BY <3>1, <4>2, QuietKeeps DEF OrderedInv
    <3>3. QED
      BY <3>1, <3>2 DEF OrderedInv
  <2>3. ASSUME Tick
        PROVE  Table(store', now') /\ \A t \in Turn : OrderInv(t, turn'[t], store', now')
    <3>1. now' \in Nat /\ now < now' /\ turn' = turn /\ store' = store /\ now \in Nat
      BY <2>3 DEF Tick, OrderedInv, Table
    <3>2. PICK b \in Nat : \A m \in store : Stamped(m, now, b)
      BY DEF OrderedInv, Table
    <3>3. \A m \in store : Stamped(m, now', b)
      BY <3>1, <3>2 DEF Stamped
    <3>4. Table(store', now')
      BY <3>1, <3>3 DEF OrderedInv, Table
    <3>5. QED
      BY <3>1, <3>4 DEF OrderedInv, OrderInv
  <2>4. CASE UNCHANGED vars
    BY <2>4 DEF vars, OrderedInv
  <2>5. QED
    BY <2>1, <2>2, <2>3, <2>4 DEF Next, TurnStep
<1>3. OrderedInv => ResultsFollowCall
  BY DEF OrderedInv, Table, ResultsFollowCall, IsResult
<1>4. QED
  BY <1>1, <1>2, <1>3, PTL DEF Spec

-----------------------------------------------------------------------------
(* Every call is answered.                                                 *)

\* No plugin takes calls, and the runner is not switched off.
Complete == EnableToolLoop /\ PluginTools = {}

IsAnswer(m) == m.kind \in {"tool", "plugin"}

IsAnswered(st, t, iter, p) ==
  \E m \in st : IsAnswer(m) /\ m.turn = t /\ m.iter = iter /\ m.pos = p

\* AnsweredAtMostOnce of the messages st.
Single(st) ==
  \A x, y \in st : /\ IsAnswer(x) /\ IsAnswer(y)
                   /\ x.turn = y.turn /\ x.iter = y.iter /\ x.pos = y.pos
                   => x = y

\* The positions of this iteration that are still to be answered.
Open(s) ==
  IF s.pc \in Ending THEN {}
  ELSE s.todo \cup s.ok \cup (IF s.pc = "result" THEN s.batch ELSE {})

Batched(s) == s.batch # {} /\ s.batch \subseteq DOMAIN s.calls /\ s.batch \cap s.todo = {}

\* What is open has no answer, and what is not open has one, unless the turn broke off.
AnswerInv(t, s, st) ==
  /\ s.iter \in Nat
  /\ \A m \in st : m.turn = t /\ (IsAnswer(m) \/ m.kind = "assistant") =>
       /\ m.iter \in Nat /\ m.iter <= s.iter
       /\ s.pc \in Reading => m.iter < s.iter
       /\ s.pc = "plugins" /\ IsAnswer(m) => m.iter < s.iter
  /\ \A p \in Open(s) : ~IsAnswered(st, t, s.iter, p)
  /\ s.pc = "result" => Batched(s)
  /\ s.pc \notin Ending => s.cause = "none"
  /\ Complete /\ s.cause = "none" =>
       /\ s.pc # "plugins"
       /\ \A a \in st : a.kind = "assistant" /\ a.turn = t =>
            /\ a.iter = s.iter => DOMAIN a.calls = DOMAIN s.calls
            /\ \A p \in DOMAIN a.calls :
                 (a.iter = s.iter /\ p \in Open(s)) \/ IsAnswered(st, t, a.iter, p)

\* u follows s with the same calls to be answered.
Alike(s, u) ==
  /\ u.iter = s.iter /\ u.cause = s.cause /\ Open(u) = Open(s)
  /\ DOMAIN u.calls = DOMAIN s.calls \/ s.pc \in Reading
  /\ u.pc \in Reading => s.pc \in Reading
  /\ u.pc = "plugins" => s.pc = "plugins"
  /\ s.pc \in Ending => u.pc \in Ending
  /\ u.pc = "result" => Batched(u)

\* u breaks the turn off.
Broken(s, u) == u.iter = s.iter /\ u.pc \in Ending /\ u.cause # "none"

LEMMA MoreAnswered ==
  ASSUME NEW st, NEW M, NEW t, NEW iter, NEW p, IsAnswered(st, t, iter, p)
  PROVE  IsAnswered(st \cup M, t, iter, p)
BY DEF IsAnswered

LEMMA NoMoreAnswered ==
  ASSUME NEW st, NEW M, NEW t, NEW iter, NEW p, ~IsAnswered(st, t, iter, p),
         \A m \in M : IsAnswer(m) => ~(m.turn = t /\ m.iter = iter /\ m.pos = p)
  PROVE  ~IsAnswered(st \cup M, t, iter, p)
BY DEF IsAnswered

LEMMA AlikeKeeps ==
  ASSUME NEW t, NEW s, NEW u, NEW st, AnswerInv(t, s, st), Single(st), Alike(s, u),
         NEW M, \A m \in M : m.turn = t /\ m.kind # "assistant" /\ ~IsAnswer(m)
  PROVE  AnswerInv(t, u, st \cup M) /\ Single(st \cup M)
<1>1. \A iter, p : IsAnswered(st \cup M, t, iter, p) <=> IsAnswered(st, t, iter, p)
  BY DEF IsAnswered
<1>2. Single(st \cup M)
  BY DEF Single
<1>3. /\ u.iter \in Nat
      /\ \A m \in st \cup M : m.turn = t /\ (IsAnswer(m) \/ m.kind = "assistant") =>
           /\ m.iter \in Nat /\ m.iter <= u.iter
           /\ u.pc \in Reading => m.iter < u.iter
           /\ u.pc = "plugins" /\ IsAnswer(m) => m.iter < u.iter
  BY DEF AnswerInv, Alike
<1>4. \A p \in Open(u) : ~IsAnswered(st \cup M, t, u.iter, p)
  BY <1>1 DEF AnswerInv, Alike
<1>5. (u.pc = "result" => Batched(u)) /\ (u.pc \notin Ending => u.cause = "none")
  BY DEF AnswerInv, Alike
<1>6. ASSUME Complete, u.cause = "none"
      PROVE  u.pc # "plugins"
  BY <1>6 DEF AnswerInv, Alike
<1>7. ASSUME Complete, u.cause = "none",
             NEW a \in st \cup M, a.kind = "assistant", a.turn = t
      PROVE  /\ a.iter = u.iter => DOMAIN a.calls = DOMAIN u.calls
             /\ \A p \in DOMAIN a.calls :
                  (a.iter = u.iter /\ p \in Open(u)) \/ IsAnswered(st \cup M, t, a.iter, p)
  <2>1. a \in st /\ s.cause = "none"
    BY <1>7 DEF Alike
  <2>2. a.iter \in Nat /\ s.iter \in Nat /\ (s.pc \in Reading => a.iter # s.iter)
    BY <1>7, <2>1 DEF AnswerInv
  <2>3. /\ a.iter = s.iter => DOMAIN a.calls = DOMAIN s.calls
        /\ \A p \in DOMAIN a.calls :
             (a.iter = s.iter /\ p \in Open(s)) \/ IsAnswered(st, t, a.iter, p)
    BY <1>7, <2>1 DEF AnswerInv
  <2>4. QED
    BY <1>1, <2>2, <2>3 DEF Alike
<1>8. QED
  BY <1>2, <1>3, <1>4, <1>5, <1>6, <1>7 DEF AnswerInv

LEMMA BrokenKeeps ==
  ASSUME NEW t, NEW s, NEW u, NEW st, AnswerInv(t, s, st), Broken(s, u)
  PROVE  AnswerInv(t, u, st)
BY DEF AnswerInv, Broken, Open, Ending, Reading

LEMMA OthersAnswers ==
  ASSUME NEW t, NEW s, NEW st, AnswerInv(t, s, st), NEW M, \A m \in M : m.turn # t
  PROVE  AnswerInv(t, s, st \cup M)
<1>1. \A iter, p : IsAnswered(st \cup M, t, iter, p) <=> IsAnswered(st, t, iter, p)
  BY DEF IsAnswered
<1>2. QED
  BY <1>1 DEF AnswerInv

\* The answer m to one open call of the iteration is stored.
LEMMA AnswerKeeps ==
  ASSUME NEW t, NEW s, NEW u, NEW st, AnswerInv(t, s, st), Single(st),
         NEW m, IsAnswer(m), m.kind # "assistant", m.turn = t, m.iter = s.iter,
         m.pos \in Open(s), s.pc \notin Reading \cup {"plugins"} \cup Ending,
         u.iter = s.iter, u.cause = s.cause, DOMAIN u.calls = DOMAIN s.calls,
         Open(u) = Open(s) \ {m.pos}, u.pc \notin Reading \cup {"plugins"} \cup Ending,
         u.pc = "result" => Batched(u)
  PROVE  AnswerInv(t, u, st \cup {m}) /\ Single(st \cup {m})
<1> DEFINE all == st \cup {m}
<1>1. ~IsAnswered(st, t, s.iter, m.pos)
  BY DEF AnswerInv
<1>2. Single(all)
  BY <1>1 DEF Single, IsAnswered
<1>3. IsAnswered(all, t, s.iter, m.pos)
  BY DEF IsAnswered
<1>4. \A p : p # m.pos => (IsAnswered(all, t, s.iter, p) <=> IsAnswered(st, t, s.iter, p))
  BY DEF IsAnswered
<1>5. \A iter, p : IsAnswered(st, t, iter, p) => IsAnswered(all, t, iter, p)
  BY DEF IsAnswered
<1>6. /\ u.iter \in Nat
      /\ \A x \in all : x.turn = t /\ (IsAnswer(x) \/ x.kind = "assistant") =>
           x.iter \in Nat /\ x.iter <= u.iter
  BY DEF AnswerInv
<1> HIDE DEF all
<1>7. \A p \in Open(u) : ~IsAnswered(all, t, u.iter, p)
  BY <1>4 DEF AnswerInv
<1>8. u.cause = "none"
  BY DEF AnswerInv
<1>9. ASSUME Complete, NEW a \in all, a.kind = "assistant", a.turn = t
      PROVE  /\ a.iter = u.iter => DOMAIN a.calls = DOMAIN u.calls
             /\ \A p \in DOMAIN a.calls :
                  (a.iter = u.iter /\ p \in Open(u)) \/ IsAnswered(all, t, a.iter, p)
  <2>1. a \in st
    BY <1>9 DEF all
  <2>2. /\ a.iter = s.iter => DOMAIN a.calls = DOMAIN s.calls
        /\ \A p \in DOMAIN a.calls :
             (a.iter = s.iter /\ p \in Open(s)) \/ IsAnswered(st, t, a.iter, p)
    BY <1>8, <1>9, <2>1 DEF AnswerInv
  <2>3. QED
    BY <1>3, <1>5, <2>2
<1>10. QED
  BY <1>2, <1>6, <1>7, <1>8, <1>9 DEF AnswerInv, all

\* What a step of turn t comes to.
AnswerStep(t) ==
  /\ AnswerInv(t, turn'[t], store')
  /\ Single(store')
  /\ \E M : store' = store \cup M /\ \A m \in M : m.turn = t

Ready(t) ==
  /\ Shape /\ TurnInv(turn[t])
  /\ AnswerInv(t, turn[t], store) /\ Single(store)

LEMMA UnstoredAnswer ==
  ASSUME NEW t \in Turn, Ready(t), store' = store, AnswerInv(t, turn'[t], store)
  PROVE  AnswerStep(t)
<1>1. \E M : store' = store \cup M /\ \A m \in M : m.turn = t
  <2> DEFINE M == {}
  <2>1. store' = store \cup M /\ \A m \in M : m.turn = t
    OBVIOUS
  <2> HIDE DEF M
  <2>2. QED
    BY <2>1
<1>2. QED
  BY <1>1 DEF AnswerStep, Ready

LEMMA AlikeStep ==
  ASSUME NEW t \in Turn, Ready(t), Alike(turn[t], turn'[t]), store' = store
  PROVE  AnswerStep(t)
<1> DEFINE M == {}
<1>1. store \cup M = store /\ \A m \in M : m.turn = t /\ m.kind # "assistant" /\ ~IsAnswer(m)
  OBVIOUS
<1> HIDE DEF M
<1>2. AnswerInv(t, turn'[t], store \cup M)
  BY <1>1, AlikeKeeps DEF Ready
<1>3. QED
  BY <1>1, <1>2, UnstoredAnswer

LEMMA BrokenStep ==
  ASSUME NEW t \in Turn, Ready(t), Broken(turn[t], turn'[t]), store' = store
  PROVE  AnswerStep(t)
BY BrokenKeeps, UnstoredAnswer DEF Ready

\* appendMessage stores the message or breaks the turn off.
LEMMA AppendStep ==
  ASSUME NEW t \in Turn, Ready(t), NEW m, NEW s, Persist(t, m, s), m.turn = t,
         AnswerInv(t, s, store \cup {m}), Single(store \cup {m})
  PROVE  AnswerStep(t)
<1>1. DOMAIN turn[t] = Fields
  BY DEF Ready, Shape
<1>2. CASE Taken(m)
  <2>1. store' = store /\ turn'[t] = Throw(turn[t], "store")
    BY <1>2 DEF Persist, Become, Ready, Shape
  <2>2. Broken(turn[t], turn'[t])
    BY <1>1, <2>1, FieldNames DEF Throw, Stop, Broken, Ending
  <2>3. QED
    BY <2>1, <2>2, BrokenStep
<1>3. CASE ~Taken(m)
  <2> DEFINE M == {m}
  <2>1. store' = store \cup M /\ turn'[t] = s
    BY <1>3 DEF Persist, Become, Ready, Shape
  <2>2. AnswerInv(t, s, store \cup M) /\ Single(store \cup M) /\ \A x \in M : x.turn = t
    OBVIOUS
  <2> HIDE DEF M
  <2>3. QED
    BY <2>1, <2>2 DEF AnswerStep
<1>4. QED
  BY <1>2, <1>3

LEMMA GateNextOpens ==
  ASSUME NEW s, DOMAIN s = Fields, NEW ok
  PROVE  LET u == GateNext(s, ok) IN
         /\ u.iter = s.iter /\ u.cause = s.cause /\ u.calls = s.calls
         /\ u.pc \in {"gate", "iterate", "run"}
         /\ Open(u) = (s.todo \ {Least(s.todo)}) \cup ok
<1> DEFINE u == GateNext(s, ok)
           rest == s.todo \ {Least(s.todo)}
<1>1. u.iter = s.iter /\ u.cause = s.cause /\ u.calls = s.calls
  BY FieldNames DEF GateNext
<1>2. CASE rest # {}
  <2>1. u.pc = "gate" /\ u.todo = rest /\ u.ok = ok
    BY <1>2, FieldNames DEF GateNext
  <2>2. QED
    BY <1>1, <2>1 DEF Open, Ending
<1>3. CASE rest = {} /\ ok = {}
  <2>1. u.pc = "iterate" /\ u.todo = {} /\ u.ok = {}
    BY <1>3, FieldNames DEF GateNext
  <2>2. QED
    BY <1>1, <1>3, <2>1 DEF Open, Ending
<1>4. CASE rest = {} /\ ok # {}
  <2>1. u.pc = "run" /\ u.todo = ok /\ u.ok = {}
    BY <1>4, FieldNames DEF GateNext
  <2>2. QED
    BY <1>1, <1>4, <2>1 DEF Open, Ending
<1>5. QED
  BY <1>2, <1>3, <1>4

\* The steps that leave open what was open, and those that break the turn off.
LEMMA GateSteps ==
  ASSUME NEW t \in Turn, Ready(t),
         PermissionHook(t) \/ ApprovalGiven(t) \/ ApprovalDenied(t) \/ PreToolUse(t)
  PROVE  Alike(turn[t], turn'[t])
<1> DEFINE s == turn[t]
           u == turn'[t]
           cur == Least(s.todo)
<1> USE DEF Alike, Reading, Ending
<1>0. /\ DOMAIN s = Fields /\ s.pc \in Gating /\ CallsInv(s)
      /\ Current(t) = cur /\ cur \in s.todo /\ CurrentCall(t) \in Call
      /\ CheckPermission(ToolOf[CurrentCall(t)]) \in Actions
  BY LeastTodo, CurrentIsACall
  DEF Ready, Shape, TurnInv, CallsInv, Gating, PermissionHook, ApprovalGiven, ApprovalDenied,
      PreToolUse, At, Current
<1>1. ASSUME NEW v, DOMAIN v = Fields, v.iter = s.iter, v.cause = s.cause, v.todo = s.todo,
             v.ok = s.ok, DOMAIN v.calls = DOMAIN s.calls,
             \/ v.pc \in Gating /\ u = v
             \/ u = Refuse(t, v)
             \/ u = Admit(t, v)
      PROVE  Alike(s, u)
  <2>1. CASE v.pc \in Gating /\ u = v
    BY <1>0, <1>1, <2>1 DEF Open, Gating
  <2>2. CASE u = Refuse(t, v)
    BY <1>0, <1>1, <2>2, FieldNames DEF Open, Gating, Refuse
  <2>3. CASE u = Admit(t, v)
    <3>1. /\ u.iter = v.iter /\ u.cause = v.cause /\ u.calls = v.calls
          /\ u.pc \in {"gate", "iterate", "run"}
          /\ Open(u) = (s.todo \ {cur}) \cup (s.ok \cup {cur})
      BY <1>0, <1>1, <2>3, GateNextOpens DEF Admit
    <3>2. QED
      BY <1>0, <1>1, <3>1 DEF Open, Gating
  <2>4. QED
    BY <1>1, <2>1, <2>2, <2>3
<1>2. ASSUME PermissionHook(t) PROVE Alike(s, u)
  <2> DEFINE act == CheckPermission(ToolOf[CurrentCall(t)])
  <2>1. act \in Actions
    BY <1>0
  <2>2. u = CASE act = "allow" -> [s EXCEPT !.pc = "hook"]
              [] act = "ask" -> [s EXCEPT !.pc = "askPermission"]
              [] act = "deny" -> Refuse(t, s)
    BY <1>2 DEF PermissionHook, Local, Become, Ready, Shape
  <2> HIDE DEF act
  <2>3. CASE u = Refuse(t, s)
    BY <1>0, <1>1, <2>3
  <2>4. CASE u = [s EXCEPT !.pc = "hook"] \/ u = [s EXCEPT !.pc = "askPermission"]
    BY <1>0, <2>4, FieldNames DEF Open, Gating
  <2>5. QED
    BY <2>1, <2>2, <2>3, <2>4 DEF Actions
<1>3. ASSUME ApprovalGiven(t) PROVE Alike(s, u)
  <2> DEFINE a == [s EXCEPT !.approved = @ \cup {Shown(t)}]
  <2>1. /\ DOMAIN a = Fields /\ a.iter = s.iter /\ a.cause = s.cause /\ a.todo = s.todo
        /\ a.ok = s.ok /\ a.calls = s.calls /\ a.pc = s.pc
    BY <1>0, FieldNames
  <2>2. u = [a EXCEPT !.pc = "hook"] \/ u = Admit(t, a)
    BY <1>3 DEF ApprovalGiven, Local, Become, Ready, Shape
  <2> HIDE DEF a
  <2>3. CASE u = Admit(t, a)
    BY <1>1, <2>1, <2>3
  <2>4. CASE u = [a EXCEPT !.pc = "hook"]
    BY <1>0, <2>1, <2>4, FieldNames DEF Open, Gating
  <2>5. QED
    BY <2>2, <2>3, <2>4
<1>4. ASSUME ApprovalDenied(t) PROVE Alike(s, u)
  BY <1>0, <1>1, <1>4 DEF ApprovalDenied, Local, Become, Ready, Shape
<1>5. ASSUME PreToolUse(t) PROVE Alike(s, u)
  <2>1. PICK a \in HookAnswers[CurrentCall(t)] :
          LET c == [s EXCEPT !.calls[Current(t)] = a.call] IN
          u = CASE a.act = "allow" -> Admit(t, c)
                [] a.act = "ask" -> [c EXCEPT !.pc = "askHook"]
                [] a.act = "deny" -> Refuse(t, c)
    BY <1>5 DEF PreToolUse, Local, Become, Ready, Shape
  <2>2. a.act \in Actions
    BY <1>0, TurnAssumption
  <2> DEFINE c == [s EXCEPT !.calls[Current(t)] = a.call]
  <2>3. /\ DOMAIN c = Fields /\ c.iter = s.iter /\ c.cause = s.cause /\ c.todo = s.todo
        /\ c.ok = s.ok /\ DOMAIN c.calls = DOMAIN s.calls
    BY <1>0, FieldNames
  <2>4. u = CASE a.act = "allow" -> Admit(t, c)
              [] a.act = "ask" -> [c EXCEPT !.pc = "askHook"]
              [] a.act = "deny" -> Refuse(t, c)
    BY <2>1
  <2> HIDE DEF c
  <2>5. CASE u = [c EXCEPT !.pc = "askHook"]
    BY <1>0, <2>3, <2>5, FieldNames DEF Open, Gating
  <2>6. u \in {Admit(t, c), [c EXCEPT !.pc = "askHook"], Refuse(t, c)}
    BY <2>2, <2>4 DEF Actions
  <2>7. QED
    BY <1>1, <2>3, <2>5, <2>6
<1>6. QED
  BY <1>2, <1>3, <1>4, <1>5

QuietAnswers(t) ==
  \/ SendMessage(t) \/ BeginTurn(t) \/ StartTurn(t) \/ BlockTurn(t) \/ HitMaxIterations(t)
  \/ CallLlm(t) \/ LlmAnswers(t) \/ ReadClock(t) \/ RunTools(t) \/ AwaitSession(t)
  \/ SomeSessionEnds(t) \/ Finish(t)

LEMMA QuietAnswerSteps ==
  ASSUME NEW t \in Turn, Ready(t), QuietAnswers(t)
  PROVE  Alike(turn[t], turn'[t]) /\ store' = store
<1> DEFINE s == turn[t]
           u == turn'[t]
           Same == /\ u.iter = s.iter /\ u.cause = s.cause /\ u.calls = s.calls
                   /\ u.todo = s.todo /\ u.ok = s.ok /\ u.batch = s.batch
<1> USE DEF Alike, Reading, Ending, Open
<1>0. /\ DOMAIN s = Fields /\ CallsInv(s)
      /\ s.pc = "result" => Batched(s)
  BY DEF Ready, Shape, TurnInv, AnswerInv
<1>1. store' = store
  BY DEF QuietAnswers, SendMessage, BeginTurn, StartTurn, BlockTurn, HitMaxIterations, CallLlm,
         LlmAnswers, ReadClock, RunTools, AwaitSession, SomeSessionEnds, SessionEnds, Finish, Local
<1>2. ASSUME SendMessage(t) \/ BeginTurn(t) \/ StartTurn(t) PROVE Alike(s, u)
  <2>1. ASSUME SendMessage(t) PROVE Same /\ s.pc = "idle" /\ u.pc = "queued"
    BY <1>0, <2>1, FieldNames DEF SendMessage, Become, At, Ready, Shape
  <2>2. ASSUME BeginTurn(t) PROVE Same /\ s.pc = "queued" /\ u.pc = "user"
    BY <1>0, <2>2, FieldNames DEF BeginTurn, Local, Become, At, Ready, Shape
  <2>3. ASSUME StartTurn(t) PROVE Same /\ s.pc = "hooks" /\ u.pc = "iterate"
    BY <1>0, <2>3, FieldNames DEF StartTurn, Local, Become, At, Ready, Shape
  <2>4. QED
    BY <1>2, <2>1, <2>2, <2>3
<1>3. ASSUME BlockTurn(t) \/ HitMaxIterations(t) PROVE Alike(s, u)
  <2>1. ASSUME BlockTurn(t) PROVE Same /\ s.pc = "hooks" /\ u.pc = "stopping"
    BY <1>0, <2>1, FieldNames DEF BlockTurn, Local, Become, At, Ready, Shape
  <2>2. ASSUME HitMaxIterations(t) PROVE Same /\ s.pc = "iterate" /\ u.pc = "stopping"
    BY <1>0, <2>2, FieldNames DEF HitMaxIterations, Stop, Local, Become, At, Ready, Shape
  <2>3. s.pc \in Early => s.todo = {} /\ s.ok = {}
    BY <1>0 DEF CallsInv
  <2>4. QED
    BY <1>3, <2>1, <2>2, <2>3 DEF Early
<1>4. ASSUME CallLlm(t) PROVE Alike(s, u)
  <2>1. PICK late : u = [s EXCEPT !.pc = "llm", !.late = late]
    BY <1>4, Zenon DEF CallLlm, Local, Become, Ready, Shape
  <2>2. Same /\ s.pc = "history" /\ u.pc = "llm"
    BY <1>0, <1>4, <2>1, FieldNames DEF CallLlm, At
  <2>3. QED
    BY <2>2
<1>5. ASSUME LlmAnswers(t) PROVE Alike(s, u)
  <2>1. PICK r \in Responses :
          u = [s EXCEPT !.pc = "assistant", !.calls = r.calls,
                        !.written = r.calls, !.par = r.par, !.ms = now, !.lam = NextLamport]
    BY <1>5 DEF LlmAnswers, Local, Become, Ready, Shape
  <2>2. /\ u.iter = s.iter /\ u.cause = s.cause /\ u.todo = s.todo /\ u.ok = s.ok
        /\ u.pc = "assistant" /\ s.pc = "llm"
    BY <1>0, <1>5, <2>1, FieldNames DEF LlmAnswers, At
  <2>3. QED
    BY <2>2
<1>6. ASSUME ReadClock(t) PROVE Alike(s, u)
  <2>1. Same /\ u.pc = s.pc /\ s.pc \in Writing
    BY <1>0, <1>6, FieldNames DEF ReadClock, Local, Become, Writing, Ready, Shape
  <2>2. QED
    BY <1>0, <2>1 DEF Writing, Batched
<1>7. ASSUME RunTools(t) PROVE Alike(s, u)
  <2> DEFINE batch == IF s.par THEN s.todo ELSE {Current(t)}
             run == {p \in batch : ~DoomLoop(s, batch, p)}
             started == {[iter |-> s.iter, pos |-> p, call |-> s.calls[p],
                         written |-> s.written[p]] : p \in run}
  <2>1. PICK waits \in SUBSET {p \in run : ToolOf[s.calls[p]] \in AwaitingTools} :
          u = [s EXCEPT !.pc = "result", !.todo = @ \ batch, !.batch = batch, !.waits = waits,
                        !.recent = Pushed(s, batch), !.ran = @ \cup started]
    BY <1>7 DEF RunTools, Local, Become, Ready, Shape
  <2>2. s.pc = "run"
    BY <1>7 DEF RunTools, At
  <2>3. batch # {} /\ batch \subseteq s.todo /\ s.todo \subseteq DOMAIN s.calls
    BY <1>0, <2>2, LeastTodo DEF CallsInv, Current
  <2> HIDE DEF batch, run, started
  <2>4. /\ u.iter = s.iter /\ u.cause = s.cause /\ u.calls = s.calls /\ u.ok = s.ok
        /\ u.pc = "result" /\ u.todo = s.todo \ batch /\ u.batch = batch
    BY <1>0, <2>1, FieldNames
  <2>5. QED
    BY <2>2, <2>3, <2>4 DEF Batched
<1>8. ASSUME AwaitSession(t) PROVE Alike(s, u)
  <2>1. Same /\ s.pc = "await" /\ u.pc \in {"awaited", "listening"}
    BY <1>0, <1>8, FieldNames DEF AwaitSession, Local, Become, At, Ready, Shape
  <2>2. QED
    BY <2>1
<1>9. ASSUME SomeSessionEnds(t) PROVE Alike(s, u)
  <2>1. Same /\ (u.pc = s.pc \/ (s.pc = "listening" /\ u.pc = "awaited"))
    BY <1>0, <1>9, FieldNames DEF SomeSessionEnds, SessionEnds, Local, Become, Ready, Shape
  <2>2. QED
    BY <1>0, <2>1 DEF Batched
<1>10. ASSUME Finish(t) PROVE Alike(s, u)
  <2> DEFINE s1 == IF s.cause \in {"llm", "store"} THEN CallStop(s) ELSE s
             s2 == CallStop(s1)
  <2>1. DOMAIN s1 = Fields /\ s1.iter = s.iter /\ s1.cause = s.cause /\ s1.calls = s.calls
    BY <1>0, FieldNames DEF CallStop
  <2>2. u = [CallStop(s1) EXCEPT !.pc = "done"] /\ s.pc = "stopping"
    BY <1>10 DEF Finish, Local, Become, At, Ready, Shape
  <2> HIDE DEF s1
  <2>3. DOMAIN s2 = Fields /\ s2.iter = s.iter /\ s2.cause = s.cause /\ s2.calls = s.calls
    BY <2>1, FieldNames DEF CallStop
  <2>4. u = [s2 EXCEPT !.pc = "done"]
    BY <2>2
  <2> HIDE DEF s2
  <2>5. u.iter = s.iter /\ u.cause = s.cause /\ u.calls = s.calls /\ u.pc = "done"
    BY <2>3, <2>4, FieldNames
  <2>6. QED
    BY <2>2, <2>5
<1>11. QED
  BY <1>1, <1>2, <1>3, <1>4, <1>5, <1>6, <1>7, <1>8, <1>9, <1>10 DEF QuietAnswers

\* The message m, neither an answer nor a call, is stored.
LEMMA OtherMessage ==
  ASSUME NEW t \in Turn, Ready(t), NEW m, NEW s, Persist(t, m, s), m.turn = t,
         m.kind # "assistant", ~IsAnswer(m), Alike(turn[t], s)
  PROVE  AnswerStep(t)
<1> DEFINE M == {m}
<1>1. \A x \in M : x.turn = t /\ x.kind # "assistant" /\ ~IsAnswer(x)
  OBVIOUS
<1> HIDE DEF M
<1>2. AnswerInv(t, s, store \cup M) /\ Single(store \cup M)
  BY <1>1, AlikeKeeps DEF Ready
<1>3. QED
  BY <1>2, AppendStep DEF M

LEMMA StartIterationAnswers ==
  ASSUME NEW t \in Turn, Ready(t), StartIteration(t)
  PROVE  AnswerStep(t)
<1> DEFINE s == turn[t]
           u == turn'[t]
<1>1. /\ DOMAIN s = Fields /\ s.pc = "iterate" /\ s.todo = {} /\ s.ok = {} /\ s.iter \in Nat
      /\ store' = store
  BY DEF Ready, Shape, StartIteration, Local, At, TurnInv, CallsInv, Early
<1>2. /\ u.iter = s.iter + 1 /\ u.cause = s.cause /\ u.todo = {} /\ u.ok = {}
      /\ u.pc \in {"history", "stopping"}
  BY <1>1, FieldNames DEF StartIteration, Local, Become, Stop, Ready, Shape
<1>3. Open(s) = {} /\ Open(u) = {}
  BY <1>1, <1>2 DEF Open
<1> HIDE DEF u
<1>4. AnswerInv(t, u, store)
  <2>1. /\ AnswerInv(t, s, store) /\ u.iter \in Nat
        /\ \A m \in store : m.turn = t /\ (IsAnswer(m) \/ m.kind = "assistant")
                              => m.iter \in Nat /\ m.iter < u.iter
    BY <1>1, <1>2 DEF Ready, AnswerInv
  <2>2. u.cause = "none"
    BY <1>1, <1>2, <2>1 DEF AnswerInv, Ending
  <2>3. ASSUME Complete, NEW a \in store, a.kind = "assistant", a.turn = t
        PROVE  \A p \in DOMAIN a.calls : IsAnswered(store, t, a.iter, p)
    BY <1>2, <1>3, <2>1, <2>2, <2>3 DEF AnswerInv
  <2>4. QED
    BY <1>2, <1>3, <2>1, <2>2, <2>3 DEF AnswerInv
<1>5. QED
  BY <1>1, <1>4, UnstoredAnswer DEF u

LEMMA StoreAssistantAnswers ==
  ASSUME NEW t \in Turn, Ready(t), StoreAssistant(t)
  PROVE  AnswerStep(t)
<1> DEFINE s == turn[t]
           m == NewMessage(t, "assistant", NoTool, s.ms, 0, s.calls)
           w == [s EXCEPT !.lam = 0, !.ended = {}]
           v == IF HasPlugins THEN [w EXCEPT !.pc = "plugins"] ELSE Dispatch(w, {})
           all == store \cup {m}
<1>1. /\ DOMAIN s = Fields /\ s.pc = "assistant" /\ s.todo = {} /\ s.ok = {} /\ s.iter \in Nat
      /\ s.cause = "none" /\ Persist(t, m, v)
  BY DEF Ready, Shape, StoreAssistant, At, TurnInv, CallsInv, Asking, AnswerInv, Ending
<1>2. m.kind = "assistant" /\ m.turn = t /\ m.iter = s.iter /\ m.calls = s.calls
  BY DEF NewMessage
<1>3. /\ DOMAIN w = Fields /\ w.iter = s.iter /\ w.cause = s.cause /\ w.todo = {} /\ w.ok = {}
      /\ w.calls = s.calls
  BY <1>1, FieldNames
<1> HIDE DEF m, w
<1>4. /\ v.iter = s.iter /\ v.cause = "none" /\ v.calls = s.calls
      /\ v.pc \in {"plugins", "stopping", "gate", "iterate"}
      /\ Open(v) \subseteq DOMAIN s.calls
      /\ Complete => v.pc # "plugins" /\ Open(v) = DOMAIN s.calls
  <2>1. CASE HasPlugins
    <3>1. v = [w EXCEPT !.pc = "plugins"]
      BY <2>1
    <3>2. /\ v.iter = s.iter /\ v.cause = "none" /\ v.calls = s.calls /\ v.pc = "plugins"
          /\ v.todo = {} /\ v.ok = {}
      BY <1>1, <1>3, <3>1, FieldNames
    <3>3. ~Complete
      BY <2>1 DEF Complete, HasPlugins
    <3>4. QED
      BY <3>2, <3>3 DEF Open
  <2>2. CASE ~HasPlugins
    <3> DEFINE pending == DOMAIN s.calls
    <3>1. v = IF s.calls = <<>> \/ ~EnableToolLoop \/ pending = {} THEN Stop(w, "completed")
              ELSE [w EXCEPT !.pc = "gate", !.todo = pending]
      BY <1>3, <2>2 DEF Dispatch, Positions
    <3>2. CASE v = Stop(w, "completed")
      <4>1. /\ v.iter = s.iter /\ v.cause = "none" /\ v.calls = s.calls /\ v.pc = "stopping"
        BY <1>1, <1>3, <3>2, FieldNames DEF Stop
      <4>2. Open(v) = {}
        BY <4>1 DEF Open, Ending
      <4>3. ASSUME Complete PROVE pending = {}
        <5>1. CASE s.calls = <<>>
          BY <5>1
        <5>2. CASE ~(s.calls = <<>>)
          <6>1. pending = {} \/ v = [w EXCEPT !.pc = "gate", !.todo = pending]
            BY <3>1, <4>3, <5>2 DEF Complete
          <6>2. [w EXCEPT !.pc = "gate", !.todo = pending].pc = "gate"
            BY <1>3, FieldNames
          <6>3. QED
            BY <4>1, <6>1, <6>2
        <5>3. QED
          BY <5>1, <5>2
      <4>4. QED
        BY <4>1, <4>2, <4>3
    <3>3. CASE v = [w EXCEPT !.pc = "gate", !.todo = pending]
      <4>1. /\ v.iter = s.iter /\ v.cause = "none" /\ v.calls = s.calls /\ v.pc = "gate"
            /\ v.todo = pending /\ v.ok = {}
        BY <1>1, <1>3, <3>3, FieldNames
      <4>2. QED
        BY <4>1 DEF Open, Ending
    <3>4. QED
      BY <3>1, <3>2, <3>3
  <2>3. QED
    BY <2>1, <2>2
<1> HIDE DEF v
<1>5. /\ AnswerInv(t, s, store)
      /\ \A x \in store : x.turn = t /\ (IsAnswer(x) \/ x.kind = "assistant")
                            => x.iter \in Nat /\ x.iter < s.iter
  BY <1>1 DEF Ready, AnswerInv, Reading
<1>6. ~IsAnswer(m)
  BY <1>2 DEF IsAnswer
<1>7. \A iter, p : IsAnswered(all, t, iter, p) <=> IsAnswered(store, t, iter, p)
  BY <1>6 DEF IsAnswered
<1>8. \A p : ~IsAnswered(store, t, s.iter, p)
  BY <1>1, <1>5 DEF IsAnswered
<1>9. /\ v.iter \in Nat /\ (v.pc = "result" => Batched(v))
      /\ \A x \in all : x.turn = t /\ (IsAnswer(x) \/ x.kind = "assistant") =>
           /\ x.iter \in Nat /\ x.iter <= v.iter
           /\ v.pc \in Reading => x.iter < v.iter
           /\ v.pc = "plugins" /\ IsAnswer(x) => x.iter < v.iter
  BY <1>1, <1>2, <1>4, <1>5, <1>6 DEF Reading
<1>10. ASSUME Complete, NEW a \in all, a.kind = "assistant", a.turn = t
       PROVE  /\ a.iter = v.iter => DOMAIN a.calls = DOMAIN v.calls
              /\ \A p \in DOMAIN a.calls :
                   (a.iter = v.iter /\ p \in Open(v)) \/ IsAnswered(all, t, a.iter, p)
  <2>1. CASE a = m
    BY <1>2, <1>4, <1>10, <2>1
  <2>2. CASE a \in store
    <3>1. a.iter \in Nat /\ a.iter < s.iter
      BY <1>5, <1>10, <2>2
    <3>2. \A p \in DOMAIN a.calls : IsAnswered(store, t, a.iter, p)
      BY <1>1, <1>5, <1>10, <2>2, <3>1 DEF AnswerInv
    <3>3. QED
      BY <1>1, <1>4, <1>7, <3>1, <3>2
  <2>3. QED
    BY <2>1, <2>2
<1>11. AnswerInv(t, v, all)
  BY <1>4, <1>7, <1>8, <1>9, <1>10 DEF AnswerInv
<1>12. Single(all)
  BY <1>6 DEF Ready, Single
<1>13. QED
  BY <1>1, <1>2, <1>11, <1>12, AppendStep

LEMMA RunPluginsAnswers ==
  ASSUME NEW t \in Turn, Ready(t), RunPlugins(t)
  PROVE  AnswerStep(t)
<1> DEFINE s == turn[t]
           u == turn'[t]
<1>1. PICK H \in PluginChoices(s), target \in {"none", "self", "human"} :
        /\ store' = store \cup {PluginResult(t, p) : p \in H}
        /\ u = CASE target = "human" -> Stop(s, "completed")
                 [] target = "self" -> [s EXCEPT !.pc = "iterate"]
                 [] target = "none" -> Dispatch(s, Handled(s, H))
  BY DEF RunPlugins, Become, Ready, Shape
<1> DEFINE M == {PluginResult(t, p) : p \in H}
<1>2. /\ DOMAIN s = Fields /\ s.pc = "plugins" /\ s.todo = {} /\ s.ok = {} /\ s.iter \in Nat
      /\ s.cause = "none" /\ ~Complete
  BY DEF Ready, Shape, RunPlugins, At, TurnInv, CallsInv, Asking, AnswerInv, Ending
<1>3. H \subseteq Handled(s, H)
  BY DEF PluginChoices, Handled
<1>4. u \in {Stop(s, "completed"), [s EXCEPT !.pc = "iterate"], Dispatch(s, Handled(s, H))}
  BY <1>1
<1>5. /\ u.iter = s.iter /\ u.cause = "none" /\ u.pc \in {"stopping", "iterate", "gate"}
      /\ Open(u) \cap H = {}
  <2>1. CASE u = Stop(s, "completed")
    BY <1>2, <2>1, FieldNames DEF Stop, Open, Ending
  <2>2. CASE u = [s EXCEPT !.pc = "iterate"]
    BY <1>2, <2>2, FieldNames DEF Open, Ending
  <2>3. CASE u = Dispatch(s, Handled(s, H))
    <3> DEFINE pending == DOMAIN s.calls \ Handled(s, H)
    <3>1. u \in {Stop(s, "completed"), [s EXCEPT !.pc = "iterate"],
                 [s EXCEPT !.pc = "gate", !.todo = pending]}
      BY <2>3 DEF Dispatch, Positions
    <3>2. CASE u = [s EXCEPT !.pc = "gate", !.todo = pending]
      <4>1. /\ u.iter = s.iter /\ u.cause = "none" /\ u.pc = "gate" /\ u.todo = pending
            /\ u.ok = {}
        BY <1>2, <3>2, FieldNames
      <4>2. Open(u) = pending
        BY <4>1 DEF Open, Ending
      <4>3. QED
        BY <1>3, <4>1, <4>2
    <3>3. QED
      BY <2>1, <2>2, <3>1, <3>2
  <2>4. QED
    BY <1>4, <2>1, <2>2, <2>3
<1>6. \A m \in M : /\ IsAnswer(m) /\ m.kind # "assistant" /\ m.turn = t /\ m.iter = s.iter
                   /\ m.pos \in H /\ m = PluginResult(t, m.pos)
  BY DEF PluginResult, NewMessage, IsAnswer
<1>7. store' = store \cup M
  BY <1>1
<1> HIDE DEF u, M
<1>8. \A m \in store : m.turn = t /\ IsAnswer(m) => m.iter \in Nat /\ m.iter < s.iter
  BY <1>2 DEF Ready, AnswerInv
<1>9. Single(store \cup M)
  <2> SUFFICES ASSUME NEW x \in store \cup M, NEW y \in store \cup M, IsAnswer(x), IsAnswer(y),
                      x.turn = y.turn, x.iter = y.iter, x.pos = y.pos
               PROVE  x = y
    BY DEF Single
  <2>1. CASE x \in M /\ y \in M
    BY <1>6, <2>1
  <2>2. CASE x \in store /\ y \in store
    BY <2>2 DEF Ready, Single
  <2>3. CASE x \in store /\ y \in M
    BY <1>2, <1>6, <1>8, <2>3
  <2>4. CASE x \in M /\ y \in store
    BY <1>2, <1>6, <1>8, <2>4
  <2>5. QED
    BY <2>1, <2>2, <2>3, <2>4
<1>10. \A p \in Open(u) : ~IsAnswered(store \cup M, t, u.iter, p)
  BY <1>2, <1>5, <1>6, <1>8 DEF IsAnswered
<1>11. \A m \in store \cup M : m.turn = t /\ (IsAnswer(m) \/ m.kind = "assistant") =>
         m.iter \in Nat /\ m.iter <= u.iter
  BY <1>2, <1>5, <1>6 DEF Ready, AnswerInv
<1>12. AnswerInv(t, u, store \cup M)
  BY <1>2, <1>5, <1>10, <1>11 DEF AnswerInv, Reading
<1>13. \A m \in M : m.turn = t
  BY <1>6
<1>14. QED
  BY <1>7, <1>9, <1>12, <1>13 DEF AnswerStep, u

LEMMA StoreAnswerSteps ==
  ASSUME NEW t \in Turn, Ready(t), StoreDenied(t) \/ StoreResult(t)
  PROVE  AnswerStep(t)
<1> DEFINE s == turn[t]
<1>1. DOMAIN s = Fields /\ CallsInv(s) /\ AnswerInv(t, s, store) /\ Single(store)
  BY DEF Ready, Shape, TurnInv
<1>2. ASSUME StoreDenied(t) PROVE AnswerStep(t)
  <2> DEFINE cur == Least(s.todo)
             m == NewMessage(t, "tool", ToolOf[CurrentCall(t)], now, Current(t), <<>>)
             w == [s EXCEPT !.lam = 0]
             v == GateNext(w, s.ok)
  <2>1. Persist(t, m, v) /\ s.pc = "deny"
    BY <1>2 DEF StoreDenied, At
  <2>2. IsAnswer(m) /\ m.kind # "assistant" /\ m.turn = t /\ m.iter = s.iter /\ m.pos = cur
    BY DEF NewMessage, IsAnswer, Current
  <2>3. s.todo # {} /\ cur \in s.todo /\ s.ok \cap s.todo = {}
    BY <1>1, <2>1, LeastTodo DEF CallsInv, Gating
  <2>4. /\ DOMAIN w = Fields /\ w.iter = s.iter /\ w.cause = s.cause /\ w.calls = s.calls
        /\ w.todo = s.todo
    BY <1>1, FieldNames
  <2> HIDE DEF m, w
  <2>5. /\ v.iter = s.iter /\ v.cause = s.cause /\ v.calls = s.calls
        /\ v.pc \in {"gate", "iterate", "run"}
        /\ Open(v) = (s.todo \ {cur}) \cup s.ok
    BY <2>4, GateNextOpens
  <2> HIDE DEF v
  <2>6. Open(s) = s.todo \cup s.ok
    BY <2>1 DEF Open, Ending
  <2>7. m.pos \in Open(s) /\ Open(v) = Open(s) \ {m.pos}
    BY <2>2, <2>3, <2>5, <2>6
  <2>8. AnswerInv(t, v, store \cup {m}) /\ Single(store \cup {m})
    BY <1>1, <2>1, <2>2, <2>5, <2>7, AnswerKeeps DEF Reading, Ending
  <2>9. QED
    BY <2>1, <2>2, <2>8, AppendStep
<1>3. ASSUME StoreResult(t) PROVE AnswerStep(t)
  <2> DEFINE p == Least(s.batch)
             m == NewMessage(t, "tool", ToolOf[s.calls[p]], now, p, <<>>)
             w == [s EXCEPT !.lam = 0, !.batch = @ \ {p}]
             v == ResultNext(w)
  <2>1. Persist(t, m, v) /\ s.pc = "result"
    BY <1>3 DEF StoreResult, At
  <2>2. IsAnswer(m) /\ m.kind # "assistant" /\ m.turn = t /\ m.iter = s.iter /\ m.pos = p
    BY DEF NewMessage, IsAnswer
  <2>3. Batched(s) /\ s.ok = {} /\ s.calls \in Seq(Call)
    BY <1>1, <2>1 DEF AnswerInv, CallsInv, Running
  <2>4. p \in s.batch /\ p \notin s.todo
    <3>1. s.batch # {} /\ s.batch \subseteq Nat /\ s.batch \cap s.todo = {}
      BY <2>3 DEF Batched
    <3>2. QED
      BY <3>1, LeastIn
  <2>5. /\ DOMAIN w = Fields /\ w.iter = s.iter /\ w.cause = s.cause /\ w.calls = s.calls
        /\ w.todo = s.todo /\ w.ok = {} /\ w.batch = s.batch \ {p} /\ w.pc = "result"
    BY <1>1, <2>1, <2>3, FieldNames
  <2> HIDE DEF m, w, p
  <2>6. /\ v.iter = s.iter /\ v.cause = s.cause /\ v.calls = s.calls
        /\ v.pc \in {"result", "await", "iterate", "run"}
        /\ Open(v) = s.todo \cup (s.batch \ {p})
        /\ v.pc = "result" => Batched(v)
    <3>1. CASE w.batch # {}
      <4>1. v = w
        BY <3>1 DEF ResultNext
      <4>2. QED
        BY <2>3, <2>5, <3>1, <4>1 DEF Open, Ending, Batched
    <3>2. CASE w.batch = {} /\ w.waits # {}
      <4>1. v = [w EXCEPT !.pc = "await"]
        BY <3>2 DEF ResultNext
      <4>2. /\ v.iter = s.iter /\ v.cause = s.cause /\ v.calls = s.calls /\ v.pc = "await"
            /\ v.todo = s.todo /\ v.ok = {}
        BY <2>5, <4>1, FieldNames
      <4>3. QED
        BY <2>5, <3>2, <4>2 DEF Open, Ending
    <3>3. CASE w.batch = {} /\ w.waits = {}
      <4>1. v = [w EXCEPT !.pc = IF w.todo = {} THEN "iterate" ELSE "run"]
        BY <3>3 DEF ResultNext, RunNext
      <4>2. /\ v.iter = s.iter /\ v.cause = s.cause /\ v.calls = s.calls
            /\ v.pc \in {"iterate", "run"} /\ v.todo = s.todo /\ v.ok = {}
        BY <2>5, <4>1, FieldNames
      <4>3. QED
        BY <2>5, <3>3, <4>2 DEF Open, Ending
    <3>4. QED
      BY <3>1, <3>2, <3>3
  <2> HIDE DEF v
  <2>7. Open(s) = s.todo \cup s.batch
    BY <2>1, <2>3 DEF Open, Ending
  <2>8. m.pos \in Open(s) /\ Open(v) = Open(s) \ {m.pos}
    BY <2>2, <2>4, <2>6, <2>7
  <2>9. AnswerInv(t, v, store \cup {m}) /\ Single(store \cup {m})
    BY <1>1, <2>1, <2>2, <2>6, <2>8, AnswerKeeps DEF Reading, Ending
  <2>10. QED
    BY <2>1, <2>2, <2>9, AppendStep
<1>4. QED
  BY <1>2, <1>3

LEMMA StoreOtherSteps ==
  ASSUME NEW t \in Turn, Ready(t), StoreUser(t) \/ StoreAwaited(t)
  PROVE  AnswerStep(t)
<1> DEFINE s == turn[t]
<1>1. DOMAIN s = Fields
  BY DEF Ready, Shape
<1>2. ASSUME StoreUser(t) PROVE AnswerStep(t)
  <2> DEFINE m == NewMessage(t, "user", NoTool, s.ms, 0, <<>>)
             v == [s EXCEPT !.pc = "hooks", !.lam = 0]
  <2>1. Persist(t, m, v) /\ s.pc = "user"
    BY <1>2 DEF StoreUser, At
  <2>2. m.turn = t /\ m.kind # "assistant" /\ ~IsAnswer(m)
    BY DEF NewMessage, IsAnswer
  <2>3. /\ v.iter = s.iter /\ v.cause = s.cause /\ v.calls = s.calls /\ v.pc = "hooks"
        /\ v.todo = s.todo /\ v.ok = s.ok
    BY <1>1, FieldNames
  <2> HIDE DEF m, v
  <2>4. Alike(s, v)
    BY <2>1, <2>3 DEF Alike, Open, Ending, Reading
  <2>5. QED
    BY <2>1, <2>2, <2>4, OtherMessage
<1>3. ASSUME StoreAwaited(t) PROVE AnswerStep(t)
  <2> DEFINE p == Least(s.waits)
             m == NewMessage(t, "await", ToolOf[s.calls[p]], now, p, <<>>)
             w == [s EXCEPT !.lam = 0, !.waits = @ \ {p}]
             v == IF w.waits # {} THEN [w EXCEPT !.pc = "await"] ELSE RunNext(w)
  <2>1. Persist(t, m, v) /\ s.pc = "awaited"
    BY <1>3 DEF StoreAwaited, At
  <2>2. m.turn = t /\ m.kind # "assistant" /\ ~IsAnswer(m)
    BY DEF NewMessage, IsAnswer
  <2>3. /\ DOMAIN w = Fields /\ w.iter = s.iter /\ w.cause = s.cause /\ w.calls = s.calls
        /\ w.todo = s.todo /\ w.ok = s.ok
    BY <1>1, FieldNames
  <2> HIDE DEF m, w
  <2>4. /\ v.iter = s.iter /\ v.cause = s.cause /\ v.calls = s.calls
        /\ v.pc \in {"await", "iterate", "run"} /\ v.todo = s.todo /\ v.ok = s.ok
    BY <2>3, FieldNames DEF RunNext
  <2> HIDE DEF v
  <2>5. Alike(s, v)
    BY <2>1, <2>4 DEF Alike, Open, Ending, Reading
  <2>6. QED
    BY <2>1, <2>2, <2>5, OtherMessage
<1>4. QED
  BY <1>2, <1>3

LEMMA StepKeepsAnswers ==
  ASSUME NEW t \in Turn, Ready(t), TurnStep(t)
  PROVE  AnswerStep(t)
<1> DEFINE s == turn[t]
           u == turn'[t]
<1>0. DOMAIN s = Fields
  BY DEF Ready, Shape
<1>1. QuietAnswers(t) => AnswerStep(t)
  BY QuietAnswerSteps, AlikeStep
<1>2. PermissionHook(t) \/ ApprovalGiven(t) \/ ApprovalDenied(t) \/ PreToolUse(t)
        => AnswerStep(t)
  <2>1. PermissionHook(t) \/ ApprovalGiven(t) \/ ApprovalDenied(t) \/ PreToolUse(t)
          => store' = store
    BY DEF PermissionHook, ApprovalGiven, ApprovalDenied, PreToolUse, Local
  <2>2. QED
    BY <2>1, GateSteps, AlikeStep
<1>3. LlmFails(t) \/ ListenerThrows(t) => AnswerStep(t)
  <2>1. ASSUME LlmFails(t) PROVE Broken(s, u) /\ store' = store
    BY <1>0, <2>1, FieldNames
    DEF LlmFails, Throw, Stop, Local, Become, Ready, Shape, Broken, Ending
  <2>2. ASSUME ListenerThrows(t) PROVE Broken(s, u) /\ store' = store
    BY <1>0, <2>2, FieldNames DEF ListenerThrows, Local, Become, Ready, Shape, Broken, Ending
  <2>3. QED
    BY <2>1, <2>2, BrokenStep
<1>4. QED
  BY <1>1, <1>2, <1>3, StartIterationAnswers, StoreAssistantAnswers, RunPluginsAnswers,
     StoreAnswerSteps, StoreOtherSteps DEF TurnStep, Progress, Setback, QuietAnswers

AnsweredInv ==
  /\ TurnsInv /\ Single(store)
  /\ \A t \in Turn : AnswerInv(t, turn[t], store)

LEMMA InitAnswers ==
  Init => AnsweredInv
<1> SUFFICES ASSUME Init PROVE AnsweredInv
  OBVIOUS
<1>1. Single(store)
  BY DEF Init, Single
<1>2. ASSUME NEW t \in Turn PROVE AnswerInv(t, turn[t], store)
  BY DEF Init, IdleTurn, AnswerInv, IsAnswered, Open, Ending
<1>3. QED
  BY <1>1, <1>2, InitTurns DEF AnsweredInv

LEMMA NextAnswers ==
  ASSUME AnsweredInv, [Next]_vars
  PROVE  AnsweredInv'
<1> SUFFICES Single(store') /\ \A t \in Turn : AnswerInv(t, turn'[t], store')
  BY NextTurns DEF AnsweredInv
<1>1. ASSUME NEW t \in Turn, TurnStep(t)
      PROVE  Single(store') /\ \A u \in Turn : AnswerInv(u, turn'[u], store')
  <2>1. AnswerStep(t)
    BY <1>1, StepKeepsAnswers DEF AnsweredInv, TurnsInv, Ready
  <2>2. PICK M : store' = store \cup M /\ \A m \in M : m.turn = t
    BY <2>1 DEF AnswerStep
  <2>3. ASSUME NEW u \in Turn, u # t PROVE AnswerInv(u, turn'[u], store')
    <3>1. turn'[u] = turn[u]
      BY <1>1, <2>3, OneTurn DEF AnsweredInv, TurnsInv, Shape
    <3>2. \A m \in M : m.turn # u
      BY <2>2, <2>3
    <3>3. AnswerInv(u, turn[u], store \cup M)
      BY <3>2, OthersAnswers DEF AnsweredInv
    <3>4. QED
      BY <2>2, <3>1, <3>3
  <2>4. QED
    BY <2>1, <2>3 DEF AnswerStep
<1>2. ASSUME CancelAgent
      PROVE  Single(store') /\ \A t \in Turn : AnswerInv(t, turn'[t], store')
  <2>1. store' = store
    BY <1>2 DEF CancelAgent
  <2>2. ASSUME NEW t \in Turn PROVE AnswerInv(t, turn'[t], store')
    <3> DEFINE s == turn[t]
               u == turn'[t]
    <3>1. u = [s EXCEPT !.told = TRUE] \/ u = s
      BY <1>2 DEF CancelAgent
    <3>2. /\ u.pc = s.pc /\ u.iter = s.iter /\ u.cause = s.cause /\ u.calls = s.calls
          /\ u.todo = s.todo /\ u.ok = s.ok /\ u.batch = s.batch
      BY <3>1, FieldNames DEF AnsweredInv, TurnsInv, Shape
    <3>3. AnswerInv(t, s, store)
      BY DEF AnsweredInv
    <3> HIDE DEF s, u
    <3>4. Open(u) = Open(s)
      BY <3>2 DEF Open
    <3>5. AnswerInv(t, u, store)
      BY <3>2, <3>3, <3>4 DEF AnswerInv, Batched
    <3>6. QED
      BY <2>1, <3>5 DEF u
  <2>3. QED
    BY <2>1, <2>2 DEF AnsweredInv
<1>3. ASSUME turn' = turn, store' = store
      PROVE  Single(store') /\ \A t \in Turn : AnswerInv(t, turn'[t], store')
  BY <1>3 DEF AnsweredInv
<1>4. QED
  BY <1>1, <1>2, <1>3 DEF Next, TurnStep, vars, Tick

\* A set whose members are all equal has at most one.
LEMMA AtMostOne ==
  ASSUME NEW S, \A x, y \in S : x = y
  PROVE  Cardinality(S) \in {0, 1} /\ (S # {} => Cardinality(S) = 1)
<1>1. CASE S = {}
  BY <1>1, FS_EmptySet
<1>2. CASE S # {}
  <2>1. PICK x \in S : S = {x}
    BY <1>2
  <2>2. QED
    BY <2>1, FS_Singleton
<1>3. QED
  BY <1>1, <1>2

LEMMA AnswersAreSingle ==
  ASSUME Single(store), NEW a, NEW p
  PROVE  \A x, y \in Answers(a, p) : x = y
BY DEF Single, Answers, IsAnswer

\* No call has two results, whatever plugins, gate and runner do with it and however many turns
\* write to the conversation; and a result comes after its call.
THEOREM CallsAreAnsweredInOrder ==
  Spec => []AnswersAreInOrder
<1>1. Init => AnsweredInv
  BY InitAnswers
<1>2. AnsweredInv /\ [Next]_vars => AnsweredInv'
  BY NextAnswers
<1>3. AnsweredInv => AnsweredAtMostOnce
  BY AnswersAreSingle, AtMostOne DEF AnsweredInv, AnsweredAtMostOnce
<1>4. QED
  BY <1>1, <1>2, <1>3, ResultsComeAfterCalls, PTL DEF Spec, AnswersAreInOrder

\* Without plugins each call of a turn has exactly one result whenever the LLM is asked to go on
\* and when the turn ends, unless an error or a listener broke it off: no path through gate and
\* runner drops a call.
THEOREM NoCallIsDropped ==
  ASSUME EnableToolLoop, PluginTools = {}
  PROVE  Spec => []EveryCallAnswered
<1>1. Init => AnsweredInv
  BY InitAnswers
<1>2. AnsweredInv /\ [Next]_vars => AnsweredInv'
  BY NextAnswers
<1>3. AnsweredInv => EveryCallAnswered
  <2> SUFFICES ASSUME AnsweredInv, NEW t \in Turn,
                      turn[t].pc = "llm" \/ (turn[t].pc = "done" /\ turn[t].cause = "none"),
                      NEW a \in store, a.kind = "assistant", a.turn = t, NEW p \in DOMAIN a.calls
               PROVE  Cardinality(Answers(a, p)) = 1
    BY DEF EveryCallAnswered, At
  <2>1. AnswerInv(t, turn[t], store) /\ Complete /\ turn[t].cause = "none"
    BY DEF AnsweredInv, Complete, AnswerInv, Ending
  <2>2. IsAnswered(store, t, a.iter, p)
    <3>1. a.iter \in Nat /\ (turn[t].pc = "llm" => a.iter < turn[t].iter)
      BY <2>1 DEF AnswerInv, Reading
    <3>2. turn[t].pc = "done" => Open(turn[t]) = {}
      BY DEF Open, Ending
    <3>3. (a.iter = turn[t].iter /\ p \in Open(turn[t])) \/ IsAnswered(store, t, a.iter, p)
      BY <2>1 DEF AnswerInv
    <3>4. turn[t].iter \in Nat
      BY <2>1 DEF AnswerInv
    <3>5. QED
      BY <3>1, <3>2, <3>3, <3>4
  <2>3. Answers(a, p) # {}
    BY <2>2 DEF IsAnswered, IsAnswer, Answers
  <2>4. \A x, y \in Answers(a, p) : x = y
    BY AnswersAreSingle DEF AnsweredInv
  <2>5. QED
    BY <2>3, <2>4, AtMostOne
<1>4. QED
  BY <1>1, <1>2, <1>3, PTL DEF Spec
=============================================================================
