---------------------------- MODULE PeopleProofs ----------------------------
(***************************************************************************)
(* Theorems about the parts that wait for people, for every value of the   *)
(* constants: approvals, questions and the messenger channel.              *)
(***************************************************************************)
EXTENDS MCPeople, SequenceLemmas, FiniteSetTheorems, SequenceTheorems,
        WellFoundedInduction, NaturalsInduction, TLAPS

-----------------------------------------------------------------------------
(***************************************************************************)
(* Approvals, as long as the gate never asks twice under one id            *)
(* (~MayCollide): nobody is answered for another, and what is shown as     *)
(* pending can still be answered.                                          *)
(***************************************************************************)

(***************************************************************************)
(* The inductive invariant.                                                *)
(***************************************************************************)

\* A plugin's request is under its own id, the gate's under one that says for
\* which tool it is.
IdShape ==
  \A r \in Asked :
    IF r \in Plugin THEN id[r] = r ELSE \E n \in Nat : id[r] = <<KeyOf[r], n>>

IdsDiffer == \A q, r \in Asked : id[q] = id[r] => q = r

\* The table and the promises speak of the same requests.
EntryIsOwn == \A i \in DOMAIN pending : id[pending[i]] = i

EntryIffUndecided == \A r \in Asked : r \in DOMAIN decision <=> id[r] \notin DOMAIN pending

\* A request has at most one timer, and only once it was asked.
OneTimer ==
  /\ \A t \in timers : t.request \in Asked
  /\ \A t, u \in timers : t.request = u.request => t = u

IInv ==
  /\ TypeOK /\ IdShape /\ IdsDiffer /\ EntryIsOwn /\ EntryIffUndecided /\ OneTimer
  /\ AllowedAsShown /\ DeniedForAReason

(***************************************************************************)
(* Functions that gain and lose an argument.                               *)
(***************************************************************************)
LEMMA WithoutFacts ==
  ASSUME NEW f, NEW S
  PROVE  /\ DOMAIN Without(f, S) = DOMAIN f \ S
         /\ \A z \in DOMAIN f \ S : Without(f, S)[z] = f[z]
BY DEF Without

LEMMA SettleFacts ==
  ASSUME NEW r, NEW d
  PROVE  /\ DOMAIN Settle(r, d) = DOMAIN decision \cup {r}
         /\ \A q \in DOMAIN decision : Settle(r, d)[q] = decision[q]
         /\ r \notin DOMAIN decision => Settle(r, d)[r] = d
BY DEF Settle, Put

\* The entry under the id of a request that is not decided is that request's.
LEMMA OwnEntry ==
  ASSUME IInv, NEW r \in Asked, id[r] \in DOMAIN pending
  PROVE  pending[id[r]] = r /\ r \notin DOMAIN decision
<1>1. pending[id[r]] \in Asked /\ id[pending[id[r]]] = id[r]
  BY DEF IInv, TypeOK, EntryIsOwn
<1>2. pending[id[r]] = r
  BY <1>1 DEF IInv, IdsDiffer
<1> QED BY <1>2 DEF IInv, EntryIffUndecided

\* A new request has an id that no other has.
LEMMA FreshId ==
  ASSUME IInv, ApprovalsAssumption, ~MayCollide, NEW r \in Request, NEW answer, Ask(r, answer)
  PROVE  /\ ApprovalId(r) \in Ids
         /\ \A q \in Asked : id[q] # ApprovalId(r)
         /\ IF r \in Plugin THEN ApprovalId(r) = r
                            ELSE \E n \in Nat : ApprovalId(r) = <<KeyOf[r], n>>
<1>1. now \in Nat
  BY DEF IInv, TypeOK
<1>2. CASE r \in Plugin
  <2>1. ApprovalId(r) = r
    BY <1>2 DEF ApprovalId
  <2>2. \A q \in Asked : id[q] # r
    <3>1. SUFFICES ASSUME NEW q \in Asked, id[q] = r PROVE FALSE
      OBVIOUS
    <3>2. q \in Request /\ q # r
      BY DEF IInv, TypeOK, Ask
    <3>3. CASE q \in Plugin
      BY <3>1, <3>2, <3>3 DEF IInv, IdShape
    <3>4. CASE q \notin Plugin
      <4>1. PICK n \in Nat : id[q] = <<KeyOf[q], n>>
        BY <3>4 DEF IInv, IdShape
      <4>2. r \in {KeyOf[p] : p \in Request} \X Nat
        BY <3>1, <3>2, <4>1
      <4> QED BY <1>2, <4>2 DEF ApprovalsAssumption
    <3> QED BY <3>3, <3>4
  <2> QED BY <1>2, <2>1, <2>2 DEF Ids
<1>3. CASE r \notin Plugin
  <2>1. ApprovalId(r) = <<KeyOf[r], now>>
    BY <1>3 DEF ApprovalId
  <2>2. \A q \in Asked : id[q] # <<KeyOf[r], now>>
    BY <1>3 DEF Ask
  <2>3. <<KeyOf[r], now>> \in {KeyOf[p] : p \in Request \ Plugin} \X Nat
    BY <1>1, <1>3
  <2> QED BY <1>1, <1>3, <2>1, <2>2, <2>3 DEF Ids
<1> QED BY <1>2, <1>3

(***************************************************************************)
(* Initially.                                                              *)
(***************************************************************************)
LEMMA InitInv == Init => IInv
BY DEF Init, Empty, IInv, TypeOK, Asked, IdShape, IdsDiffer, EntryIsOwn, EntryIffUndecided,
       OneTimer, AllowedAsShown, DeniedForAReason

(***************************************************************************)
(* Asking.                                                                 *)
(***************************************************************************)
LEMMA AskInv ==
  ASSUME IInv, ApprovalsAssumption, ~MayCollide, NEW r \in Request, RequestApproval(r)
  PROVE  IInv'
<1> PICK answer \in Decisions \cup {"later"} : Ask(r, answer)
  BY DEF RequestApproval
<1> DEFINE i == ApprovalId(r)
           t0 == [request |-> r, due |-> now + Timeout]
<1>1. /\ i \in Ids /\ \A q \in Asked : id[q] # i
      /\ IF r \in Plugin THEN i = r ELSE \E n \in Nat : i = <<KeyOf[r], n>>
  BY FreshId
<1>2. /\ r \notin Asked /\ id' = Put(id, r, i) /\ timers' = timers \cup {t0}
      /\ UNCHANGED <<cancelled, now>>
  BY DEF Ask
<1> HIDE DEF i
<1>3. /\ Asked' = Asked \cup {r} /\ id'[r] = i
      /\ \A q \in Asked : id'[q] = id[q]
  <2>1. /\ DOMAIN Put(id, r, i) = DOMAIN id \cup {r} /\ Put(id, r, i)[r] = i
        /\ \A z \in DOMAIN id : z # r => Put(id, r, i)[z] = id[z]
    BY DEF Put
  <2> QED BY <1>2, <2>1 DEF Asked
<1>4. i \notin DOMAIN pending
  BY <1>1 DEF IInv, TypeOK
<1>5. r \notin DOMAIN decision
  BY <1>2 DEF IInv, TypeOK
<1>6. IdShape' /\ IdsDiffer'
  <2>1. \A q \in Asked : id'[q] = id[q] /\ q # r /\ id'[q] # i
    BY <1>1, <1>2, <1>3
  <2>2. IdsDiffer'
    BY <1>3, <2>1 DEF IInv, IdsDiffer
  <2>3. IdShape'
    BY <1>1, <1>3, <2>1 DEF IInv, IdShape
  <2> QED BY <2>2, <2>3
<1>7. OneTimer'
  BY <1>2, <1>3 DEF IInv, OneTimer
<1>8. t0 \in Timer
  BY DEF IInv, TypeOK, Timer, ApprovalsAssumption
<1>9. CASE answer = "later"
  <2>1. pending' = Put(pending, i, r) /\ UNCHANGED <<decision, said>>
    BY <1>9 DEF Ask, i
  <2>2. /\ DOMAIN pending' = DOMAIN pending \cup {i} /\ pending'[i] = r
        /\ \A j \in DOMAIN pending : pending'[j] = pending[j]
    <3>1. /\ DOMAIN Put(pending, i, r) = DOMAIN pending \cup {i} /\ Put(pending, i, r)[i] = r
          /\ \A z \in DOMAIN pending : z # i => Put(pending, i, r)[z] = pending[z]
      BY DEF Put
    <3> QED BY <1>4, <2>1, <3>1
  <2>3. TypeOK'
    BY <1>1, <1>2, <1>3, <1>8, <2>1, <2>2 DEF IInv, TypeOK
  <2>4. EntryIsOwn'
    <3>1. \A j \in DOMAIN pending : pending[j] \in Asked /\ id[pending[j]] = j
      BY DEF IInv, TypeOK, EntryIsOwn
    <3> QED BY <1>3, <2>2, <3>1 DEF EntryIsOwn
  <2>5. EntryIffUndecided'
    BY <1>1, <1>3, <1>5, <2>1, <2>2 DEF IInv, EntryIffUndecided
  <2>6. AllowedAsShown'
    BY <2>1 DEF IInv, AllowedAsShown
  <2>7. DeniedForAReason'
    BY <1>2, <1>5, <2>1 DEF IInv, DeniedForAReason
  <2> QED BY <1>6, <1>7, <2>3, <2>4, <2>5, <2>6, <2>7 DEF IInv
<1>10. CASE answer # "later"
  <2>1. /\ answer \in Decisions /\ pending' = Without(pending, {i})
        /\ decision' = Settle(r, answer)
        /\ said' = [said EXCEPT ![r] = @ \cup {answer}]
    BY <1>10 DEF Ask, i
  <2>2. /\ DOMAIN pending' = DOMAIN pending
        /\ \A j \in DOMAIN pending : pending'[j] = pending[j]
    <3>1. /\ DOMAIN Without(pending, {i}) = DOMAIN pending \ {i}
          /\ \A z \in DOMAIN pending \ {i} : Without(pending, {i})[z] = pending[z]
      BY WithoutFacts, Zenon
    <3> QED BY <1>4, <2>1, <3>1
  <2>3. /\ DOMAIN decision' = DOMAIN decision \cup {r} /\ decision'[r] = answer
        /\ \A q \in DOMAIN decision : decision'[q] = decision[q]
    BY <1>5, <2>1, SettleFacts
  <2>4. /\ said' \in [Request -> SUBSET Decisions]
        /\ \A q \in Request : said[q] \subseteq said'[q]
        /\ answer \in said'[r]
    BY <2>1 DEF IInv, TypeOK
  <2>5. TypeOK'
    <3>1. /\ Asked' \subseteq Request /\ \A q \in Asked' : id'[q] \in Ids
          /\ timers' \subseteq Timer /\ cancelled' \in [Agents -> BOOLEAN] /\ now' \in Nat
      BY <1>1, <1>2, <1>3, <1>8 DEF IInv, TypeOK
    <3>2. /\ DOMAIN pending' \subseteq {id'[q] : q \in Asked'}
          /\ \A j \in DOMAIN pending' : pending'[j] \in Asked'
      BY <1>3, <2>2 DEF IInv, TypeOK
    <3>3. /\ DOMAIN decision' \subseteq Asked'
          /\ \A q \in DOMAIN decision' : decision'[q] \in Decisions
      BY <1>3, <2>1, <2>3 DEF IInv, TypeOK
    <3> QED BY <2>4, <3>1, <3>2, <3>3 DEF TypeOK
  <2>6. EntryIsOwn'
    <3>1. \A j \in DOMAIN pending : pending[j] \in Asked /\ id[pending[j]] = j
      BY DEF IInv, TypeOK, EntryIsOwn
    <3> QED BY <1>3, <2>2, <3>1 DEF EntryIsOwn
  <2>7. EntryIffUndecided'
    BY <1>2, <1>3, <1>4, <2>2, <2>3 DEF IInv, EntryIffUndecided
  <2>8. AllowedAsShown'
    BY <2>3, <2>4 DEF IInv, TypeOK, AllowedAsShown
  <2>9. DeniedForAReason'
    BY <1>2, <1>5, <2>3, <2>4 DEF IInv, TypeOK, DeniedForAReason
  <2> QED BY <1>6, <1>7, <2>5, <2>6, <2>7, <2>8, <2>9 DEF IInv
<1> QED BY <1>9, <1>10

(***************************************************************************)
(* Answering.                                                              *)
(***************************************************************************)

\* Taking the entry of a request out while its promise is settled.
LEMMA SettleInv ==
  ASSUME IInv, NEW r \in Asked, NEW d \in Decisions, id[r] \in DOMAIN pending,
         decision' = Settle(r, d), pending' = Without(pending, {id[r]}), UNCHANGED id
  PROVE  /\ DOMAIN decision' = DOMAIN decision \cup {r} /\ DOMAIN decision' \subseteq Asked'
         /\ decision'[r] = d /\ \A q \in DOMAIN decision : decision'[q] = decision[q]
         /\ \A q \in DOMAIN decision' : decision'[q] \in Decisions
         /\ DOMAIN pending' \subseteq {id'[q] : q \in Asked'}
         /\ \A j \in DOMAIN pending' : pending'[j] \in Asked'
         /\ EntryIsOwn' /\ EntryIffUndecided'
<1>1. r \notin DOMAIN decision
  BY OwnEntry
<1>2. /\ DOMAIN decision' = DOMAIN decision \cup {r} /\ decision'[r] = d
      /\ \A q \in DOMAIN decision : decision'[q] = decision[q]
  BY <1>1, SettleFacts
<1>3. /\ DOMAIN pending' = DOMAIN pending \ {id[r]}
      /\ \A j \in DOMAIN pending' : pending'[j] = pending[j]
  <2>1. /\ DOMAIN Without(pending, {id[r]}) = DOMAIN pending \ {id[r]}
        /\ \A z \in DOMAIN pending \ {id[r]} : Without(pending, {id[r]})[z] = pending[z]
    BY WithoutFacts, Zenon
  <2> QED BY <2>1
<1>4. Asked' = Asked
  BY DEF Asked
<1>5. EntryIffUndecided'
  <2>1. \A q \in Asked : q # r => id[q] # id[r]
    BY DEF IInv, IdsDiffer
  <2>2. \A q \in Asked : q \in DOMAIN decision <=> id[q] \notin DOMAIN pending
    BY DEF IInv, EntryIffUndecided
  <2> QED BY <1>2, <1>3, <1>4, <2>1, <2>2 DEF EntryIffUndecided
<1>6. EntryIsOwn'
  BY <1>3 DEF IInv, EntryIsOwn
<1> QED BY <1>2, <1>3, <1>4, <1>5, <1>6 DEF IInv, TypeOK

LEMMA ResolveInv ==
  ASSUME IInv, NEW r \in Request, ResolveApproval(r)
  PROVE  IInv'
<1>1. PICK d \in Decisions :
        /\ r \in Asked
        /\ said' = [said EXCEPT ![r] = @ \cup {d}]
        /\ IF id[r] \in DOMAIN pending
           THEN /\ decision' = Settle(pending[id[r]], d)
                /\ pending' = Without(pending, {id[r]})
           ELSE UNCHANGED <<decision, pending>>
        /\ UNCHANGED <<id, timers, cancelled, now>>
  BY DEF ResolveApproval
<1>2. /\ said' \in [Request -> SUBSET Decisions]
      /\ \A q \in Request : said[q] \subseteq said'[q]
      /\ d \in said'[r]
  BY <1>1 DEF IInv, TypeOK
<1>3. Asked' = Asked /\ IdShape' /\ IdsDiffer' /\ OneTimer'
  BY <1>1 DEF IInv, Asked, IdShape, IdsDiffer, OneTimer
<1>4. CASE id[r] \in DOMAIN pending
  <2>1. pending[id[r]] = r
    BY <1>1, <1>4, OwnEntry
  <2>2. decision' = Settle(r, d) /\ pending' = Without(pending, {id[r]})
    BY <1>1, <1>4, <2>1
  <2>3. /\ DOMAIN decision' = DOMAIN decision \cup {r} /\ DOMAIN decision' \subseteq Asked'
        /\ decision'[r] = d /\ \A q \in DOMAIN decision : decision'[q] = decision[q]
        /\ \A q \in DOMAIN decision' : decision'[q] \in Decisions
        /\ DOMAIN pending' \subseteq {id'[q] : q \in Asked'}
        /\ \A j \in DOMAIN pending' : pending'[j] \in Asked'
        /\ EntryIsOwn' /\ EntryIffUndecided'
    BY <1>1, <1>4, <2>2, SettleInv
  <2>4. TypeOK'
    BY <1>1, <1>2, <1>3, <2>3 DEF IInv, TypeOK
  <2>5. AllowedAsShown' /\ DeniedForAReason'
    BY <1>1, <1>2, <2>3 DEF IInv, TypeOK, AllowedAsShown, DeniedForAReason
  <2> QED BY <1>3, <2>3, <2>4, <2>5 DEF IInv
<1>5. CASE id[r] \notin DOMAIN pending
  <2>1. UNCHANGED <<decision, pending>>
    BY <1>1, <1>5
  <2>2. TypeOK'
    BY <1>1, <1>2, <1>3, <2>1 DEF IInv, TypeOK
  <2>3. EntryIsOwn' /\ EntryIffUndecided'
    BY <1>1, <1>3, <2>1 DEF IInv, EntryIsOwn, EntryIffUndecided
  <2>4. AllowedAsShown' /\ DeniedForAReason'
    BY <1>1, <1>2, <2>1 DEF IInv, TypeOK, AllowedAsShown, DeniedForAReason
  <2> QED BY <1>3, <2>2, <2>3, <2>4 DEF IInv
<1> QED BY <1>4, <1>5

(***************************************************************************)
(* Timers, cancellation and the clock.                                     *)
(***************************************************************************)
LEMMA ExpireInv == ASSUME IInv, Expire PROVE IInv'
<1> PICK t \in timers :
      /\ timers' = timers \ {t} /\ TimerDenies(t)
      /\ UNCHANGED <<id, said, cancelled, now>>
  BY DEF Expire
<1> DEFINE r == t.request
<1>1. r \in Asked /\ \A u \in timers' : u \in timers /\ u.request # r
  BY DEF IInv, OneTimer
<1>2. Asked' = Asked /\ IdShape' /\ IdsDiffer' /\ OneTimer'
  BY DEF IInv, Asked, IdShape, IdsDiffer, OneTimer
<1> HIDE DEF r
<1>3. CASE id[r] \in DOMAIN pending
  <2>1. decision' = Settle(r, "deny") /\ pending' = Without(pending, {id[r]})
    BY <1>3 DEF TimerDenies, r
  <2>2. /\ DOMAIN decision' = DOMAIN decision \cup {r} /\ DOMAIN decision' \subseteq Asked'
        /\ decision'[r] = "deny" /\ \A q \in DOMAIN decision : decision'[q] = decision[q]
        /\ \A q \in DOMAIN decision' : decision'[q] \in Decisions
        /\ DOMAIN pending' \subseteq {id'[q] : q \in Asked'}
        /\ \A j \in DOMAIN pending' : pending'[j] \in Asked'
        /\ EntryIsOwn' /\ EntryIffUndecided'
    <3>1. "deny" \in Decisions
      BY DEF Decisions
    <3> QED BY <1>1, <1>3, <2>1, <3>1, SettleInv
  <2>3. TypeOK'
    BY <1>1, <1>2, <2>2 DEF IInv, TypeOK
  <2>4. AllowedAsShown' /\ DeniedForAReason'
    BY <1>1, <2>2 DEF IInv, AllowedAsShown, DeniedForAReason
  <2> QED BY <1>2, <2>2, <2>3, <2>4 DEF IInv
<1>4. CASE id[r] \notin DOMAIN pending
  <2>1. UNCHANGED <<decision, pending>>
    BY <1>4 DEF TimerDenies, r
  <2>2. TypeOK'
    BY <1>1, <1>2, <2>1 DEF IInv, TypeOK
  <2>3. EntryIsOwn' /\ EntryIffUndecided'
    BY <1>2, <2>1 DEF IInv, EntryIsOwn, EntryIffUndecided
  <2>4. AllowedAsShown' /\ DeniedForAReason'
    BY <1>1, <2>1 DEF IInv, AllowedAsShown, DeniedForAReason
  <2> QED BY <1>2, <2>2, <2>3, <2>4 DEF IInv
<1> QED BY <1>3, <1>4

LEMMA CancelInv ==
  ASSUME IInv, NEW a \in Agents, CancelPending(a)
  PROVE  IInv'
<1> DEFINE taken == {pending[i] : i \in PendingOf(a)}
<1>1. /\ pending' = Without(pending, PendingOf(a))
      /\ cancelled' = [cancelled EXCEPT ![a] = TRUE]
      /\ UNCHANGED <<id, timers, said, now>>
  BY DEF CancelPending
<1>2. /\ DOMAIN decision' = DOMAIN decision \cup taken
      /\ \A q \in DOMAIN decision : decision'[q] = decision[q]
      /\ \A q \in taken : q \notin DOMAIN decision => decision'[q] = "deny"
  BY DEF CancelPending
<1>3. /\ DOMAIN pending' = DOMAIN pending \ PendingOf(a)
      /\ \A j \in DOMAIN pending' : pending'[j] = pending[j]
  <2>1. /\ DOMAIN Without(pending, PendingOf(a)) = DOMAIN pending \ PendingOf(a)
        /\ \A z \in DOMAIN pending \ PendingOf(a) : Without(pending, PendingOf(a))[z] = pending[z]
    BY WithoutFacts, Zenon
  <2> QED BY <1>1, <2>1
<1>4. Asked' = Asked /\ IdShape' /\ IdsDiffer' /\ OneTimer'
  BY <1>1 DEF IInv, Asked, IdShape, IdsDiffer, OneTimer
<1>5. \A q \in taken : q \in Asked /\ AgentOf[q] = a /\ id[q] \in PendingOf(a)
  BY DEF IInv, TypeOK, EntryIsOwn, PendingOf
<1>6. \A q \in Asked : id[q] \in PendingOf(a) => q \in taken
  BY OwnEntry DEF PendingOf
<1> HIDE DEF taken
<1>7. EntryIffUndecided'
  BY <1>1, <1>2, <1>3, <1>4, <1>5, <1>6 DEF IInv, EntryIffUndecided
<1>8. EntryIsOwn'
  BY <1>1, <1>3 DEF IInv, EntryIsOwn
<1>9. TypeOK'
  <2>1. "deny" \in Decisions
    BY DEF Decisions
  <2>2. cancelled' \in [Agents -> BOOLEAN]
    BY <1>1 DEF IInv, TypeOK
  <2> QED BY <1>1, <1>2, <1>3, <1>4, <1>5, <2>1, <2>2 DEF IInv, TypeOK
<1>10. cancelled'[a] /\ \A b \in Agents : cancelled[b] => cancelled'[b]
  BY <1>1 DEF IInv, TypeOK
<1>11. AllowedAsShown'
  BY <1>1, <1>2 DEF IInv, AllowedAsShown
<1>12. DeniedForAReason'
  <2> SUFFICES ASSUME NEW q \in DOMAIN decision', decision'[q] = "deny"
               PROVE  \/ "deny" \in said'[q]
                      \/ cancelled'[AgentOf[q]]
                      \/ \A t \in timers' : t.request # q
    BY DEF DeniedForAReason
  <2>1. CASE q \in DOMAIN decision
    <3>1. AgentOf[q] \in Agents
      BY <2>1 DEF IInv, TypeOK, Agents
    <3> QED BY <1>1, <1>2, <1>10, <2>1, <3>1 DEF IInv, DeniedForAReason
  <2>2. CASE q \in taken
    BY <1>5, <1>10, <2>2
  <2> QED BY <1>2, <2>1, <2>2
<1> QED BY <1>4, <1>7, <1>8, <1>9, <1>11, <1>12 DEF IInv

\* The clock moves, or nothing does.
LEMMA OtherInv ==
  ASSUME IInv, Tick \/ UNCHANGED vars
  PROVE  IInv'
<1>1. UNCHANGED <<id, pending, timers, decision, said, cancelled>> /\ now' \in Nat
  BY DEF IInv, TypeOK, Tick, vars
<1>2. Asked' = Asked /\ TypeOK'
  BY <1>1 DEF IInv, TypeOK, Asked
<1> QED BY <1>1, <1>2 DEF IInv, IdShape, IdsDiffer, EntryIsOwn, EntryIffUndecided, OneTimer,
                          AllowedAsShown, DeniedForAReason

(***************************************************************************)
(* The theorems.                                                           *)
(***************************************************************************)
LEMMA NextInv ==
  ASSUME IInv, ApprovalsAssumption, ~MayCollide, [Next]_vars
  PROVE  IInv'
<1>1. ASSUME NEW r \in Request, RequestApproval(r) PROVE IInv'
  BY <1>1, AskInv
<1>2. ASSUME NEW r \in Request, ResolveApproval(r) PROVE IInv'
  BY <1>2, ResolveInv
<1>3. ASSUME Expire PROVE IInv'
  BY <1>3, ExpireInv
<1>4. ASSUME NEW a \in Agents, CancelPending(a) PROVE IInv'
  BY <1>4, CancelInv
<1>5. ASSUME Tick \/ UNCHANGED vars PROVE IInv'
  BY <1>5, OtherInv
<1> QED BY <1>1, <1>2, <1>3, <1>4, <1>5 DEF Next

\* While no two requests share an id, the inductive invariant holds in every
\* state of the table (requestApproval, resolveApproval, the timers).
THEOREM ApprovalsInvariant == ~MayCollide /\ Spec => []IInv
<1>1. Init => IInv
  BY InitInv
<1>2. ~MayCollide /\ IInv /\ [Next]_vars => IInv'
  BY NextInv, ApprovalsAssumption
<1>3. CASE ~MayCollide
  <2>1. IInv /\ [Next]_vars => IInv'
    BY <1>2, <1>3
  <2> QED BY <1>1, <2>1, PTL DEF Spec
<1>4. CASE MayCollide
  BY <1>4
<1> QED BY <1>3, <1>4

LEMMA TableIsUndecided == ASSUME IInv PROVE PendingIsUndecided
<1>1. ASSUME NEW i \in DOMAIN pending PROVE pending[i] \in Undecided
  <2>1. pending[i] \in Asked /\ id[pending[i]] = i
    BY DEF IInv, TypeOK, EntryIsOwn
  <2> QED BY <2>1 DEF IInv, EntryIffUndecided, Undecided
<1>2. ASSUME NEW r \in Undecided PROVE r \in {pending[i] : i \in DOMAIN pending}
  <2>1. r \in Asked /\ id[r] \in DOMAIN pending
    BY DEF IInv, EntryIffUndecided, Undecided
  <2> QED BY <2>1, OwnEntry
<1> QED BY <1>1, <1>2 DEF PendingIsUndecided

\* A request is allowed only by somebody who was shown this very request
\* (resolveApproval).
THEOREM AnsweredAsShown == ~MayCollide /\ Spec => []AllowedAsShown
<1>1. IInv => AllowedAsShown
  BY DEF IInv
<1> QED BY <1>1, ApprovalsInvariant, PTL

\* A request is denied only for a reason of its own: not by what happens to
\* another (resolveApproval, the timers, cancelPendingApprovals).
THEOREM DeniedForItsOwnReason == ~MayCollide /\ Spec => []DeniedForAReason
<1>1. IInv => DeniedForAReason
  BY DEF IInv
<1> QED BY <1>1, ApprovalsInvariant, PTL

\* What getPendingApprovals returns is exactly what still waits for an answer.
THEOREM ShownIsUndecided == ~MayCollide /\ Spec => []PendingIsUndecided
<1>1. IInv => PendingIsUndecided
  BY TableIsUndecided
<1> QED BY <1>1, ApprovalsInvariant, PTL

-----------------------------------------------------------------------------
(* Questions to the user *)

QuestionSpec == QuestionInit /\ [][QuestionNext]_questionVars

\* Registered, timed and waiting are one, and only a settled question has an answer.
QuestionOk(q) ==
  /\ asking[q].st \in {"off", "waiting", "settled", "returned"}
  /\ q \in registry <=> asking[q].st = "waiting"
  /\ q \in waits <=> asking[q].st = "waiting"
  /\ asking[q].st \in {"off", "waiting"} => asking[q].result = NoAnswer /\ accepted[q].taken = {}
  /\ asking[q].st \in {"settled", "returned"} =>
       \/ asking[q].result = "timeout" /\ accepted[q].taken = {}
       \/ asking[q].result \in Answers /\ accepted[q].taken = {asking[q].result}

QuestionShape ==
  /\ asking = [q \in QuestionIds |-> asking[q]]
  /\ accepted = [q \in QuestionIds |-> accepted[q]]
  /\ \A q \in QuestionIds : /\ DOMAIN asking[q] = {"st", "result"}
                            /\ DOMAIN accepted[q] = {"taken", "refused"}

QuestionInv == QuestionShape /\ \A q \in QuestionIds : QuestionOk(q)

LEMMA QuestionInvInit ==
  QuestionInit => QuestionInv
BY DEF QuestionInit, QuestionInv, QuestionShape, QuestionOk

\* A step leaves the other questions alone.
OnlyOf(q) ==
  /\ \E s, c : /\ asking' = [asking EXCEPT ![q] = s] /\ DOMAIN s = {"st", "result"}
               /\ accepted' = [accepted EXCEPT ![q] = c] /\ DOMAIN c = {"taken", "refused"}
  /\ registry' \ {q} = registry \ {q} /\ waits' \ {q} = waits \ {q}

LEMMA OtherQuestions ==
  ASSUME QuestionInv, NEW q \in QuestionIds, OnlyOf(q), QuestionOk(q)'
  PROVE  QuestionInv'
<1>1. PICK s, c : /\ asking' = [asking EXCEPT ![q] = s] /\ DOMAIN s = {"st", "result"}
                  /\ accepted' = [accepted EXCEPT ![q] = c] /\ DOMAIN c = {"taken", "refused"}
  BY DEF OnlyOf
<1>2. QuestionShape'
  BY <1>1 DEF QuestionInv, QuestionShape
<1>3. ASSUME NEW p \in QuestionIds, p # q PROVE QuestionOk(p)'
  <2>1. asking'[p] = asking[p] /\ accepted'[p] = accepted[p]
    BY <1>1, <1>3 DEF QuestionInv, QuestionShape
  <2>2. (p \in registry' <=> p \in registry) /\ (p \in waits' <=> p \in waits)
    BY <1>3 DEF OnlyOf
  <2>3. QED
    BY <2>1, <2>2 DEF QuestionInv, QuestionOk
<1>4. QED
  BY <1>2, <1>3 DEF QuestionInv

LEMMA QuestionInvNext ==
  ASSUME QuestionInv, [QuestionNext]_questionVars
  PROVE  QuestionInv'
<1>1. ASSUME NEW q \in QuestionIds, NEW s, NEW c,
             asking' = [asking EXCEPT ![q] = s], DOMAIN s = {"st", "result"},
             accepted' = [accepted EXCEPT ![q] = c], DOMAIN c = {"taken", "refused"},
             registry' \ {q} = registry \ {q}, waits' \ {q} = waits \ {q},
             asking'[q] = s /\ accepted'[q] = c => QuestionOk(q)'
      PROVE  QuestionInv'
  <2>1. asking'[q] = s /\ accepted'[q] = c
    BY <1>1 DEF QuestionInv, QuestionShape
  <2>2. OnlyOf(q)
    BY <1>1 DEF OnlyOf
  <2>3. QED
    BY <1>1, <2>1, <2>2, OtherQuestions
<1>2. ASSUME NEW q \in QuestionIds, AskQuestion(q) PROVE QuestionInv'
  <2>1. PICK hasty \in SUBSET Answers :
          accepted' = [accepted EXCEPT ![q].refused = @ \cup hasty]
    BY <1>2 DEF AskQuestion
  <2> DEFINE s == [asking[q] EXCEPT !.st = "waiting"]
             c == [accepted[q] EXCEPT !.refused = @ \cup hasty]
  <2>2. asking' = [asking EXCEPT ![q] = s] /\ accepted' = [accepted EXCEPT ![q] = c]
    BY <1>2, <2>1 DEF AskQuestion
  <2>3. registry' = registry \cup {q} /\ waits' = waits \cup {q} /\ asking[q].st = "off"
    BY <1>2 DEF AskQuestion
  <2>4. asking[q].result = NoAnswer /\ accepted[q].taken = {}
    BY <2>3 DEF QuestionInv, QuestionOk
  <2>5. /\ DOMAIN s = {"st", "result"} /\ s.st = "waiting" /\ s.result = NoAnswer
        /\ DOMAIN c = {"taken", "refused"} /\ c.taken = {}
    BY <2>4 DEF QuestionInv, QuestionShape
  <2> HIDE DEF s, c
  <2>6. asking'[q] = s /\ accepted'[q] = c => QuestionOk(q)'
    BY <2>3, <2>5 DEF QuestionOk
  <2>7. registry' \ {q} = registry \ {q} /\ waits' \ {q} = waits \ {q}
    BY <2>3
  <2>8. QED
    BY <1>1, <2>2, <2>5, <2>6, <2>7
<1>3. ASSUME NEW q \in QuestionIds, NEW a \in Answers, Answer(q, a), q \in registry
      PROVE  QuestionInv'
  <2> DEFINE s == [st |-> "settled", result |-> a]
             c == [accepted[q] EXCEPT !.taken = @ \cup {a}]
  <2>1. asking[q].st = "waiting" /\ accepted[q].taken = {}
    BY <1>3 DEF QuestionInv, QuestionOk
  <2>2. asking' = [asking EXCEPT ![q] = s] /\ accepted' = [accepted EXCEPT ![q] = c]
    BY <1>3, <2>1 DEF Answer, SettleQuestion
  <2>3. registry' = registry \ {q} /\ waits' = waits \ {q}
    BY <1>3 DEF Answer
  <2>4. /\ DOMAIN s = {"st", "result"} /\ s.st = "settled" /\ s.result = a
        /\ DOMAIN c = {"taken", "refused"} /\ c.taken = {a}
    BY <2>1 DEF QuestionInv, QuestionShape
  <2> HIDE DEF s, c
  <2>5. asking'[q] = s /\ accepted'[q] = c => QuestionOk(q)'
    BY <1>3, <2>3, <2>4 DEF QuestionOk
  <2>6. registry' \ {q} = registry \ {q} /\ waits' \ {q} = waits \ {q}
    BY <2>3
  <2>7. QED
    BY <1>1, <2>2, <2>4, <2>5, <2>6
<1>4. ASSUME NEW q \in QuestionIds, NEW a \in Answers, Answer(q, a), q \notin registry
      PROVE  QuestionInv'
  <2> DEFINE c == [accepted[q] EXCEPT !.refused = @ \cup {a}]
  <2>1. accepted' = [accepted EXCEPT ![q] = c] /\ registry' = registry /\ waits' = waits
        /\ asking' = asking
    BY <1>4 DEF Answer
  <2>2. /\ DOMAIN c = {"taken", "refused"} /\ c.taken = accepted[q].taken
        /\ DOMAIN asking[q] = {"st", "result"} /\ QuestionOk(q)
    BY DEF QuestionInv, QuestionShape
  <2> HIDE DEF c
  <2>3. asking' = [asking EXCEPT ![q] = asking[q]]
    BY <2>1 DEF QuestionInv, QuestionShape
  <2>4. asking'[q] = asking[q] /\ accepted'[q] = c => QuestionOk(q)'
    BY <2>1, <2>2 DEF QuestionOk
  <2>5. QED
    BY <1>1, <2>1, <2>2, <2>3, <2>4
<1>5. ASSUME NEW q \in QuestionIds, QuestionTimer(q) PROVE QuestionInv'
  <2> DEFINE s == [st |-> "settled", result |-> "timeout"]
             c == accepted[q]
  <2>1. asking[q].st = "waiting" /\ accepted[q].taken = {}
    BY <1>5 DEF QuestionTimer, QuestionInv, QuestionOk
  <2>2. asking' = [asking EXCEPT ![q] = s] /\ accepted' = [accepted EXCEPT ![q] = c]
    BY <1>5, <2>1 DEF QuestionTimer, SettleQuestion, QuestionInv, QuestionShape
  <2>3. registry' = registry \ {q} /\ waits' = waits \ {q}
    BY <1>5 DEF QuestionTimer
  <2>4. /\ DOMAIN s = {"st", "result"} /\ s.st = "settled" /\ s.result = "timeout"
        /\ DOMAIN c = {"taken", "refused"} /\ c.taken = {}
    BY <2>1 DEF QuestionInv, QuestionShape
  <2> HIDE DEF s, c
  <2>5. asking'[q] = s /\ accepted'[q] = c => QuestionOk(q)'
    BY <2>3, <2>4 DEF QuestionOk
  <2>6. registry' \ {q} = registry \ {q} /\ waits' \ {q} = waits \ {q}
    BY <2>3
  <2>7. QED
    BY <1>1, <2>2, <2>4, <2>5, <2>6
<1>6. ASSUME NEW q \in QuestionIds, ToolReturns(q) PROVE QuestionInv'
  <2> DEFINE s == [asking[q] EXCEPT !.st = "returned"]
             c == accepted[q]
  <2>1. /\ asking' = [asking EXCEPT ![q] = s] /\ accepted' = accepted
        /\ registry' = registry /\ waits' = waits /\ asking[q].st = "settled"
    BY <1>6 DEF ToolReturns
  <2>2. accepted' = [accepted EXCEPT ![q] = c]
    BY <2>1 DEF QuestionInv, QuestionShape
  <2>3. /\ DOMAIN s = {"st", "result"} /\ s.st = "returned" /\ s.result = asking[q].result
        /\ DOMAIN c = {"taken", "refused"} /\ QuestionOk(q)
    BY DEF QuestionInv, QuestionShape
  <2> HIDE DEF s
  <2>4. asking'[q] = s /\ accepted'[q] = c => QuestionOk(q)'
    BY <2>1, <2>3 DEF QuestionOk
  <2> HIDE DEF c
  <2>5. QED
    BY <1>1, <2>1, <2>2, <2>3, <2>4
<1>7. ASSUME UNCHANGED questionVars PROVE QuestionInv'
  BY <1>7 DEF questionVars, QuestionInv, QuestionShape, QuestionOk
<1>8. QED
  BY <1>2, <1>3, <1>4, <1>5, <1>6, <1>7 DEF QuestionNext

\* What the host was told is accepted is what the agent gets, however late, often or early the
\* host answers, for any number of questions (askQuestion, resolveQuestionAnswer).
THEOREM AcceptedIsReturned ==
  ASSUME "timeout" \notin Answers, NoAnswer \notin Answers
  PROVE  QuestionSpec => []AnswersReachTheAgent
<1>1. QuestionInit => QuestionInv
  BY QuestionInvInit
<1>2. QuestionInv /\ [QuestionNext]_questionVars => QuestionInv'
  BY QuestionInvNext
<1>3. QuestionInv => AnswersReachTheAgent
  BY DEF QuestionInv, QuestionOk, AnswersReachTheAgent, NoAnswer
<1>4. QED
  BY <1>1, <1>2, <1>3, PTL DEF QuestionSpec

-----------------------------------------------------------------------------
(* Texts of the messenger *)

RequestFields == {"pc", "user", "op", "row", "conv", "made", "wanted", "lost"}

MaybeConv == Convs \union {NoConv}

ImTypes ==
    /\ DOMAIN conv = Convs /\ \A c \in Convs : DOMAIN conv[c] = {"tag", "texts"}
    /\ newest \in 0..MaxConvs
    /\ cache \in [ImUsers -> MaybeConv] /\ row \in [ImUsers -> MaybeConv] /\ chosen = row
    /\ DOMAIN request = Requests

\* Where a request is says where its text is: nowhere before it was sent, then in one
\* conversation; and that is the one its user had chosen when it came, if there was one.
RequestOk(r) ==
    LET x == request[r] IN
    /\ DOMAIN x = RequestFields
    /\ x.pc \in {"off", "bound", "create", "send", "pick", "switch", "tag", "upsert", "tagged", "done"}
    /\ x.pc \notin {"off", "done"} => x.user \in ImUsers
    /\ x.row \in MaybeConv
    /\ x.pc \in {"off", "bound", "create", "send"} => Holders(r) = {}
    /\ x.pc \in {"pick", "switch"} => x.op = "switch"
    /\ x.pc \in {"send", "switch", "tag", "upsert", "tagged"} => x.conv \in Convs
    /\ x.pc = "bound" => x.row = x.wanted
    /\ x.pc = "send" => x.op = "text" /\ (x.wanted # NoConv => x.conv = x.wanted)
    /\ x.pc = "create" /\ x.op = "text" => x.wanted = NoConv
    /\ x.pc \in {"tag", "upsert", "tagged"} /\ x.op = "text" =>
         Holders(r) = {x.conv} /\ (x.wanted # NoConv => x.conv = x.wanted)
    /\ Completed(r) => \E c \in Convs : Holders(r) = {c} /\ (x.wanted # NoConv => c = x.wanted)

ImInv == ImTypes /\ \A r \in Requests : RequestOk(r)

LEMMA ImInitially ==
  ASSUME ImInit
  PROVE  ImInv
<1>1. ImTypes
  BY ChannelAssumption DEF ImInit, ImTypes, MaybeConv, NoConv
<1>2. ASSUME NEW r \in Requests PROVE RequestOk(r)
  BY DEF ImInit, RequestOk, RequestFields, Holders, Completed, MaybeConv
<1> QED BY <1>1, <1>2 DEF ImInv

LEMMA TextsAreBound == ImInv => TextsFollowTheBinding
<1> SUFFICES ASSUME ImInv, NEW r \in Requests, Completed(r)
             PROVE  /\ Cardinality(Holders(r)) = 1
                    /\ request[r].wanted # NoConv => Holders(r) = {request[r].wanted}
  BY DEF TextsFollowTheBinding
<1>1. PICK c \in Convs : Holders(r) = {c} /\ (request[r].wanted # NoConv => c = request[r].wanted)
  BY DEF ImInv, RequestOk
<1>2. Cardinality({c}) = 1
  BY FS_Singleton
<1> QED BY <1>1, <1>2

\* A step of one request that leaves the texts of the others where they are.
LEMMA RequestMoves ==
  ASSUME ImInv, NEW r \in Requests, ImTypes', RequestOk(r)',
         \A q \in Requests \ {r} : request'[q] = request[q] /\ Holders(q)' = Holders(q)
  PROVE  ImInv'
<1>1. ASSUME NEW q \in Requests \ {r} PROVE RequestOk(q)'
  BY DEF ImInv, RequestOk, Completed
<1> QED BY <1>1 DEF ImInv

\* What ends a request without a text that was delivered.
LEMMA DoneKeeps ==
  ASSUME ImInv, NEW r \in Requests, NEW lost \in BOOLEAN, Done(r, lost),
         lost \/ request[r].op # "text" \/ request[r].pc = "tagged",
         UNCHANGED <<conv, newest>>,
         cache' \in [ImUsers -> MaybeConv], row' \in [ImUsers -> MaybeConv], chosen' = row'
  PROVE  ImInv'
<1> DEFINE x == Finished(request[r], lost)
<1>1. RequestOk(r) /\ ImTypes /\ request' = [request EXCEPT ![r] = x]
  BY DEF ImInv, Done
<1>2. /\ DOMAIN x = RequestFields /\ x.pc = "done" /\ x.row = NoConv /\ x.lost = lost
      /\ x.op = request[r].op /\ x.wanted = request[r].wanted
  BY <1>1 DEF Finished, RequestOk, RequestFields
<1> HIDE DEF x
<1>3. request'[r] = x /\ (\A q \in Requests \ {r} : request'[q] = request[q]) /\ DOMAIN request' = Requests
  BY <1>1 DEF ImTypes
<1>4. \A q \in Requests : Holders(q)' = Holders(q)
  BY DEF Holders
<1>5. ImTypes'
  BY <1>1, <1>3 DEF ImTypes
<1>6. RequestOk(r)'
  <2>1. Completed(r)' => request[r].pc = "tagged" /\ request[r].op = "text"
    BY <1>2, <1>3 DEF Completed
  <2> QED BY <1>1, <1>2, <1>3, <1>4, <2>1 DEF RequestOk, MaybeConv
<1> QED BY <1>3, <1>4, <1>5, <1>6, RequestMoves

LEMMA BindingIs ==
  ASSUME ImInv, NEW r \in Requests, request[r].pc = "bound"
  PROVE  /\ Binding(r) \in MaybeConv
         /\ request[r].wanted # NoConv => Binding(r) = request[r].wanted
         /\ Refresh(r) => cache' \in [ImUsers -> MaybeConv]
BY DEF ImInv, ImTypes, RequestOk, Binding, Refresh

LEMMA ReceiveKeeps ==
  ASSUME ImInv, NEW r \in Requests, NEW u \in ImUsers, NEW op \in Ops, Receive(r, u, op)
  PROVE  ImInv'
<1> DEFINE x == [request[r] EXCEPT !.pc = "bound", !.user = u, !.op = op,
                                   !.row = row[u], !.wanted = chosen[u]]
<1>1. /\ request[r].pc = "off" /\ UNCHANGED <<conv, newest, cache, row, chosen>>
      /\ ImTypes /\ RequestOk(r) /\ request' = [request EXCEPT ![r] = x]
  BY DEF Receive, ImInv, ImTypes
<1>2. /\ DOMAIN x = RequestFields /\ x.pc = "bound" /\ x.user = u /\ x.row = row[u]
      /\ x.wanted = row[u] /\ row[u] \in MaybeConv
  BY <1>1 DEF RequestOk, RequestFields, ImTypes
<1> HIDE DEF x
<1>3. /\ request'[r] = x /\ (\A q \in Requests \ {r} : request'[q] = request[q])
      /\ \A q \in Requests : Holders(q)' = Holders(q)
  BY <1>1 DEF ImTypes, Holders
<1>4. ImTypes'
  BY <1>1 DEF ImTypes
<1>5. RequestOk(r)'
  BY <1>1, <1>2, <1>3 DEF RequestOk, Completed
<1> QED BY <1>3, <1>4, <1>5, RequestMoves

LEMMA HaveBindingKeeps ==
  ASSUME ImInv, NEW r \in Requests, HaveBinding(r)
  PROVE  ImInv'
<1> DEFINE pc == AfterBinding(request[r].op, Binding(r) # NoConv)
<1>1. /\ request[r].pc = "bound" /\ Refresh(r) /\ UNCHANGED <<conv, newest, row, chosen>>
      /\ ImTypes /\ RequestOk(r)
      /\ IF pc = "done" THEN Done(r, FALSE) ELSE GotoWith(r, pc, Binding(r))
  BY DEF HaveBinding, ImInv
<1>2. /\ pc \in {"create", "send", "pick", "done"}
      /\ pc = "done" => request[r].op # "text"
      /\ pc = "pick" => request[r].op = "switch"
      /\ pc = "send" => request[r].op = "text" /\ Binding(r) # NoConv
      /\ pc = "create" /\ request[r].op = "text" => Binding(r) = NoConv
  BY DEF AfterBinding
<1> HIDE DEF pc
<1>3. cache' \in [ImUsers -> MaybeConv] /\ row' \in [ImUsers -> MaybeConv] /\ chosen' = row'
  BY <1>1, BindingIs DEF ImTypes
<1>4. CASE pc = "done"
  BY <1>1, <1>2, <1>3, <1>4, DoneKeeps
<1>5. CASE pc # "done"
  <2> DEFINE x == [request[r] EXCEPT !.pc = pc, !.conv = Binding(r)]
  <2>1. request' = [request EXCEPT ![r] = x]
    BY <1>1, <1>5 DEF GotoWith, ImTypes
  <2>2. /\ DOMAIN x = RequestFields /\ x.pc = pc /\ x.conv = Binding(r) /\ x.op = request[r].op
        /\ x.user = request[r].user /\ x.row = request[r].row /\ x.wanted = request[r].wanted
    BY <1>1 DEF RequestOk, RequestFields
  <2> HIDE DEF x
  <2>3. request'[r] = x /\ (\A q \in Requests \ {r} : request'[q] = request[q]) /\ DOMAIN request' = Requests
    BY <1>1, <2>1 DEF ImTypes
  <2>4. \A q \in Requests : Holders(q)' = Holders(q)
    BY <1>1 DEF Holders
  <2>5. ImTypes'
    BY <1>1, <1>3, <2>3 DEF ImTypes
  <2>6. pc \in {"create", "send", "pick"} /\ ~Completed(r)'
    BY <1>2, <1>5, <2>2, <2>3 DEF Completed
  <2>7. Binding(r) \in MaybeConv /\ (request[r].wanted # NoConv => Binding(r) = request[r].wanted)
    BY <1>1, BindingIs
  <2>8. /\ x.pc \in {"off", "bound", "create", "send", "pick", "switch", "tag", "upsert", "tagged", "done"}
        /\ x.user \in ImUsers /\ x.row \in MaybeConv /\ Holders(r)' = {}
        /\ x.pc \notin {"tag", "upsert", "tagged", "switch", "bound"}
    BY <1>1, <2>2, <2>4, <2>6 DEF RequestOk
  <2>9. RequestOk(r)'
    BY <1>2, <2>2, <2>3, <2>6, <2>7, <2>8 DEF RequestOk, MaybeConv
  <2> QED BY <2>3, <2>4, <2>5, <2>9, RequestMoves
<1> QED BY <1>4, <1>5

\* The text of a request goes into a conversation.
LEMMA TextArrives ==
  ASSUME ImInv, NEW r \in Requests, NEW c \in Convs, NEW k,
         conv' = [conv EXCEPT ![c] = k], DOMAIN k = {"tag", "texts"},
         k.texts = IF request[r].op = "text" THEN conv[c].texts \union {r} ELSE conv[c].texts,
         Holders(r) = {}
  PROVE  /\ \A q \in Requests \ {r} : Holders(q)' = Holders(q)
         /\ request[r].op = "text" => Holders(r)' = {c}
         /\ request[r].op # "text" => Holders(r)' = Holders(r)
         /\ DOMAIN conv' = Convs /\ \A d \in Convs : DOMAIN conv'[d] = {"tag", "texts"}
<1>1. /\ conv'[c] = k /\ (\A d \in Convs \ {c} : conv'[d] = conv[d])
      /\ DOMAIN conv' = Convs /\ \A d \in Convs : DOMAIN conv'[d] = {"tag", "texts"}
  BY DEF ImInv, ImTypes
<1> QED BY <1>1 DEF Holders

LEMMA CreateKeeps ==
  ASSUME ImInv, NEW r \in Requests, NEW c \in Convs, CreateConversation(r, c)
  PROVE  ImInv'
<1> DEFINE text == request[r].op = "text"
           k == [conv[c] EXCEPT !.tag = "none", !.texts = IF text THEN @ \union {r} ELSE @]
           x == [request[r] EXCEPT !.pc = "tag", !.conv = c, !.made = TRUE]
<1>1. /\ request[r].pc = "create" /\ newest' = c /\ UNCHANGED <<cache, row, chosen>>
      /\ ImTypes /\ RequestOk(r)
      /\ conv' = [conv EXCEPT ![c].tag = "none",
                              ![c].texts = IF request[r].op = "text" THEN @ \cup {r} ELSE @]
      /\ request' = [request EXCEPT ![r].pc = "tag", ![r].conv = c, ![r].made = TRUE]
  BY DEF CreateConversation, ImInv
<1>2. conv' = [conv EXCEPT ![c] = k] /\ request' = [request EXCEPT ![r] = x]
  BY <1>1 DEF ImTypes
<1>3. /\ DOMAIN k = {"tag", "texts"}
      /\ k.texts = IF text THEN conv[c].texts \union {r} ELSE conv[c].texts
  BY <1>1 DEF ImTypes
<1>4. /\ DOMAIN x = RequestFields /\ x.pc = "tag" /\ x.conv = c /\ x.op = request[r].op
      /\ x.user = request[r].user /\ x.row = request[r].row /\ x.wanted = request[r].wanted
  BY <1>1 DEF RequestOk, RequestFields
<1> HIDE DEF k, x
<1>5. /\ request'[r] = x /\ (\A q \in Requests \ {r} : request'[q] = request[q])
      /\ DOMAIN request' = Requests
  BY <1>1, <1>2 DEF ImTypes
<1>6. Holders(r) = {}
  BY <1>1 DEF RequestOk
<1>7. /\ \A q \in Requests \ {r} : Holders(q)' = Holders(q)
      /\ request[r].op = "text" => Holders(r)' = {c}
      /\ DOMAIN conv' = Convs /\ \A d \in Convs : DOMAIN conv'[d] = {"tag", "texts"}
  BY <1>2, <1>3, <1>6, TextArrives
<1>8. c \in 0..MaxConvs
  BY ChannelAssumption DEF Convs
<1>9. ImTypes'
  BY <1>1, <1>5, <1>7, <1>8 DEF ImTypes
<1>10. RequestOk(r)'
  BY <1>1, <1>4, <1>5, <1>7 DEF RequestOk, Completed
<1> QED BY <1>5, <1>7, <1>9, <1>10, RequestMoves

\* A step that only moves a request on, or gives it a conversation.
LEMMA GotoKeeps ==
  ASSUME ImInv, NEW r \in Requests, NEW pc, NEW c, GotoWith(r, pc, c),
         \/ request[r].pc = "pick" /\ pc = "switch" /\ c \in Convs
         \/ request[r].pc \in {"tag", "upsert"} /\ pc \in {"upsert", "tagged"} /\ c = request[r].conv,
         \A q \in Requests : Holders(q)' = Holders(q),
         DOMAIN conv' = Convs, \A d \in Convs : DOMAIN conv'[d] = {"tag", "texts"},
         UNCHANGED <<newest, cache, row, chosen>>
  PROVE  ImInv'
<1> DEFINE x == [request[r] EXCEPT !.pc = pc, !.conv = c]
<1>1. request' = [request EXCEPT ![r] = x] /\ ImTypes /\ RequestOk(r)
  BY DEF GotoWith, ImInv, ImTypes
<1>2. /\ DOMAIN x = RequestFields /\ x.pc = pc /\ x.conv = c /\ x.op = request[r].op
      /\ x.user = request[r].user /\ x.row = request[r].row /\ x.wanted = request[r].wanted
  BY <1>1 DEF RequestOk, RequestFields
<1> HIDE DEF x
<1>3. /\ request'[r] = x /\ (\A q \in Requests \ {r} : request'[q] = request[q])
      /\ DOMAIN request' = Requests
  BY <1>1 DEF ImTypes
<1>4. ImTypes'
  BY <1>1, <1>3 DEF ImTypes
<1>5. RequestOk(r)'
  BY <1>1, <1>2, <1>3 DEF RequestOk, Completed
<1> QED BY <1>3, <1>4, <1>5, RequestMoves

\* Moving on keeps the conversation of a request.
LEMMA GotoIs ==
  ASSUME ImInv, NEW r \in Requests, NEW pc, Goto(r, pc)
  PROVE  GotoWith(r, pc, request[r].conv)
<1>1. DOMAIN request[r] = RequestFields /\ DOMAIN request = Requests
  BY DEF ImInv, ImTypes, RequestOk
<1> DEFINE x == [request[r] EXCEPT !.pc = pc]
<1>2. x = [request[r] EXCEPT !.pc = pc, !.conv = request[r].conv]
  BY <1>1 DEF RequestFields
<1> QED BY <1>1, <1>2 DEF Goto, GotoWith

LEMMA SendKeeps ==
  ASSUME ImInv, NEW r \in Requests, SendText(r)
  PROVE  ImInv'
<1> DEFINE c == request[r].conv
           k == [conv[c] EXCEPT !.texts = @ \union {r}]
           x == [request[r] EXCEPT !.pc = "tag"]
<1>1. /\ request[r].pc = "send" /\ conv' = [conv EXCEPT ![c].texts = @ \union {r}] /\ Goto(r, "tag")
      /\ UNCHANGED <<newest, cache, row, chosen>>
      /\ ImTypes /\ RequestOk(r)
  BY DEF SendText, ImInv
<1>2. c \in Convs /\ request[r].op = "text" /\ Holders(r) = {}
  BY <1>1 DEF RequestOk
<1>3. conv' = [conv EXCEPT ![c] = k] /\ request' = [request EXCEPT ![r] = x]
  BY <1>1, <1>2 DEF ImTypes, Goto
<1>4. DOMAIN k = {"tag", "texts"} /\ k.texts = conv[c].texts \union {r}
  BY <1>1, <1>2 DEF ImTypes
<1>5. /\ DOMAIN x = RequestFields /\ x.pc = "tag" /\ x.conv = c /\ x.op = request[r].op
      /\ x.user = request[r].user /\ x.row = request[r].row /\ x.wanted = request[r].wanted
  BY <1>1 DEF RequestOk, RequestFields
<1> HIDE DEF k, x
<1>6. /\ request'[r] = x /\ (\A q \in Requests \ {r} : request'[q] = request[q])
      /\ DOMAIN request' = Requests
  BY <1>1, <1>3 DEF ImTypes
<1>7. /\ \A q \in Requests \ {r} : Holders(q)' = Holders(q)
      /\ Holders(r)' = {c}
      /\ DOMAIN conv' = Convs /\ \A d \in Convs : DOMAIN conv'[d] = {"tag", "texts"}
  BY <1>2, <1>3, <1>4, TextArrives
<1>8. ImTypes'
  BY <1>1, <1>6, <1>7 DEF ImTypes
<1>9. RequestOk(r)'
  BY <1>1, <1>2, <1>5, <1>6, <1>7 DEF RequestOk, Completed
<1> QED BY <1>6, <1>7, <1>8, <1>9, RequestMoves

LEMMA TagKeeps ==
  ASSUME ImInv, NEW r \in Requests, ReadMeta(r) \/ WriteTag(r)
  PROVE  ImInv'
<1> DEFINE c == request[r].conv
<1>1. ImTypes /\ RequestOk(r)
  BY DEF ImInv
<1>2. CASE ReadMeta(r)
  <2> PICK pc \in {"upsert", "tagged"} : Goto(r, pc)
    BY <1>2 DEF ReadMeta
  <2>1. GotoWith(r, pc, c)
    BY GotoIs
  <2>2. /\ request[r].pc = "tag" /\ UNCHANGED <<conv, newest, cache, row, chosen>>
        /\ \A q \in Requests : Holders(q)' = Holders(q)
    BY <1>2 DEF ReadMeta, Holders
  <2> QED BY <1>1, <2>1, <2>2, GotoKeeps DEF ImTypes
<1>3. CASE WriteTag(r)
  <2>1. GotoWith(r, "tagged", c)
    BY <1>3, GotoIs DEF WriteTag
  <2>2. /\ request[r].pc = "upsert" /\ conv' = [conv EXCEPT ![c].tag = request[r].user]
        /\ UNCHANGED <<newest, cache, row, chosen>>
    BY <1>3 DEF WriteTag
  <2>3. /\ DOMAIN conv' = Convs
        /\ \A d \in Convs : DOMAIN conv'[d] = {"tag", "texts"} /\ conv'[d].texts = conv[d].texts
    BY <1>1, <2>2 DEF ImTypes
  <2>4. \A q \in Requests : Holders(q)' = Holders(q)
    BY <2>3 DEF Holders
  <2> QED BY <2>1, <2>2, <2>3, <2>4, GotoKeeps
<1> QED BY <1>2, <1>3

\* A user is bound to a conversation, in memory and in the table.
LEMMA BoundIs ==
  ASSUME ImInv, NEW r \in Requests, request[r].conv \in Convs, request[r].user \in ImUsers,
         SetBinding(request[r].user, request[r].conv),
         chosen' = [chosen EXCEPT ![request[r].user] = request[r].conv]
  PROVE  cache' \in [ImUsers -> MaybeConv] /\ row' \in [ImUsers -> MaybeConv] /\ chosen' = row'
BY DEF ImInv, ImTypes, SetBinding, MaybeConv

LEMMA FinishKeeps ==
  ASSUME ImInv, NEW r \in Requests, FinishOrBind(r)
  PROVE  ImInv'
<1>1. /\ request[r].pc = "tagged" /\ Done(r, FALSE) /\ UNCHANGED <<conv, newest>>
      /\ request[r].conv \in Convs /\ request[r].user \in ImUsers /\ ImTypes
  BY DEF FinishOrBind, ImInv, RequestOk
<1>2. cache' \in [ImUsers -> MaybeConv] /\ row' \in [ImUsers -> MaybeConv] /\ chosen' = row'
  <2>1. CASE request[r].made
    BY <1>1, <2>1, BoundIs DEF FinishOrBind
  <2>2. CASE ~request[r].made
    BY <1>1, <2>2 DEF FinishOrBind, ImTypes
  <2> QED BY <2>1, <2>2
<1> QED BY <1>1, <1>2, DoneKeeps

LEMMA PickKeeps ==
  ASSUME ImInv, NEW r \in Requests, PickTarget(r)
  PROVE  ImInv'
<1>1. /\ request[r].pc = "pick" /\ UNCHANGED <<conv, newest, cache, row, chosen>>
      /\ request[r].op = "switch" /\ ImTypes /\ \A q \in Requests : Holders(q)' = Holders(q)
  BY DEF PickTarget, ImInv, RequestOk, Holders
<1>2. CASE Done(r, FALSE)
  BY <1>1, <1>2, DoneKeeps DEF ImTypes
<1>3. ASSUME NEW c \in 1..newest, GotoWith(r, "switch", c) PROVE ImInv'
  <2>1. c \in Convs
    BY <1>1, ChannelAssumption DEF ImTypes, Convs
  <2> QED BY <1>1, <1>3, <2>1, GotoKeeps DEF ImTypes
<1> QED BY <1>2, <1>3 DEF PickTarget

LEMMA SwitchKeeps ==
  ASSUME ImInv, NEW r \in Requests, Switch(r)
  PROVE  ImInv'
<1>1. /\ request[r].pc = "switch" /\ Done(r, FALSE) /\ UNCHANGED <<conv, newest>>
      /\ request[r].conv \in Convs /\ request[r].user \in ImUsers /\ request[r].op = "switch"
  BY DEF Switch, ImInv, RequestOk
<1>2. cache' \in [ImUsers -> MaybeConv] /\ row' \in [ImUsers -> MaybeConv] /\ chosen' = row'
  BY <1>1, BoundIs DEF Switch
<1> QED BY <1>1, <1>2, DoneKeeps

LEMMA RestartKeeps ==
  ASSUME ImInv, RestartManager
  PROVE  ImInv'
<1>1. /\ request' = [r \in Requests |->
                       IF InFlight(r) THEN Finished(request[r], TRUE) ELSE request[r]]
      /\ cache' = [u \in ImUsers |-> NoConv]
      /\ UNCHANGED <<conv, newest, row, chosen>> /\ ImTypes
  BY DEF RestartManager, ImInv
<1>2. ImTypes' /\ \A r \in Requests : Holders(r)' = Holders(r)
  BY <1>1 DEF ImTypes, MaybeConv, Holders
<1>3. ASSUME NEW r \in Requests PROVE RequestOk(r)'
  <2>1. RequestOk(r)
    BY DEF ImInv
  <2>2. CASE InFlight(r)
    <3> DEFINE x == Finished(request[r], TRUE)
    <3>1. /\ DOMAIN x = RequestFields /\ x.pc = "done" /\ x.row = NoConv /\ x.lost = TRUE
      BY <2>1 DEF Finished, RequestOk, RequestFields
    <3>2. request'[r] = x
      BY <1>1, <2>2
    <3> HIDE DEF x
    <3> QED BY <3>1, <3>2 DEF RequestOk, Completed, MaybeConv
  <2>3. CASE ~InFlight(r)
    <3>1. request'[r] = request[r]
      BY <1>1, <2>3
    <3> QED BY <1>2, <2>1, <3>1 DEF RequestOk, Completed
  <2> QED BY <2>2, <2>3
<1> QED BY <1>2, <1>3 DEF ImInv

LEMMA ImInvKept ==
  ASSUME ImInv, [ImNext]_imVars
  PROVE  ImInv'
<1>1. CASE UNCHANGED imVars
  BY <1>1 DEF imVars, ImInv, ImTypes, RequestOk, Completed, Holders
<1>2. ASSUME NEW r \in Requests, RequestFails(r) PROVE ImInv'
  BY <1>2, DoneKeeps DEF RequestFails, ImInv, ImTypes
<1> QED BY <1>1, <1>2, ReceiveKeeps, HaveBindingKeeps, CreateKeeps, SendKeeps, TagKeeps,
           FinishKeeps, PickKeeps, SwitchKeeps, RestartKeeps DEF ImNext, RequestStep
-----------------------------------------------------------------------------
(* Replies to the messenger *)

Shown(x) == IF x \in Blanks THEN <<>> ELSE <<x>>
Pieces(s) == [k \in DOMAIN s |-> Shown(s[k])]

LEMMA PiecesAre ==
  ASSUME NEW s \in Seq(Nat)
  PROVE  /\ Pieces(s) \in Seq(Seq(Nat)) /\ Len(Pieces(s)) = Len(s)
         /\ Visible(s) = FlattenSeq(Pieces(s))
<1>1. s \in [1..Len(s) -> Nat] /\ Len(s) \in Nat
  BY LenProperties
<1>2. \A k \in 1..Len(s) : Shown(s[k]) \in Seq(Nat)
  BY <1>1 DEF Shown
<1>3. Pieces(s) \in [1..Len(s) -> Seq(Nat)]
  BY <1>1, <1>2 DEF Pieces
<1>4. Visible(s) = FlattenSeq(Pieces(s))
  BY DEF Visible, Pieces, Shown
<1> QED BY <1>1, <1>3, <1>4, IsSeqOf

LEMMA VisibleConcat ==
  ASSUME NEW s \in Seq(Nat), NEW t \in Seq(Nat)
  PROVE  s \o t \in Seq(Nat) /\ Visible(s \o t) = Visible(s) \o Visible(t)
<1> DEFINE st == s \o t
<1>1. /\ st \in Seq(Nat) /\ Len(st) = Len(s) + Len(t)
      /\ \A i \in 1..(Len(s) + Len(t)) : st[i] = IF i <= Len(s) THEN s[i] ELSE t[i - Len(s)]
  BY ConcatProperties
<1> HIDE DEF st
<1> DEFINE p == Pieces(s) \o Pieces(t)
<1>2. /\ p \in Seq(Seq(Nat)) /\ Len(p) = Len(s) + Len(t)
      /\ \A i \in 1..(Len(s) + Len(t)) :
           p[i] = IF i <= Len(s) THEN Pieces(s)[i] ELSE Pieces(t)[i - Len(s)]
  <2> DEFINE ps == Pieces(s)
             pt == Pieces(t)
  <2>1. ps \in Seq(Seq(Nat)) /\ Len(ps) = Len(s) /\ pt \in Seq(Seq(Nat)) /\ Len(pt) = Len(t)
    BY PiecesAre
  <2> HIDE DEF ps, pt
  <2>2. /\ ps \o pt \in Seq(Seq(Nat)) /\ Len(ps \o pt) = Len(ps) + Len(pt)
        /\ \A i \in 1..(Len(ps) + Len(pt)) :
             (ps \o pt)[i] = IF i <= Len(ps) THEN ps[i] ELSE pt[i - Len(ps)]
    BY <2>1, ConcatProperties
  <2> QED BY <2>1, <2>2 DEF ps, pt
<1> HIDE DEF p
<1>3. Pieces(st) = p
  <2>1. ASSUME NEW i \in 1..Len(Pieces(st)) PROVE Pieces(st)[i] = p[i]
    <3>1. i \in 1..(Len(s) + Len(t)) /\ Pieces(st)[i] = Shown(st[i])
      BY <1>1, PiecesAre DEF Pieces
    <3>2. i <= Len(s) => Pieces(s)[i] = Shown(s[i])
      BY <3>1 DEF Pieces
    <3>3. ~(i <= Len(s)) => Pieces(t)[i - Len(s)] = Shown(t[i - Len(s)])
      <4> SUFFICES ASSUME ~(i <= Len(s)) PROVE i - Len(s) \in DOMAIN t
        BY DEF Pieces
      <4> QED BY <3>1, LenProperties
    <3> QED BY <1>1, <1>2, <3>1, <3>2, <3>3
  <2>2. Pieces(st) \in Seq(Seq(Nat)) /\ Len(Pieces(st)) = Len(p)
    BY <1>1, <1>2, PiecesAre
  <2> QED BY <1>2, <2>1, <2>2, SeqEqual
<1>4. Visible(st) = FlattenSeq(Pieces(s) \o Pieces(t))
  BY <1>1, <1>3, PiecesAre DEF p
<1>5. FlattenSeq(Pieces(s) \o Pieces(t)) = FlattenSeq(Pieces(s)) \o FlattenSeq(Pieces(t))
  <2>1. Pieces(s) \in Seq(Seq(Nat)) /\ Pieces(t) \in Seq(Seq(Nat))
    BY PiecesAre
  <2> QED BY <2>1, FlattenConcat
<1>6. Visible(s) = FlattenSeq(Pieces(s)) /\ Visible(t) = FlattenSeq(Pieces(t))
  BY PiecesAre
<1>7. Visible(st) = Visible(s) \o Visible(t)
  BY <1>4, <1>5, <1>6
<1> QED BY <1>1, <1>7 DEF st

LEMMA VisibleEmpty == Visible(<<>>) = <<>>
  BY FlattenEmpty DEF Visible

LEMMA VisibleIsSeq ==
  ASSUME NEW s \in Seq(Nat)
  PROVE  Visible(s) \in Seq(Nat)
<1>1. <<>> \in Seq(Nat)
  BY EmptySeq
<1> QED BY <1>1, PiecesAre, FlattenAppend

\* Text of white space only shows nothing.
LEMMA BlankIsInvisible ==
  ASSUME NEW s \in Seq(Nat), \A k \in 1..Len(s) : s[k] \in Blanks
  PROVE  Visible(s) = <<>>
<1> DEFINE Blank(t) == \A k \in 1..Len(t) : t[k] \in Blanks
           Bad == {n \in Nat : \E t \in Seq(Nat) : Len(t) = n /\ Blank(t) /\ Visible(t) # <<>>}
<1> SUFFICES ASSUME Bad # {} PROVE FALSE
  BY LenProperties
<1>1. PICK n \in Bad : \A m \in Bad : n <= m
  BY NatMin
<1>2. PICK t \in Seq(Nat) : Len(t) = n /\ Blank(t) /\ Visible(t) # <<>>
  BY <1>1
<1>3. t # <<>>
  BY <1>2, VisibleEmpty
<1> DEFINE front == SubSeq(t, 1, Len(t) - 1)
           last == t[Len(t)]
<1>4. /\ front \in Seq(Nat) /\ Len(front) = Len(t) - 1 /\ last \in Nat /\ t = Append(front, last)
  BY <1>3, LastAppended
<1> HIDE DEF front
<1>5. n \in Nat \ {0} /\ Len(t) = n /\ last \in Blanks
  BY <1>1, <1>2, <1>3, EmptySeq
<1>6. Blank(front)
  <2> SUFFICES ASSUME NEW k \in 1..Len(front) PROVE front[k] \in Blanks
    OBVIOUS
  <2>1. /\ Len(Append(front, last)) = Len(front) + 1
        /\ \A i \in 1..Len(front) : Append(front, last)[i] = front[i]
    BY <1>4, AppendProperties
  <2>2. k \in 1..Len(t)
    BY <1>4, <1>5
  <2>3. t[k] = front[k]
    BY <1>4, <2>1
  <2> QED BY <1>2, <2>2, <2>3
<1>7. Visible(front) = <<>>
  <2>1. n - 1 \in Nat /\ ~(n <= n - 1)
    BY <1>5
  <2>2. n - 1 \notin Bad
    BY <1>1, <2>1
  <2> QED BY <1>4, <1>5, <1>6, <2>1, <2>2
<1> HIDE DEF last
<1>8. t = front \o <<last>> /\ <<last>> \in Seq(Nat)
  BY <1>4, AppendIsConcat
<1>9. Visible(<<last>>) = <<>>
  <2>1. Pieces(<<last>>) = <<<<>>>> /\ <<<<>>>> = Append(<<>>, <<>>)
    BY <1>5 DEF Pieces, Shown
  <2>2. <<>> \in Seq(Seq(Nat)) /\ <<>> \in Seq(Nat)
    BY EmptySeq
  <2>3. FlattenSeq(Append(<<>>, <<>>)) = FlattenSeq(<<>>) \o <<>>
    BY <2>2, FlattenAppend
  <2>4. <<>> \o <<>> = <<>>
    BY <2>2, ConcatEmptySeq
  <2> QED BY <1>8, <2>1, <2>3, <2>4, FlattenEmpty, PiecesAre
<1>10. Visible(t) = Visible(front) \o Visible(<<last>>)
  BY <1>4, <1>8, VisibleConcat
<1>11. <<>> \o <<>> = <<>>
  BY EmptySeq, ConcatEmptySeq
<1> QED BY <1>2, <1>7, <1>9, <1>10, <1>11

\* Each piece of a buffer is in one of its chunks.
LEMMA EveryPieceIsInAChunk ==
  ASSUME ReplyAssumption, NEW b \in Seq(Nat), NEW i \in 1..Len(b)
  PROVE  \E k \in Chunks(b) : /\ (k - 1) * ChunkSize < i /\ i <= k * ChunkSize
                              /\ b[i] \in ToSet(Chunk(b, k))
<1> DEFINE C == ChunkSize
           Covers == {k \in Nat : i <= k * C}
<1>1. C \in Nat \ {0} /\ i \in Nat \ {0} /\ Len(b) \in Nat /\ i <= Len(b)
  BY LenProperties DEF ReplyAssumption
<1> HIDE DEF C
<1>2. i <= i * C
  BY <1>1
<1>3. PICK k \in Covers : \A j \in Covers : k <= j
  <2>1. i \in Covers
    BY <1>1, <1>2
  <2> QED BY <2>1, NatMin
<1>4. k \in Nat /\ i <= k * C /\ k <= i
  BY <1>1, <1>2, <1>3
<1>5. k # 0
  BY <1>1, <1>4
<1> DEFINE lo == (k - 1) * C
<1>6. lo < i
  <2>1. k - 1 \in Nat /\ ~(k <= k - 1)
    BY <1>4, <1>5
  <2>2. k - 1 \notin Covers
    BY <1>3, <2>1
  <2>3. ~(i <= lo)
    BY <2>1, <2>2
  <2>4. lo \in Nat
    BY <2>1, <1>1
  <2> QED BY <2>3, <2>4, <1>1
<1>7. k * C = lo + C /\ lo \in Nat /\ k * C \in Nat
  BY <1>1, <1>4, <1>5
<1>8. k \in Chunks(b)
  <2>1. k \in 1..Len(b)
    BY <1>1, <1>4, <1>5
  <2>2. (k - 1) * ChunkSize < Len(b)
    BY <1>1, <1>6, <1>7 DEF C
  <2> QED BY <2>1, <2>2 DEF Chunks
<1> DEFINE hi == IF k * C < Len(b) THEN k * C ELSE Len(b)
<1>9. hi \in Nat /\ lo < i /\ i <= hi /\ hi <= Len(b)
  BY <1>1, <1>4, <1>6, <1>7
<1>10. Chunk(b, k) = SubSeq(b, lo + 1, hi)
  BY DEF Chunk, C
<1> HIDE DEF lo, hi
<1> DEFINE c == SubSeq(b, lo + 1, hi)
<1>11. Len(c) = hi - lo /\ \A j \in 1..(hi - lo) : c[j] = b[lo + j]
  <2>1. lo + 1 \in 1..(Len(b) + 1) /\ hi \in lo..Len(b)
    BY <1>1, <1>7, <1>9
  <2> QED BY <1>1, <1>7, <1>9, <2>1, SubSeqProperties
<1>12. c \in Seq(Nat)
  BY <1>1, <1>7, <1>9, SubSeqProperties
<1> HIDE DEF c
<1>13. i - lo \in 1..Len(c) /\ c[i - lo] = b[i]
  <2>1. i - lo \in 1..(hi - lo) /\ lo + (i - lo) = i
    BY <1>1, <1>7, <1>9
  <2> QED BY <1>11, <2>1
<1>14. b[i] \in ToSet(c)
  BY <1>12, <1>13, LenProperties DEF ToSet
<1> QED BY <1>4, <1>6, <1>8, <1>10, <1>14 DEF c, lo, C

\* A forced slicer that finds nothing worth a message finds white space.
LEMMA WorthlessIsBlank ==
  ASSUME ReplyAssumption, NEW b \in Seq(Nat), Worth(b, TRUE) = {}
  PROVE  Visible(b) = <<>>
<1>1. ASSUME NEW i \in 1..Len(b) PROVE b[i] \in Blanks
  BY EveryPieceIsInAChunk DEF Worth
<1> QED BY <1>1, BlankIsInvisible

LEMMA NothingInEmpty == ReplyAssumption => \A forced \in BOOLEAN : Worth(<<>>, forced) = {}
  BY DEF Worth, Chunks, ReplyAssumption

\* A message is within the limit, and what it leaves out of the buffer before it is white space.
LEMMA MessageIsFirst ==
  ASSUME ReplyAssumption, NEW b \in Seq(Nat), NEW forced \in BOOLEAN, Worth(b, forced) # {}
  PROVE  LET m == Min(Worth(b, forced))
         IN /\ Chunk(b, m) \in Seq(Nat) /\ Len(Chunk(b, m)) \in 1..ChunkSize
            /\ From(b, m) \in Seq(Nat)
            /\ Visible(b) = Visible(Chunk(b, m)) \o Visible(From(b, m))
<1> DEFINE C == ChunkSize
           W == Worth(b, forced)
           m == Min(W)
           lo == (m - 1) * C
           hi == IF m * C < Len(b) THEN m * C ELSE Len(b)
           pre == SubSeq(b, 1, lo)
           mid == SubSeq(b, lo + 1, hi)
           rest == SubSeq(b, m * C + 1, Len(b))
<1>1. C \in Nat \ {0} /\ Len(b) \in Nat
  BY LenProperties DEF ReplyAssumption
<1>2. W \subseteq Chunks(b)
  <2>1. Len(b) >= C => 1 \in Chunks(b)
    BY <1>1 DEF Chunks, C
  <2> QED BY <2>1 DEF Worth
<1>3. m \in W /\ \A j \in W : m <= j
  <2>1. W \subseteq Nat /\ W # {}
    BY <1>1, <1>2 DEF Chunks
  <2>2. \E x \in W : \A y \in W : x <= y
    BY <2>1, NatMin
  <2> QED BY <2>2 DEF Min
<1> HIDE DEF m, W
<1>4. m \in Nat \ {0} /\ m <= Len(b) /\ lo < Len(b) /\ m \in Chunks(b)
  BY <1>1, <1>2, <1>3 DEF Chunks
<1>5. lo \in Nat /\ m * C = lo + C /\ m * C \in Nat
  BY <1>1, <1>4
<1>6. Chunk(b, m) = mid /\ From(b, m) = rest
  BY DEF Chunk, From
<1>7. hi \in Nat /\ lo < hi /\ hi <= Len(b) /\ hi <= lo + C
      /\ (m * C < Len(b) => hi = m * C) /\ (~(m * C < Len(b)) => hi = Len(b))
  BY <1>1, <1>4, <1>5
<1>8. pre \in Seq(Nat) /\ Len(pre) = lo /\ \A i \in 1..lo : pre[i] = b[i]
  <2> HIDE DEF lo
  <2>1. lo \in 0..Len(b)
    BY <1>1, <1>4, <1>5
  <2> QED BY <1>1, <2>1, SubSeqProperties
<1>9. mid \in Seq(Nat) /\ Len(mid) = hi - lo /\ \A i \in 1..(hi - lo) : mid[i] = b[lo + i]
  <2> HIDE DEF lo, hi
  <2>1. lo + 1 \in 1..(Len(b) + 1) /\ hi \in lo..Len(b)
    BY <1>1, <1>5, <1>7
  <2> QED BY <1>1, <1>5, <1>7, <2>1, SubSeqProperties
<1>10. rest \in Seq(Nat) /\ Len(rest) = Len(b) - hi /\ \A i \in 1..(Len(b) - hi) : rest[i] = b[hi + i]
  <2> HIDE DEF lo, hi
  <2>1. CASE m * C < Len(b)
    <3> DEFINE e == m * C
    <3>0. rest = SubSeq(b, hi + 1, Len(b)) /\ hi = e
      BY <1>7, <2>1
    <3> HIDE DEF e
    <3>1. hi + 1 \in 1..(Len(b) + 1)
      BY <1>1, <1>7
    <3>2. hi \in Nat /\ Len(b) - hi \in Nat /\ Len(b) \in hi..Len(b) /\ (Len(b) - (hi + 1)) + 1 = Len(b) - hi
      BY <1>1, <1>7
    <3> DEFINE f == hi + 1
               n == Len(b)
    <3>3. /\ SubSeq(b, f, n) \in Seq(Nat)
          /\ Len(SubSeq(b, f, n)) = n - hi
          /\ \A i \in 1..(n - hi) : SubSeq(b, f, n)[i] = b[hi + i]
      <4>1. f \in 1..(n + 1) /\ n \in (f - 1)..n /\ f = hi + 1
        BY <1>1, <3>1, <3>2
      <4> HIDE DEF f
      <4>2. /\ SubSeq(b, f, n) \in Seq(Nat)
            /\ Len(SubSeq(b, f, n)) = n - f + 1
            /\ \A i \in 1..(n - f + 1) : SubSeq(b, f, n)[i] = b[f + i - 1]
        BY <4>1, SubSeqProperties
      <4>3. n - f + 1 = n - hi
        BY <1>1, <3>2, <4>1
      <4>4. ASSUME NEW i \in 1..(n - hi) PROVE f + i - 1 = hi + i
        BY <3>2, <4>1
      <4> QED BY <4>2, <4>3, <4>4
    <3> HIDE DEF rest
    <3> QED BY <3>0, <3>3
  <2>2. CASE ~(m * C < Len(b))
    <3> DEFINE e == m * C + 1
    <3>1. hi = Len(b) /\ e \in Nat /\ e > Len(b)
      BY <1>1, <1>5, <1>7, <2>2
    <3> HIDE DEF e
    <3>2. SubSeq(b, e, Len(b)) = <<>>
      BY <1>1, <3>1, SubSeqEmpty
    <3>3. rest = <<>>
      BY <3>2 DEF e
    <3>4. <<>> \in Seq(Nat) /\ Len(<<>>) = 0 /\ Len(b) - hi = 0
      BY <1>1, <3>1, EmptySeq
    <3>5. 1..(Len(b) - hi) = {}
      BY <3>4
    <3> HIDE DEF rest
    <3> QED BY <3>3, <3>4, <3>5
  <2> QED BY <2>1, <2>2
<1>11. Len(mid) \in 1..C
  BY <1>1, <1>5, <1>7, <1>9
<1>12. Visible(pre) = <<>>
  <2>1. ASSUME NEW i \in 1..lo PROVE pre[i] \in Blanks
    <3>1. i \in 1..Len(b) /\ i \in Nat /\ i <= lo
      BY <1>1, <1>4, <1>5, <2>1
    <3>2. PICK k \in Chunks(b) : (k - 1) * C < i /\ i <= k * C /\ b[i] \in ToSet(Chunk(b, k))
      BY <3>1, EveryPieceIsInAChunk DEF C
    <3>3. k \in Nat \ {0}
      BY <1>1 DEF Chunks
    <3>4. k < m
      <4> SUFFICES ASSUME ~(k < m) PROVE FALSE
        OBVIOUS
      <4>1. k - 1 >= m - 1 /\ k - 1 \in Nat /\ m - 1 \in Nat
        BY <1>4, <3>3
      <4>2. (k - 1) * C >= lo
        BY <4>1, <1>1
      <4>3. (k - 1) * C \in Nat
        BY <4>1, <1>1
      <4> QED BY <1>5, <3>1, <3>2, <4>2, <4>3
    <3>5. forced
      <4> SUFFICES ASSUME ~forced PROVE FALSE
        OBVIOUS
      <4>1. m = 1
        BY <1>3 DEF W, Worth
      <4> QED BY <3>3, <3>4, <4>1
    <3>6. k \notin Worth(b, forced)
      <4>1. k \notin W
        BY <1>3, <1>4, <3>3, <3>4
      <4> QED BY <4>1 DEF W
    <3>7. ToSet(Chunk(b, k)) \subseteq Blanks
      BY <3>2, <3>5, <3>6 DEF Worth
    <3> QED BY <1>8, <3>2, <3>7
  <2> HIDE DEF pre, lo
  <2> QED BY <1>8, <2>1, BlankIsInvisible
<1> HIDE DEF pre, mid, rest
<1>13. b = pre \o (mid \o rest) /\ mid \o rest \in Seq(Nat)
  <2> HIDE DEF lo, hi
  <2> DEFINE mr == mid \o rest
  <2>1. /\ mr \in Seq(Nat) /\ Len(mr) = Len(mid) + Len(rest)
        /\ \A i \in 1..(Len(mid) + Len(rest)) :
             mr[i] = IF i <= Len(mid) THEN mid[i] ELSE rest[i - Len(mid)]
    BY <1>9, <1>10, ConcatProperties
  <2> HIDE DEF mr
  <2> DEFINE all == pre \o mr
  <2>2. /\ all \in Seq(Nat) /\ Len(all) = Len(pre) + Len(mr)
        /\ \A i \in 1..(Len(pre) + Len(mr)) :
             all[i] = IF i <= Len(pre) THEN pre[i] ELSE mr[i - Len(pre)]
    BY <1>8, <2>1, ConcatProperties
  <2> HIDE DEF all
  <2>3. Len(all) = Len(b)
    BY <1>1, <1>5, <1>7, <1>8, <1>9, <1>10, <2>1, <2>2
  <2>4. ASSUME NEW i \in 1..Len(b) PROVE all[i] = b[i]
    <3>1. i \in Nat /\ i >= 1 /\ i <= Len(b)
      BY <1>1
    <3>2. CASE i <= lo
      <4>1. i \in 1..lo /\ i \in 1..(Len(pre) + Len(mr)) /\ i <= Len(pre)
        BY <1>1, <1>5, <1>8, <2>2, <2>3, <3>1, <3>2
      <4> QED BY <1>8, <2>2, <4>1
    <3>3. CASE i > lo /\ i <= hi
      <4>1. /\ i \in 1..(Len(pre) + Len(mr)) /\ ~(i <= Len(pre))
            /\ i - lo \in 1..(hi - lo) /\ i - lo \in 1..(Len(mid) + Len(rest))
            /\ i - lo <= Len(mid) /\ lo + (i - lo) = i
        BY <1>1, <1>5, <1>7, <1>8, <1>9, <1>10, <2>2, <2>3, <3>1, <3>3
      <4>2. all[i] = mr[i - lo]
        BY <1>8, <2>2, <4>1
      <4>3. mr[i - lo] = mid[i - lo]
        BY <2>1, <4>1
      <4>4. mid[i - lo] = b[i]
        BY <1>9, <4>1
      <4> QED BY <4>2, <4>3, <4>4
    <3>4. CASE i > hi
      <4>1. /\ i \in 1..(Len(pre) + Len(mr)) /\ ~(i <= Len(pre))
            /\ i - lo \in 1..(Len(mid) + Len(rest)) /\ ~(i - lo <= Len(mid))
            /\ i - hi \in 1..(Len(b) - hi) /\ hi + (i - hi) = i
            /\ (i - lo) - Len(mid) = i - hi
        BY <1>1, <1>5, <1>7, <1>8, <1>9, <1>10, <2>2, <2>3, <3>1, <3>4
      <4>2. all[i] = mr[i - lo]
        BY <1>8, <2>2, <4>1
      <4>3. mr[i - lo] = rest[i - hi]
        BY <2>1, <4>1
      <4>4. rest[i - hi] = b[i]
        BY <1>10, <4>1
      <4> QED BY <4>2, <4>3, <4>4
    <3> QED BY <1>5, <1>7, <3>1, <3>2, <3>3, <3>4
  <2>5. all = b
    BY <2>2, <2>3, <2>4, SeqEqual
  <2> QED BY <2>1, <2>5 DEF all, mr
<1>14. Visible(b) = Visible(mid) \o Visible(rest)
  <2> DEFINE mr == mid \o rest
  <2>0. mr \in Seq(Nat) /\ b = pre \o mr
    BY <1>13
  <2>1. Visible(mr) = Visible(mid) \o Visible(rest) /\ Visible(mr) \in Seq(Nat)
    BY <1>9, <1>10, <2>0, VisibleConcat, VisibleIsSeq
  <2> HIDE DEF mr
  <2>2. Visible(b) = Visible(pre) \o Visible(mr)
    BY <1>8, <2>0, VisibleConcat
  <2>3. <<>> \o Visible(mr) = Visible(mr)
    BY <2>1, ConcatEmptySeq
  <2> QED BY <1>12, <2>1, <2>2, <2>3
<1> QED BY <1>6, <1>9, <1>10, <1>11, <1>14 DEF m, W, C
-----------------------------------------------------------------------------
(* The text of a reply *)

Flushes == [text : Seq(Nat), slicer : Slicers, outcome : {"pending", "ok", "failed"}]
SlicerRecords == [st : {"unused", "starting", "flushing", "ended"}, forced : BOOLEAN, last : BOOLEAN]
Replies == [open : BOOLEAN, result : {"none", "resolved", "rejected"}]

Texts(fs) == [k \in DOMAIN fs |-> fs[k].text]

\* Flushes and what is left in a buffer give the whole text; messages are within the limit.
Gives(fs, b, whole) ==
    /\ fs \in Seq(Flushes) /\ b \in Seq(Nat) /\ whole \in Seq(Nat)
    /\ \A k \in DOMAIN fs : Len(fs[k].text) \in 1..ChunkSize
    /\ Visible(FlattenSeq(Texts(fs)) \o b) = Visible(whole)

\* The call resolves when its last slicer, which is a forced one, found the buffer without text.
ReplyInv ==
    /\ slicers \in [Slicers -> SlicerRecords] /\ reply \in Replies
    /\ \A n \in Slicers : slicers[n].last => slicers[n].forced
    /\ Gives(flushes, buf, spoken)
    /\ reply.result = "resolved" => ~reply.open /\ buf = <<>>

LEMMA TextsAreSeqs ==
  ASSUME NEW fs \in Seq(Flushes)
  PROVE  /\ Texts(fs) \in Seq(Seq(Nat)) /\ Len(Texts(fs)) = Len(fs)
         /\ FlattenSeq(Texts(fs)) \in Seq(Nat)
<1>1. fs \in [1..Len(fs) -> Flushes] /\ Len(fs) \in Nat
  BY LenProperties
<1>2. Texts(fs) \in [1..Len(fs) -> Seq(Nat)]
  BY <1>1 DEF Texts, Flushes
<1>3. Texts(fs) \in Seq(Seq(Nat)) /\ Len(Texts(fs)) = Len(fs)
  BY <1>1, <1>2, IsSeqOf
<1>4. <<>> \in Seq(Nat)
  BY EmptySeq
<1>5. FlattenSeq(Texts(fs)) \in Seq(Nat)
  BY <1>3, <1>4, FlattenAppend
<1> QED BY <1>3, <1>5

LEMMA ReplyInitially ==
  ASSUME ReplyInit
  PROVE  ReplyInv
<1>1. <<>> \in Seq(Flushes) /\ <<>> \in Seq(Nat) /\ DOMAIN <<>> = {}
  BY EmptySeq
<1>2. Texts(<<>>) = <<>>
  BY DEF Texts
<1>3. <<>> \o <<>> = <<>>
  BY <1>1, ConcatEmptySeq
<1>4. Gives(flushes, buf, spoken)
  BY <1>1, <1>2, <1>3, FlattenEmpty DEF ReplyInit, Gives
<1>5. slicers \in [Slicers -> SlicerRecords] /\ reply \in Replies
  BY DEF ReplyInit, SlicerRecords, Replies
<1> QED BY <1>4, <1>5 DEF ReplyInit, ReplyInv

LEMMA ReplyHolds == ReplyInv => ReplyIsWhole
<1> SUFFICES ASSUME ReplyInv PROVE ReplyIsWhole
  OBVIOUS
<1>1. HandedOver = FlattenSeq(Texts(flushes))
  BY DEF HandedOver, Texts
<1>2. Gives(flushes, buf, spoken)
  BY DEF ReplyInv
<1>3. FlattenSeq(Texts(flushes)) \in Seq(Nat)
  BY <1>2, TextsAreSeqs DEF Gives
<1> DEFINE H == FlattenSeq(Texts(flushes))
<1>4. H \in Seq(Nat) /\ HandedOver = H /\ Visible(H \o buf) = Visible(spoken)
  BY <1>1, <1>2, <1>3 DEF Gives
<1>5. \A k \in DOMAIN flushes : Len(flushes[k].text) \in 1..ChunkSize
  BY <1>2 DEF Gives
<1> HIDE DEF H
<1>6. H \o <<>> = H
  BY <1>4, ConcatEmptySeq
<1>7. ASSUME reply.result = "resolved" PROVE Visible(H) = Visible(spoken)
  <2>1. buf = <<>>
    BY <1>7 DEF ReplyInv
  <2> QED BY <1>4, <1>6, <2>1
<1> QED BY <1>4, <1>5, <1>7 DEF ReplyIsWhole

\* A message more, out of the buffer.
LEMMA MessageTaken ==
  ASSUME ReplyAssumption, NEW fs, NEW b, NEW whole, Gives(fs, b, whole),
         NEW forced \in BOOLEAN, Worth(b, forced) # {}, NEW n \in Slicers
  PROVE  LET m == Min(Worth(b, forced))
             f == [text |-> Chunk(b, m), slicer |-> n, outcome |-> "pending"]
         IN Gives(Append(fs, f), From(b, m), whole)
<1> DEFINE m == Min(Worth(b, forced))
           c == Chunk(b, m)
           rest == From(b, m)
           f == [text |-> c, slicer |-> n, outcome |-> "pending"]
           H == FlattenSeq(Texts(fs))
           more == Append(fs, f)
<1>1. /\ fs \in Seq(Flushes) /\ b \in Seq(Nat) /\ whole \in Seq(Nat)
      /\ \A k \in DOMAIN fs : Len(fs[k].text) \in 1..ChunkSize
      /\ Visible(H \o b) = Visible(whole)
  BY DEF Gives
<1>2. /\ c \in Seq(Nat) /\ Len(c) \in 1..ChunkSize /\ rest \in Seq(Nat)
      /\ Visible(b) = Visible(c) \o Visible(rest)
  BY <1>1, MessageIsFirst
<1> HIDE DEF m, c, rest
<1>3. f \in Flushes /\ f.text = c
  BY <1>2 DEF Flushes
<1> HIDE DEF f
<1>4. /\ more \in Seq(Flushes) /\ Len(more) = Len(fs) + 1 /\ more[Len(fs) + 1] = f
      /\ \A k \in 1..Len(fs) : more[k] = fs[k]
  BY <1>1, <1>3, AppendProperties
<1> HIDE DEF more
<1>5. Len(fs) \in Nat /\ DOMAIN fs = 1..Len(fs) /\ DOMAIN more = 1..(Len(fs) + 1)
  BY <1>1, <1>4, LenProperties
<1>6. \A k \in DOMAIN more : Len(more[k].text) \in 1..ChunkSize
  <2> TAKE k \in DOMAIN more
  <2>1. k \in 1..Len(fs) \/ k = Len(fs) + 1
    BY <1>5
  <2> QED BY <1>1, <1>2, <1>3, <1>4, <1>5, <2>1
<1>7. Texts(more) = Append(Texts(fs), c)
  <2>1. /\ Texts(fs) \in Seq(Seq(Nat)) /\ Len(Texts(fs)) = Len(fs)
        /\ Texts(more) \in Seq(Seq(Nat)) /\ Len(Texts(more)) = Len(fs) + 1
    BY <1>1, <1>4, TextsAreSeqs
  <2> DEFINE ap == Append(Texts(fs), c)
  <2>2. /\ ap \in Seq(Seq(Nat)) /\ Len(ap) = Len(fs) + 1 /\ ap[Len(fs) + 1] = c
        /\ \A k \in 1..Len(fs) : ap[k] = Texts(fs)[k]
    BY <1>2, <2>1, AppendProperties
  <2> HIDE DEF ap
  <2>3. ASSUME NEW k \in 1..(Len(fs) + 1) PROVE Texts(more)[k] = ap[k]
    <3>1. Texts(more)[k] = more[k].text
      BY <1>5 DEF Texts
    <3>2. k \in 1..Len(fs) => Texts(fs)[k] = fs[k].text
      BY <1>5 DEF Texts
    <3>3. k \in 1..Len(fs) \/ k = Len(fs) + 1
      BY <1>5
    <3> QED BY <1>3, <1>4, <2>2, <3>1, <3>2, <3>3
  <2>4. Texts(more) = ap
    BY <2>1, <2>2, <2>3, SeqEqual
  <2> QED BY <2>4 DEF ap
<1>8. Texts(fs) \in Seq(Seq(Nat)) /\ H \in Seq(Nat)
  BY <1>1, TextsAreSeqs
<1>9. FlattenSeq(Texts(more)) = H \o c
  BY <1>2, <1>7, <1>8, FlattenAppend
<1> HIDE DEF H
<1>10. Visible((H \o c) \o rest) = Visible(H \o b)
  <2> DEFINE hc == H \o c
  <2>1. hc \in Seq(Nat) /\ Visible(hc) = Visible(H) \o Visible(c)
    BY <1>2, <1>8, VisibleConcat
  <2> HIDE DEF hc
  <2>2. Visible(hc \o rest) = Visible(hc) \o Visible(rest)
    BY <1>2, <2>1, VisibleConcat
  <2>3. Visible(H \o b) = Visible(H) \o Visible(b)
    BY <1>1, <1>8, VisibleConcat
  <2> DEFINE vh == Visible(H)
             vc == Visible(c)
             vr == Visible(rest)
  <2>4. vh \in Seq(Nat) /\ vc \in Seq(Nat) /\ vr \in Seq(Nat)
    BY <1>2, <1>8, VisibleIsSeq
  <2>5. Visible(hc \o rest) = (vh \o vc) \o vr /\ Visible(H \o b) = vh \o (vc \o vr)
    BY <1>2, <2>1, <2>2, <2>3
  <2> HIDE DEF vh, vc, vr
  <2>6. (vh \o vc) \o vr = vh \o (vc \o vr)
    BY <2>4, ConcatAssociative
  <2> QED BY <2>5, <2>6 DEF hc
<1>11. Visible(FlattenSeq(Texts(more)) \o rest) = Visible(whole)
  BY <1>1, <1>9, <1>10 DEF H
<1>12. Gives(more, rest, whole)
  BY <1>1, <1>2, <1>4, <1>6, <1>11 DEF Gives
<1> QED BY <1>12 DEF more, f, c, rest, m

\* Nothing worth a message: a forced slicer empties the buffer.
LEMMA BufferEmptied ==
  ASSUME ReplyAssumption, NEW fs, NEW b, NEW whole, Gives(fs, b, whole), Worth(b, TRUE) = {}
  PROVE  Gives(fs, <<>>, whole)
<1> DEFINE H == FlattenSeq(Texts(fs))
<1>1. /\ fs \in Seq(Flushes) /\ b \in Seq(Nat) /\ whole \in Seq(Nat)
      /\ \A k \in DOMAIN fs : Len(fs[k].text) \in 1..ChunkSize
      /\ Visible(H \o b) = Visible(whole)
  BY DEF Gives
<1>2. H \in Seq(Nat) /\ <<>> \in Seq(Nat)
  BY <1>1, TextsAreSeqs, EmptySeq
<1> HIDE DEF H
<1>3. Visible(b) = <<>>
  BY <1>1, WorthlessIsBlank
<1>4. Visible(H \o b) = Visible(H) \o Visible(b)
  BY <1>1, <1>2, VisibleConcat
<1>5. H \o <<>> = H
  BY <1>2, ConcatEmptySeq
<1>6. Visible(H) \in Seq(Nat)
  BY <1>2, VisibleIsSeq
<1>7. Visible(H) \o <<>> = Visible(H)
  BY <1>6, ConcatEmptySeq
<1>8. Visible(H \o <<>>) = Visible(whole)
  BY <1>1, <1>3, <1>4, <1>5, <1>7
<1> QED BY <1>1, <1>2, <1>8 DEF Gives, H

LEMMA SliceKeeps ==
  ASSUME ReplyAssumption, NEW n \in Slicers, NEW s, s.forced \in BOOLEAN, s.last \in BOOLEAN,
         s = [st |-> s.st, forced |-> s.forced, last |-> s.last], s.last => s.forced,
         NEW b, NEW made, Gives(made, b, spoken'), Slice(n, s, b, made),
         slicers \in [Slicers -> SlicerRecords], reply \in Replies,
         \A i \in Slicers : slicers[i].last => slicers[i].forced,
         reply.result = "resolved" => ~reply.open /\ b = <<>>
  PROVE  ReplyInv'
<1> DEFINE worth == Worth(b, s.forced)
<1>1. CASE worth = {}
  <2> DEFINE e == [s EXCEPT !.st = "ended"]
  <2>1. /\ e \in SlicerRecords /\ e.last = s.last /\ e.forced = s.forced
    <3>1. "ended" \in {"unused", "starting", "flushing", "ended"}
      OBVIOUS
    <3> QED BY <3>1 DEF SlicerRecords
  <2>2. /\ buf' = IF s.forced THEN <<>> ELSE b
        /\ slicers' = [slicers EXCEPT ![n] = e]
        /\ reply' = ReplyAfter(s) /\ flushes' = made
    BY <1>1 DEF Slice
  <2> HIDE DEF e
  <2>3. slicers' \in [Slicers -> SlicerRecords] /\ \A i \in Slicers : slicers'[i].last => slicers'[i].forced
    BY <2>1, <2>2
  <2>4. Gives(flushes', buf', spoken')
    <3>1. CASE s.forced
      <4>1. s.forced = TRUE
        BY <3>1
      <4> QED BY <1>1, <2>2, <3>1, <4>1, BufferEmptied
    <3>2. CASE ~s.forced
      BY <2>2, <3>2
    <3> QED BY <3>1, <3>2
  <2>5. reply' \in Replies /\ (reply'.result = "resolved" => ~reply'.open /\ buf' = <<>>)
    <3>1. CASE s.last
      <4>1. reply' = [open |-> FALSE, result |-> IF reply.result = "none" THEN "resolved" ELSE reply.result]
        BY <2>2, <3>1 DEF ReplyAfter
      <4>2. buf' = <<>>
        BY <2>2, <3>1
      <4> QED BY <4>1, <4>2 DEF Replies
    <3>2. CASE ~s.last
      <4>1. reply' = reply /\ (b = <<>> => buf' = <<>>)
        BY <2>2, <3>2 DEF ReplyAfter
      <4> QED BY <4>1
    <3> QED BY <3>1, <3>2
  <2> QED BY <2>3, <2>4, <2>5 DEF ReplyInv, Gives
<1>2. CASE worth # {}
  <2> DEFINE e == [s EXCEPT !.st = "flushing"]
             m == Min(worth)
             f == [text |-> Chunk(b, m), slicer |-> n, outcome |-> "pending"]
  <2>1. /\ e \in SlicerRecords /\ e.last = s.last /\ e.forced = s.forced
    <3>1. "flushing" \in {"unused", "starting", "flushing", "ended"}
      OBVIOUS
    <3> QED BY <3>1 DEF SlicerRecords
  <2>2. /\ buf' = From(b, m) /\ slicers' = [slicers EXCEPT ![n] = e]
        /\ flushes' = Append(made, f) /\ reply' = reply
    BY <1>2 DEF Slice
  <2>3. Gives(flushes', buf', spoken')
    BY <1>2, <2>2, MessageTaken
  <2> HIDE DEF e, m, f
  <2>4. slicers' \in [Slicers -> SlicerRecords] /\ \A i \in Slicers : slicers'[i].last => slicers'[i].forced
    BY <2>1, <2>2
  <2>5. b # <<>>
    BY <1>2, NothingInEmpty
  <2>6. reply.result # "resolved"
    BY <2>5
  <2> QED BY <2>2, <2>3, <2>4, <2>6 DEF ReplyInv, Gives
<1> QED BY <1>1, <1>2

\* Slicer records are their fields.
LEMMA SlicerIs ==
  ASSUME NEW s \in SlicerRecords
  PROVE  /\ s.forced \in BOOLEAN /\ s.last \in BOOLEAN
         /\ s = [st |-> s.st, forced |-> s.forced, last |-> s.last]
  BY DEF SlicerRecords

LEMMA NewSlicerKeeps ==
  ASSUME ReplyAssumption, ReplyInv, NEW b, NEW forced \in BOOLEAN, NEW last \in BOOLEAN,
         last => forced, reply.open, NewSlicer(b, forced, last), Gives(flushes, b, spoken')
  PROVE  ReplyInv'
<1> DEFINE n == Min(Unused)
           s == [st |-> "starting", forced |-> forced, last |-> last]
<1>1. Slice(n, s, b, flushes) /\ Unused # {}
  BY DEF NewSlicer
<1>2. n \in Slicers
  <2>1. Unused \subseteq Slicers /\ Slicers \subseteq Nat
    BY DEF Unused, ReplyInv, Slicers
  <2>2. \E x \in Unused : \A y \in Unused : x <= y
    BY <1>1, <2>1, NatMin
  <2>3. n \in Unused
    BY <2>2 DEF Min
  <2> QED BY <2>1, <2>3
<1> HIDE DEF n
<1>3. /\ s.forced \in BOOLEAN /\ s.last \in BOOLEAN /\ (s.last => s.forced)
      /\ s = [st |-> s.st, forced |-> s.forced, last |-> s.last]
  OBVIOUS
<1> HIDE DEF s
<1>4. reply.result # "resolved"
  BY DEF ReplyInv
<1> QED BY <1>1, <1>2, <1>3, <1>4, SliceKeeps DEF ReplyInv

LEMMA UpdateKeeps ==
  ASSUME ReplyAssumption, ReplyInv, NEW len \in 1..2, NEW question \in BOOLEAN, Update(len, question)
  PROVE  ReplyInv'
<1> DEFINE piece == [k \in 1..len |-> Len(spoken) + k]
           b == buf \o piece
           H == FlattenSeq(Texts(flushes))
<1>1. /\ flushes \in Seq(Flushes) /\ buf \in Seq(Nat) /\ spoken \in Seq(Nat)
      /\ \A k \in DOMAIN flushes : Len(flushes[k].text) \in 1..ChunkSize
      /\ Visible(H \o buf) = Visible(spoken)
  BY DEF ReplyInv, Gives
<1>2. H \in Seq(Nat)
  BY <1>1, TextsAreSeqs
<1>3. piece \in Seq(Nat)
  <2>1. piece \in [1..len -> Nat] /\ len \in Nat
    BY <1>1, LenProperties
  <2> QED BY <2>1, IsSeqOf
<1>4. reply.open /\ spoken' = spoken \o piece /\ NewSlicer(b, question, FALSE)
  BY DEF Update
<1> HIDE DEF piece, H
<1>5. b \in Seq(Nat) /\ spoken' \in Seq(Nat)
  BY <1>1, <1>3, <1>4, VisibleConcat
<1>6. Visible(H \o b) = Visible(spoken')
  <2> DEFINE hb == H \o buf
  <2>1. hb \in Seq(Nat)
    BY <1>1, <1>2, VisibleConcat
  <2>2. H \o b = hb \o piece
    <3>1. \A x, y, z \in Seq(Nat) : x \o (y \o z) = (x \o y) \o z
      BY ConcatAssociative
    <3> QED BY <1>1, <1>2, <1>3, <3>1
  <2>3. Visible(hb) = Visible(spoken)
    BY <1>1
  <2> HIDE DEF hb, b
  <2>4. Visible(hb \o piece) = Visible(hb) \o Visible(piece)
    BY <1>3, <2>1, VisibleConcat
  <2>5. Visible(spoken') = Visible(spoken) \o Visible(piece)
    BY <1>1, <1>3, <1>4, VisibleConcat
  <2> QED BY <2>2, <2>3, <2>4, <2>5
<1>7. Gives(flushes, b, spoken')
  BY <1>1, <1>5, <1>6 DEF Gives, H
<1> HIDE DEF b
<1> QED BY <1>4, <1>7, NewSlicerKeeps

LEMMA AgentDoneKeeps ==
  ASSUME ReplyAssumption, ReplyInv, AgentDone
  PROVE  ReplyInv'
<1>1. reply.open /\ spoken' = spoken /\ NewSlicer(buf, TRUE, TRUE)
  BY DEF AgentDone
<1>2. Gives(flushes, buf, spoken')
  BY <1>1 DEF ReplyInv
<1> QED BY <1>1, <1>2, NewSlicerKeeps

LEMMA AgentErrorKeeps ==
  ASSUME ReplyInv, AgentError
  PROVE  ReplyInv'
<1>1. reply' = [open |-> FALSE, result |-> IF reply.result = "none" THEN "rejected" ELSE reply.result]
  BY DEF AgentError
<1>2. reply' \in Replies /\ (reply'.result = "resolved" => reply.result = "resolved" /\ ~reply'.open)
  BY <1>1 DEF ReplyInv, Replies
<1>3. buf' = buf /\ spoken' = spoken /\ flushes' = flushes /\ slicers' = slicers
  BY DEF AgentError
<1> QED BY <1>2, <1>3 DEF ReplyInv, Gives

\* The outcome of a flush is no part of its text.
LEMMA OutcomeKeeps ==
  ASSUME NEW fs, NEW b, NEW whole, Gives(fs, b, whole), NEW k \in DOMAIN fs, NEW o \in {"ok", "failed"}
  PROVE  Gives([fs EXCEPT ![k].outcome = o], b, whole)
<1> DEFINE gs == [fs EXCEPT ![k].outcome = o]
<1>1. fs \in [1..Len(fs) -> Flushes] /\ Len(fs) \in Nat /\ DOMAIN fs = 1..Len(fs) /\ fs \in Seq(Flushes)
  BY LenProperties DEF Gives
<1>2. /\ gs \in [1..Len(fs) -> Flushes]
      /\ \A j \in 1..Len(fs) : gs[j].text = fs[j].text
  <2>1. o \in {"pending", "ok", "failed"}
    OBVIOUS
  <2> DEFINE g == [fs[k] EXCEPT !.outcome = o]
  <2>2. g \in Flushes /\ g.text = fs[k].text
    BY <1>1, <2>1 DEF Flushes
  <2>3. gs = [fs EXCEPT ![k] = g]
    OBVIOUS
  <2> HIDE DEF g, gs
  <2> QED BY <1>1, <2>2, <2>3
<1> HIDE DEF gs
<1>3. gs \in Seq(Flushes) /\ DOMAIN gs = DOMAIN fs
  BY <1>1, <1>2, IsSeqOf
<1>4. Texts(gs) = Texts(fs)
  BY <1>1, <1>2, <1>3 DEF Texts
<1> QED BY <1>1, <1>2, <1>3, <1>4 DEF Gives, gs

LEMMA FlushDoneKeeps ==
  ASSUME ReplyAssumption, ReplyInv, NEW n \in Slicers, FlushDone(n)
  PROVE  ReplyInv'
<1>1. PICK k \in Pending(n) : Slice(n, slicers[n], buf, [flushes EXCEPT ![k].outcome = "ok"])
  BY DEF FlushDone
<1>2. spoken' = spoken /\ k \in DOMAIN flushes
  BY DEF FlushDone, Pending
<1> DEFINE made == [flushes EXCEPT ![k].outcome = "ok"]
           s == slicers[n]
<1>3. Gives(made, buf, spoken')
  BY <1>2, OutcomeKeeps DEF ReplyInv
<1>4. s \in SlicerRecords /\ (s.last => s.forced)
  BY DEF ReplyInv
<1>5. Slice(n, s, buf, made)
  BY <1>1
<1> HIDE DEF made, s
<1> QED BY <1>3, <1>4, <1>5, SlicerIs, SliceKeeps DEF ReplyInv

LEMMA FlushFailsKeeps ==
  ASSUME ReplyAssumption, ReplyInv, NEW n \in Slicers, FlushFails(n)
  PROVE  ReplyInv'
<1>1. PICK k \in Pending(n) : flushes' = [flushes EXCEPT ![k].outcome = "failed"]
  BY DEF FlushFails
<1>2. k \in DOMAIN flushes /\ buf' = buf /\ spoken' = spoken
  BY DEF FlushFails, Pending
<1>3. Gives(flushes', buf', spoken')
  BY <1>1, <1>2, OutcomeKeeps DEF ReplyInv
<1>4. slicers' \in [Slicers -> SlicerRecords] /\ \A i \in Slicers : slicers'[i].last => slicers'[i].forced
  <2> DEFINE e == [slicers[n] EXCEPT !.st = "ended"]
  <2>1. "ended" \in {"unused", "starting", "flushing", "ended"} /\ slicers[n] \in SlicerRecords
    BY DEF ReplyInv
  <2>2. e \in SlicerRecords /\ e.last = slicers[n].last /\ e.forced = slicers[n].forced
    BY <2>1 DEF SlicerRecords
  <2>3. slicers' = [slicers EXCEPT ![n] = e]
    BY DEF FlushFails
  <2> HIDE DEF e
  <2> QED BY <2>2, <2>3 DEF ReplyInv
<1>5. reply' \in Replies /\ (reply'.result = "resolved" => reply' = reply)
  BY DEF FlushFails, ReplyInv, Replies
<1> QED BY <1>2, <1>3, <1>4, <1>5 DEF ReplyInv

LEMMA ReplyInvKept == ReplyAssumption /\ ReplyInv /\ [ReplyNext]_replyVars => ReplyInv'
<1> SUFFICES ASSUME ReplyAssumption, ReplyInv, [ReplyNext]_replyVars PROVE ReplyInv'
  OBVIOUS
<1>1. CASE \E len \in 1..2, question \in BOOLEAN : Update(len, question)
  BY <1>1, UpdateKeeps
<1>2. CASE AgentDone
  BY <1>2, AgentDoneKeeps
<1>3. CASE AgentError
  BY <1>3, AgentErrorKeeps
<1>4. CASE \E n \in Slicers : FlushDone(n) \/ FlushFails(n)
  BY <1>4, FlushDoneKeeps, FlushFailsKeeps
<1>5. CASE UNCHANGED replyVars
  BY <1>5 DEF replyVars, ReplyInv, Gives
<1> QED BY <1>1, <1>2, <1>3, <1>4, <1>5 DEF ReplyNext

\* Texts reach the conversation their user has bound, also across crashes of the manager and
\* failures of the store, and replies are handed over whole and in order, for any number of
\* users, requests and conversations, and for any limit of a message.
THEOREM MessengerIsSound == PeopleSpec => []ChannelIsSound
<1> DEFINE I == ImInv /\ ReplyInv
<1>1. PeopleInit => I
  BY ImInitially, ReplyInitially DEF PeopleInit
<1>2. I /\ [PeopleNext]_peopleVars => I'
  <2> SUFFICES ASSUME I, [PeopleNext]_peopleVars PROVE I'
    OBVIOUS
  <2>1. [ImNext]_imVars /\ [ReplyNext]_replyVars
    BY DEF PeopleNext, peopleVars
  <2> QED BY <2>1, ImInvKept, ReplyInvKept, ReplyAssumption
<1>3. I => ChannelIsSound
  BY TextsAreBound, ReplyHolds DEF ChannelIsSound
<1> QED BY <1>1, <1>2, <1>3, PTL DEF PeopleSpec
=============================================================================
