------------------------------ MODULE Approvals ------------------------------
(***************************************************************************)
(* Pending approvals (tools/approval.ts): the table that the tool gate and *)
(* the plugins' tools put their requests into, and the timers.             *)
(*                                                                         *)
(* A plugin asks under a random id.  The gate asks under an id made of the *)
(* conversation, the tool and the millisecond, so two requests of one      *)
(* conversation and tool, with different parameters, may have the same id: *)
(* two turns run at once, or a hook asks again after the permission did.   *)
(* Whoever answers (a listener at once, or the user later) has looked at   *)
(* one request and answers by its id.                                      *)
(***************************************************************************)
EXTENDS Integers

CONSTANTS
  Request,     \* the approvals that are asked for
  AgentOf,     \* agentId of a request
  Plugin,      \* requests made by plugin tools, under a random id
  KeyOf,       \* conversation and tool of the gate's requests
  Timeout,     \* milliseconds until a request is denied
  MayCollide,  \* whether the gate may ask twice under one id
  MaxNow       \* bound: milliseconds on the clock

Decisions == {"allow", "deny"}

ASSUME ApprovalsAssumption ==
  /\ Plugin \subseteq Request
  /\ DOMAIN AgentOf = Request /\ DOMAIN KeyOf = Request
  /\ Plugin \cap ({KeyOf[r] : r \in Request} \X Nat) = {}
  /\ MayCollide \in BOOLEAN
  /\ Timeout \in Nat \ {0} /\ MaxNow \in Nat

VARIABLES
  id,          \* approvalId of the requests made so far
  pending,     \* pendingApprovals: the request under each id
  timers,      \* the timers that have not fired: [request, due]
  decision,    \* what the promises of the requests were resolved with
  said,        \* history: the decisions the user took on each request
  cancelled,   \* history: the agents cancelPendingApprovals was called for
  now          \* Date.now()

vars == <<id, pending, timers, decision, said, cancelled, now>>

Agents == {AgentOf[r] : r \in Request}

\* Two requests never share a random id.
Ids == Plugin \cup {KeyOf[r] : r \in Request \ Plugin} \X Nat

Timer == [request : Request, due : Nat]

Asked == DOMAIN id

Undecided == Asked \ DOMAIN decision

TypeOK ==
  /\ Asked \subseteq Request /\ \A r \in Asked : id[r] \in Ids
  /\ DOMAIN pending \subseteq {id[r] : r \in Asked}
  /\ \A i \in DOMAIN pending : pending[i] \in Asked
  /\ timers \subseteq Timer
  /\ DOMAIN decision \subseteq Asked /\ \A r \in DOMAIN decision : decision[r] \in Decisions
  /\ said \in [Request -> SUBSET Decisions]
  /\ cancelled \in [Agents -> BOOLEAN]
  /\ now \in Nat

Empty == [x \in {} |-> x]

Init ==
  /\ id = Empty
  /\ pending = Empty
  /\ timers = {}
  /\ decision = Empty
  /\ said = [r \in Request |-> {}]
  /\ cancelled = [a \in Agents |-> FALSE]
  /\ now = 1

Put(f, x, y) == [z \in DOMAIN f \cup {x} |-> IF z = x THEN y ELSE f[z]]

Without(f, S) == [z \in DOMAIN f \ S |-> f[z]]

\* Settling a promise a second time changes nothing.
Settle(r, d) == IF r \in DOMAIN decision THEN decision ELSE Put(decision, r, d)

\* Mutant: the id is the millisecond, without conversation and tool.
IdOfTime(r) == <<CHOOSE k \in {KeyOf[q] : q \in Request} : TRUE, now>>

ApprovalId(r) == IF r \in Plugin THEN r ELSE <<KeyOf[r], now>>

(***************************************************************************)
(* requestApproval.  The entry is in the table when the listeners are      *)
(* called, and a listener may answer before the timer is set: the timer is *)
(* set all the same.                                                       *)
(***************************************************************************)
Ask(r, answer) ==
  LET i == ApprovalId(r) IN
  /\ r \notin Asked
  /\ MayCollide \/ r \in Plugin \/ ~\E q \in Asked : id[q] = <<KeyOf[r], now>>
  /\ now + Timeout <= MaxNow
  /\ id' = Put(id, r, i)
  /\ timers' = timers \cup {[request |-> r, due |-> now + Timeout]}
  /\ IF answer = "later" THEN /\ pending' = Put(pending, i, r)
                              /\ UNCHANGED <<decision, said>>
     ELSE /\ pending' = Without(pending, {i})
          /\ decision' = Settle(r, answer)
          /\ said' = [said EXCEPT ![r] = @ \cup {answer}]
  /\ UNCHANGED <<cancelled, now>>

RequestApproval(r) == \E answer \in Decisions \cup {"later"} : Ask(r, answer)

\* resolveApproval, called by someone who was shown request r.
ResolveApproval(r) ==
  \E d \in Decisions :
    /\ r \in Asked
    /\ said' = [said EXCEPT ![r] = @ \cup {d}]
    /\ IF id[r] \in DOMAIN pending
       THEN /\ decision' = Settle(pending[id[r]], d)
            /\ pending' = Without(pending, {id[r]})
       ELSE UNCHANGED <<decision, pending>>
    /\ UNCHANGED <<id, timers, cancelled, now>>

\* Mutant: the promise is forgotten.
TimerForgets(t) ==
  /\ pending' = Without(pending, {id[t.request]})
  /\ UNCHANGED decision

\* Mutant: the entry is kept.
TimerDeniesOnly(t) ==
  /\ decision' = Settle(t.request, "deny")
  /\ UNCHANGED pending

\* The body of the timer: it looks for the id, and denies its own request.
TimerDenies(t) ==
  LET i == id[t.request] IN
  IF i \in DOMAIN pending
  THEN /\ pending' = Without(pending, {i})
       /\ decision' = Settle(t.request, "deny")
  ELSE UNCHANGED <<pending, decision>>

\* A timer fires when it is due or later; nothing clears it.
Expire ==
  \E t \in timers :
    /\ t.due <= now
    /\ timers' = timers \ {t}
    /\ TimerDenies(t)
    /\ UNCHANGED <<id, said, cancelled, now>>

\* Mutant: all pending approvals are cancelled.
AllPending(a) == DOMAIN pending

PendingOf(a) == {i \in DOMAIN pending : AgentOf[pending[i]] = a}

\* cancelPendingApprovals
CancelPending(a) ==
  /\ decision' = [r \in DOMAIN decision \cup {pending[i] : i \in PendingOf(a)} |->
                    IF r \in DOMAIN decision THEN decision[r] ELSE "deny"]
  /\ pending' = Without(pending, PendingOf(a))
  /\ cancelled' = [cancelled EXCEPT ![a] = TRUE]
  /\ UNCHANGED <<id, timers, said, now>>

Tick ==
  /\ now < MaxNow
  /\ now' = now + 1
  /\ UNCHANGED <<id, pending, timers, decision, said, cancelled>>

Next ==
  \/ \E r \in Request : RequestApproval(r) \/ ResolveApproval(r)
  \/ Expire
  \/ \E a \in Agents : CancelPending(a)
  \/ Tick

Spec == Init /\ [][Next]_vars

\* Time passes and timers that are due fire; nobody has to answer.
FairSpec == Spec /\ WF_vars(Tick) /\ WF_vars(Expire)

(***************************************************************************)
(* Properties.                                                             *)
(***************************************************************************)

\* Every request ends: its timer denies it at the latest.
EveryAskEnds == \A r \in Request : r \in Asked ~> r \in DOMAIN decision

\* A request that is allowed was allowed by someone who was shown this request,
\* with these parameters.
AllowedAsShown ==
  \A r \in DOMAIN decision : decision[r] = "allow" => "allow" \in said[r]

\* A request is denied only when its user denied it, when its time was up or when
\* its own agent was cancelled: not because of what happens to another request.
DeniedForAReason ==
  \A r \in DOMAIN decision :
    decision[r] = "deny" =>
      \/ "deny" \in said[r]
      \/ cancelled[AgentOf[r]]
      \/ \A t \in timers : t.request # r

\* What getPendingApprovals shows can still be answered: the table holds exactly
\* the requests whose promise is not settled.
PendingIsUndecided == {pending[i] : i \in DOMAIN pending} = Undecided

==============================================================================
