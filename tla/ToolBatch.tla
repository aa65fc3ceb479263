----------------------------- MODULE ToolBatch -----------------------------
(***************************************************************************)
(* A plugin tool that handles every call of a response that is its own     *)
(* (executeAllMatchingToolCalls): one approval for the batch, validation   *)
(* of each call's parameters, and execution side by side or in order with  *)
(* a timer for each call and, side by side, one for the whole batch.  The  *)
(* results become messages one after the other: after each, the hooks      *)
(* toolExecuted are awaited, and one that throws ends the handler.         *)
(* Executors are external: they may never end, or end after their timer.   *)
(***************************************************************************)
EXTENDS Naturals, Sequences, FiniteSets

CONSTANTS BatchSize,     \* calls of the tool in the response
          CallTimeouts,  \* timers a tool may ask for its calls, in ticks; 0 is none
          BatchTimeout,  \* DEFAULT_BATCH_TIMEOUT_MS, in ticks
          MaxClock       \* bound: ticks

ASSUME BatchAssumption ==
    /\ BatchSize \in Nat
    /\ CallTimeouts \subseteq Nat
    /\ BatchTimeout \in Nat \ {0}
    /\ MaxClock \in Nat

Calls == 1..BatchSize

VARIABLES batch,     \* pc, whether it runs side by side, the calls' timer, when it was started
          executor,  \* [Calls -> how far the tool itself is]
          promise,   \* [Calls -> what executeWithTimeout resolved with]
          began,     \* [Calls -> when the call's timer was set]
          report,    \* results that are not told yet, in order
          told,      \* the result messages, in order
          clock

batchVars == <<batch, executor, promise, began, report, told, clock>>

Entries == {c \in Calls : executor[c] # "invalid"}

\* Mutant: only the first call is answered.
ReportFirst(cs, outcome) == IF cs = <<>> THEN <<>> ELSE <<[call |-> cs[1], outcome |-> outcome]>>

Report(cs, outcome) == [k \in 1..Len(cs) |-> [call |-> cs[k], outcome |-> outcome]]

\* Mutant: the last call is answered first.
BackToFront(S) ==
    CHOOSE s \in [1..Cardinality(S) -> S] : \A j, k \in DOMAIN s : j < k => s[j] > s[k]

\* The calls of a set in the order of the response.
InOrder(S) ==
    CHOOSE s \in [1..Cardinality(S) -> S] : \A j, k \in DOMAIN s : j < k => s[j] < s[k]

\* Calls that have started and are not settled.
Open == {c \in Entries : executor[c] # "waiting" /\ promise[c] = "none"}

Due(c) == batch.timeout > 0 /\ clock >= began[c] + batch.timeout

----------------------------------------------------------------------------

Deny ==
    /\ batch' = [batch EXCEPT !.pc = "ended"]
    /\ told' = told \o Report(InOrder(Calls), "denied")
    /\ UNCHANGED <<executor, promise, began, report>>

\* Calls whose parameters do not parse are answered at once; the others become entries.
Launch(b) ==
    \E bad \in SUBSET Calls :
        LET good == Calls \ bad
            now == IF b.parallel THEN good
                   ELSE {c \in good : \A d \in good : c <= d}
        IN /\ told' = told \o Report(InOrder(bad), "invalid")
           /\ executor' = [c \in Calls |-> IF c \in bad THEN "invalid"
                                           ELSE IF c \in now THEN "running" ELSE "waiting"]
           /\ began' = [c \in Calls |-> clock]
           /\ batch' = [b EXCEPT !.pc = IF good = {} THEN "ended" ELSE "running",
                                 !.at = clock]
           /\ UNCHANGED <<promise, report>>

\* The approval is decided for the first call of the batch and holds for all.
BeginBatch ==
    /\ batch.pc = "off" /\ BatchSize > 0
    /\ \E side \in BOOLEAN, t \in CallTimeouts :
         LET b == [batch EXCEPT !.parallel = side, !.timeout = t]
         IN \/ Deny
            \/ /\ batch' = [b EXCEPT !.pc = "asking"]
               /\ UNCHANGED <<executor, promise, began, report, told>>
            \/ Launch(b)
    /\ UNCHANGED clock

BatchAnswered ==
    /\ batch.pc = "asking"
    /\ Deny \/ Launch(batch)
    /\ UNCHANGED clock

\* The tool ends; its promise is settled unless the timer was first.
ExecutorEnds(c) ==
    /\ executor[c] = "running"
    /\ \E outcome \in {"ok", "error"} :
         /\ executor' = [executor EXCEPT ![c] = outcome]
         /\ promise' = IF promise[c] = "none" THEN [promise EXCEPT ![c] = outcome] ELSE promise
    /\ UNCHANGED <<batch, began, report, told, clock>>

CallTimer(c) ==
    /\ batch.pc # "off" /\ c \in Open
    /\ Due(c)
    /\ promise' = [promise EXCEPT ![c] = "timeout"]
    /\ UNCHANGED <<batch, executor, began, report, told, clock>>

\* executeToolCallsSequential: the next call starts when the last one is settled.
NextCall ==
    /\ batch.pc = "running" /\ ~batch.parallel
    /\ Open = {}
    /\ \E c \in Entries :
         /\ executor[c] = "waiting"
         /\ \A d \in Entries : executor[d] = "waiting" => c <= d
         /\ executor' = [executor EXCEPT ![c] = "running"]
         /\ began' = [began EXCEPT ![c] = clock]
    /\ UNCHANGED <<batch, promise, report, told, clock>>

\* Promise.race: every call is settled, or the batch's timer fires before.
BatchResolves ==
    /\ batch.pc = "running"
    /\ \A c \in Entries : promise[c] # "none"
    /\ batch' = [batch EXCEPT !.pc = "telling"]
    /\ report' = [k \in 1..Cardinality(Entries) |->
                     LET c == InOrder(Entries)[k] IN [call |-> c, outcome |-> promise[c]]]
    /\ UNCHANGED <<executor, promise, began, told, clock>>

BatchTimer ==
    /\ batch.pc = "running" /\ batch.parallel /\ Cardinality(Entries) > 1
    /\ clock >= batch.at + BatchTimeout
    /\ batch' = [batch EXCEPT !.pc = "telling"]
    /\ report' = Report(InOrder(Entries), "timeout")
    /\ UNCHANGED <<executor, promise, began, told, clock>>

\* addToolResult, and the call of the hooks; after the last result the turn is yielded to.
TellResult ==
    /\ batch.pc = "telling"
    /\ IF report = <<>>
         THEN batch' = [batch EXCEPT !.pc = "ended"] /\ UNCHANGED <<report, told>>
         ELSE /\ batch' = [batch EXCEPT !.pc = "hook"]
              /\ told' = Append(told, Head(report))
              /\ report' = Tail(report)
    /\ UNCHANGED <<executor, promise, began, clock>>

\* The hooks of a result have answered, or one has thrown: the other results are not told.
HookAnswers ==
    /\ batch.pc = "hook"
    /\ \E pc \in {"telling", "dropped"} : batch' = [batch EXCEPT !.pc = pc]
    /\ UNCHANGED <<executor, promise, began, report, told, clock>>

\* Promises that are settled are continued, and timers that are due fire, before time goes on.
Tick ==
    /\ batch.pc = "running" /\ clock < MaxClock
    /\ Open # {}
    /\ ~\E c \in Open : Due(c)
    /\ clock' = clock + 1
    /\ UNCHANGED <<batch, executor, promise, began, report, told>>

----------------------------------------------------------------------------

BatchInit ==
    /\ batch = [pc |-> "off", parallel |-> FALSE, timeout |-> 0, at |-> 0]
    /\ executor = [c \in Calls |-> "waiting"]
    /\ promise = [c \in Calls |-> "none"]
    /\ began = [c \in Calls |-> 0]
    /\ report = <<>> /\ told = <<>>
    /\ clock = 0

BatchContinues ==
    \/ BatchAnswered
    \/ \E c \in Calls : CallTimer(c)
    \/ NextCall
    \/ BatchResolves
    \/ BatchTimer
    \/ TellResult
    \/ HookAnswers
    \/ Tick

BatchNext == BeginBatch \/ BatchContinues \/ \E c \in Calls : ExecutorEnds(c)

\* Time passes, due timers fire, an approval is answered (Approvals!EveryAskEnds), and so are the
\* hooks.  No tool ends.
BatchFairness == WF_batchVars(BatchContinues)

----------------------------------------------------------------------------

Told(c) == \E k \in DOMAIN told : told[k].call = c

\* No call of a batch has two result messages.  A batch that ends has one for each call; one that a
\* hook cut short lacks only those of the calls after the hook's own.  Unless the calls have no
\* timer, a message says what became of its call: what one of them does to the batch's timer hides
\* no other's result.
EveryCallReported ==
    /\ \A j, k \in DOMAIN told : told[j].call = told[k].call => j = k
    /\ batch.pc = "ended" => \A c \in Calls : Told(c)
    /\ batch.pc = "dropped" => \A c \in Calls : Told(c) \/ c > told[Len(told)].call
    /\ \A k \in DOMAIN told :
          batch.timeout > 0 /\ told[k].outcome \in {"ok", "error", "timeout"}
              => told[k].outcome = promise[told[k].call]

\* A batch whose calls have a timer comes to an end although its tools hang.
BatchEnds == batch.pc # "off" /\ batch.timeout > 0 ~> batch.pc \in {"ended", "dropped"}
=============================================================================
