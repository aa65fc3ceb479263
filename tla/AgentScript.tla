---------------------------- MODULE AgentScript ----------------------------
(***************************************************************************)
(* The agent-agent loop with the bundled quality-gate script: workers      *)
(* attempt a goal, reviewers judge the attempt, fixers try again, until    *)
(* every reviewer approves or the iterations are used up.                  *)
(*                                                                         *)
(* A gate is one run of the script for one user message.  All gates of a   *)
(* conversation share its cancellation flag.  A child agent is an abstract *)
(* run that yields pieces of text and then ends or throws; what a piece    *)
(* says matters only to the test for an approval.                          *)
(***************************************************************************)
EXTENDS Naturals, Sequences, FiniteSets

CONSTANTS Gates,          \* user messages that start the script
          Workers,        \* profiles of metadata.workers, in order
          Reviewers,      \* profiles of metadata.reviewers, in order
          Fixers,         \* profiles of metadata.fixers in order, the workers when there are none
          MaxIterations,  \* metadata.maxIterations
          MaxChunks,      \* bound: pieces of text a child yields
          MaxCancels      \* bound: how often the host cancels

ASSUME ScriptAssumption ==
    /\ Workers \in Seq(STRING) /\ Reviewers \in Seq(STRING) /\ Fixers \in Seq(STRING)
    /\ Workers # <<>> => Fixers # <<>>
    /\ MaxIterations \in Nat \ {0}
    /\ MaxChunks \in Nat
    /\ MaxCancels \in Nat

VARIABLES gate,       \* [Gates -> state of a run of the script]
          child,      \* [Gates -> the agents of the batch under way]
          cancelled,  \* the conversation is in conversationCancellation
          cancels     \* how often the host cancelled

scriptVars == <<gate, child, cancelled, cancels>>

Modes == {"parallel", "sequential"}
\* What a piece of text may say: the script reads only what reviewers say.
Chunks(pc) == IF pc = "review" THEN {"approved", "other"} ELSE {"other"}
NoBatch == [done |-> {}, failed |-> {}, skipped |-> {}]

----------------------------------------------------------------------------
(* Batches of child agents                                                 *)

Settled(st) == st \in {"done", "failed", "skipped"}

BatchMode(g) == IF gate[g].pc = "work" THEN gate[g].mode ELSE gate[g].reviewMode

\* runBatch up to its first await: a cancelled batch starts nobody, a parallel one everybody.
Batch(agents, mode) ==
    [i \in 1..Len(agents) |->
        [st |-> IF cancelled THEN "skipped"
                ELSE IF mode = "parallel" \/ i = 1 THEN "running"
                ELSE "waiting",
         text |-> <<>>]]

\* Mutant: the first failure ends the batch.
BatchOverAtFailure(g) ==
    \E i \in DOMAIN child[g] : child[g][i].st = "failed" \/ \A j \in DOMAIN child[g] : Settled(child[g][j].st)

BatchOver(g) == \A i \in DOMAIN child[g] : Settled(child[g][i].st)

Members(g, st) == {i \in DOMAIN child[g] : child[g][i].st = st}

BatchResult(g) == [done |-> Members(g, "done"), failed |-> Members(g, "failed"),
                   skipped |-> Members(g, "skipped")]

SetChild(g, i, c) == child' = [child EXCEPT ![g][i] = c]

\* runAgent: the flag is looked at for every step the child yields, and not when it ends.
ChildYields(g, i) ==
    /\ child[g][i].st = "running"
    /\ \E piece \in Chunks(gate[g].pc) :
          IF cancelled
          THEN SetChild(g, i, [child[g][i] EXCEPT !.st = "failed"])
          ELSE /\ Len(child[g][i].text) < MaxChunks
               /\ SetChild(g, i, [child[g][i] EXCEPT !.text = Append(@, piece)])
    /\ UNCHANGED <<gate, cancelled, cancels>>

ChildEnds(g, i) ==
    /\ child[g][i].st = "running"
    /\ \E st \in {"done", "failed"} : SetChild(g, i, [child[g][i] EXCEPT !.st = st])
    /\ UNCHANGED <<gate, cancelled, cancels>>

\* The loop of a sequential batch after one agent: leave when cancelled, else run the next.
NextInOrder(g) ==
    /\ gate[g].pc \in {"work", "review"}
    /\ Members(g, "running") = {} /\ Members(g, "waiting") # {}
    /\ LET first == CHOOSE i \in Members(g, "waiting") :
                        \A j \in Members(g, "waiting") : i <= j
       IN child' = [child EXCEPT ![g] =
             [i \in DOMAIN @ |->
                 IF cancelled /\ @[i].st = "waiting" THEN [@[i] EXCEPT !.st = "skipped"]
                 ELSE IF i = first THEN [@[i] EXCEPT !.st = "running"]
                 ELSE @[i]]]
    /\ UNCHANGED <<gate, cancelled, cancels>>

----------------------------------------------------------------------------
(* The quality-gate script                                                 *)

\* The joined text of a reviewer has a line that begins with APPROVED: pieces are joined
\* without a separator, so only the first one begins a line.
Approves(text) == text # <<>> /\ text[1] = "approved"

\* Mutant: that no reviewer failed is enough.
ApprovedUnlessFailed(g) == Members(g, "failed") = {} /\ Members(g, "done") # {}

Approved(g) ==
    /\ Members(g, "failed") = {}
    /\ Members(g, "done") # {}
    /\ \A i \in Members(g, "done") : Approves(child[g][i].text)

FinishScript(g, outcome) ==
    /\ gate' = [gate EXCEPT ![g].pc = "draining", ![g].outcome = outcome]
    /\ UNCHANGED child

\* The head of the script's loop.  s is the state of the gate before it.
NextIteration(g, s) ==
    IF s.iteration = MaxIterations \/ cancelled
    THEN /\ gate' = [gate EXCEPT ![g] = [s EXCEPT !.pc = "draining", !.outcome = "limit"]]
         /\ UNCHANGED child
    ELSE /\ gate' = [gate EXCEPT ![g] = [s EXCEPT !.pc = "work", !.iteration = @ + 1]]
         /\ child' = [child EXCEPT ![g] =
                         Batch(IF s.iteration = 0 THEN Workers ELSE Fixers, s.mode)]

\* sendMessage lifts the flag; the loop resolves its script, which a profile may not name.
StartGate(g) ==
    /\ gate[g].pc = "off"
    /\ cancelled' = FALSE
    /\ \/ gate' = [gate EXCEPT ![g].pc = "draining", ![g].outcome = "missing"]
       \/ \E m, r \in Modes :
             gate' = [gate EXCEPT ![g].pc = "started", ![g].mode = m, ![g].reviewMode = r]
    /\ UNCHANGED <<child, cancels>>

BeginScript(g) ==
    /\ gate[g].pc = "started"
    /\ IF Workers = <<>> \/ Reviewers = <<>>
       THEN FinishScript(g, "unconfigured")
       ELSE NextIteration(g, gate[g])
    /\ UNCHANGED <<cancelled, cancels>>

\* The batch resolves, and the script waits for its checkpoint.
WorkDone(g) ==
    /\ gate[g].pc = "work" /\ BatchOver(g)
    /\ gate' = [gate EXCEPT ![g].pc = "worked", ![g].attempt = BatchResult(g)]
    /\ UNCHANGED <<child, cancelled, cancels>>

\* An attempt of which nothing succeeded is not reviewed.
AskReview(g) ==
    /\ gate[g].pc = "worked"
    /\ LET a == gate[g].attempt IN
       IF a.failed # {} /\ a.done = {}
       THEN NextIteration(g, gate[g])
       ELSE /\ gate' = [gate EXCEPT ![g].pc = "review"]
            /\ child' = [child EXCEPT ![g] = Batch(Reviewers, gate[g].reviewMode)]
    /\ UNCHANGED <<cancelled, cancels>>

ReviewDone(g) ==
    /\ gate[g].pc = "review" /\ BatchOver(g)
    /\ gate' = [gate EXCEPT ![g].pc = "reviewed"]
    /\ UNCHANGED <<child, cancelled, cancels>>

Judge(g) ==
    /\ gate[g].pc = "reviewed"
    /\ IF Approved(g) THEN FinishScript(g, "approved") ELSE NextIteration(g, gate[g])
    /\ UNCHANGED <<cancelled, cancels>>

\* The steps emitted meanwhile are handed on only now that the script has returned.
Drain(g) ==
    /\ gate[g].pc = "draining"
    /\ gate' = [gate EXCEPT ![g].pc = "ended"]
    /\ UNCHANGED <<child, cancelled, cancels>>

CancelGates ==
    /\ cancels < MaxCancels
    /\ cancelled' = TRUE
    /\ cancels' = cancels + 1
    /\ UNCHANGED <<gate, child>>

\* Another message of the conversation, whose own run is not among Gates, lifts the flag.
MessageElsewhere ==
    /\ cancelled
    /\ cancelled' = FALSE
    /\ UNCHANGED <<gate, child, cancels>>

----------------------------------------------------------------------------

ScriptInit ==
    /\ gate = [g \in Gates |-> [pc |-> "off", mode |-> "parallel", reviewMode |-> "parallel",
                                iteration |-> 0, attempt |-> NoBatch, outcome |-> "none"]]
    /\ child = [g \in Gates |-> <<>>]
    /\ cancelled = FALSE
    /\ cancels = 0

ChildStep(g, i) == ChildYields(g, i) \/ ChildEnds(g, i)

GateStep(g) ==
    \/ BeginScript(g)
    \/ NextInOrder(g)
    \/ WorkDone(g)
    \/ AskReview(g)
    \/ ReviewDone(g)
    \/ Judge(g)
    \/ Drain(g)

ScriptNext ==
    \/ \E g \in Gates : StartGate(g) \/ GateStep(g)
    \/ \E g \in Gates : \E i \in DOMAIN child[g] : ChildStep(g, i)
    \/ CancelGates
    \/ MessageElsewhere

\* Promises that are settled are continued, and a child agent's turn ends (AgentTurn!TurnEnds).
ScriptFairness ==
    \A g \in Gates :
        /\ WF_scriptVars(GateStep(g))
        /\ \A i \in 1..Len(Workers \o Reviewers \o Fixers) :
              WF_scriptVars(i \in DOMAIN child[g] /\ ChildEnds(g, i))

----------------------------------------------------------------------------
(* Properties                                                              *)

AllApproved(g) ==
    /\ Len(child[g]) = Len(Reviewers)
    /\ \A i \in DOMAIN child[g] : child[g][i].st = "done" /\ Approves(child[g][i].text)

\* A deliverable leaves as approved only if every reviewer answered with an approval and no
\* agent of the attempt was left out without a trace.  A batch that runs in sequence is cut
\* short by a cancellation, and what is left of it counts as the whole: the exception.
ApprovalIsWhole ==
    \A g \in Gates :
        gate[g].outcome = "approved" =>
            /\ gate[g].reviewMode = "parallel" \/ cancels = 0 => AllApproved(g)
            /\ gate[g].mode = "parallel" \/ cancels = 0 => gate[g].attempt.skipped = {}

\* When the script has returned, none of the agents it started still runs: a batch waits for all
\* of its agents even when some of them failed.
NoStrayChildren ==
    \A g \in Gates :
        gate[g].pc \in {"worked", "reviewed", "draining", "ended"} => Members(g, "running") = {}

\* Every user message to such an agent is answered in the end, cancelled or not.
GateEnds == \A g \in Gates : []<>(gate[g].pc \in {"off", "ended"})
=============================================================================
