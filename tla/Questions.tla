----------------------------- MODULE Questions -----------------------------
(***************************************************************************)
(* Questions an agent asks its user: the tool tells the host, registers    *)
(* itself and waits for an answer or its timer.  The host answers when it  *)
(* likes: while it is being told, later, too late, or more than once.      *)
(***************************************************************************)
EXTENDS Naturals, FiniteSets

CONSTANTS QuestionIds,  \* calls of ask-question and askUserQuestion, each with an id of its own
          Answers       \* what users say

VARIABLES registry,  \* ids in the Map of pending questions
          waits,     \* ids with a running timer
          asking,    \* [QuestionIds -> how far the tool's call is, and its result]
          accepted   \* [QuestionIds -> answers the host was told are accepted, and those refused]

questionVars == <<registry, waits, asking, accepted>>

NoAnswer == "none"

\* The question is shown before it is registered: an answer given at once finds no question.
AskQuestion(q) ==
    /\ asking[q].st = "off"
    /\ \E hasty \in SUBSET Answers :
         accepted' = [accepted EXCEPT ![q].refused = @ \cup hasty]
    /\ asking' = [asking EXCEPT ![q].st = "waiting"]
    /\ registry' = registry \cup {q}
    /\ waits' = waits \cup {q}

SettleQuestion(q, result) ==
    asking' = IF asking[q].st = "waiting"
              THEN [asking EXCEPT ![q] = [st |-> "settled", result |-> result]]
              ELSE asking

\* resolveQuestionAnswer: accepted, and the promise is settled, while the id is registered.
Answer(q, a) ==
    /\ asking[q].st # "off"
    /\ IF q \in registry
       THEN /\ accepted' = [accepted EXCEPT ![q].taken = @ \cup {a}]
            /\ registry' = registry \ {q}
            /\ waits' = waits \ {q}
            /\ SettleQuestion(q, a)
       ELSE /\ accepted' = [accepted EXCEPT ![q].refused = @ \cup {a}]
            /\ UNCHANGED <<registry, waits, asking>>

\* Mutant: the question stays registered.
TimerOnly(q) ==
    /\ q \in waits
    /\ waits' = waits \ {q}
    /\ SettleQuestion(q, "timeout")
    /\ UNCHANGED <<registry, accepted>>

QuestionTimer(q) ==
    /\ q \in waits
    /\ waits' = waits \ {q}
    /\ registry' = registry \ {q}
    /\ SettleQuestion(q, "timeout")
    /\ UNCHANGED accepted

ToolReturns(q) ==
    /\ asking[q].st = "settled"
    /\ asking' = [asking EXCEPT ![q].st = "returned"]
    /\ UNCHANGED <<registry, waits, accepted>>

QuestionInit ==
    /\ registry = {} /\ waits = {}
    /\ asking = [q \in QuestionIds |-> [st |-> "off", result |-> NoAnswer]]
    /\ accepted = [q \in QuestionIds |-> [taken |-> {}, refused |-> {}]]

QuestionNext ==
    \E q \in QuestionIds :
        \/ AskQuestion(q)
        \/ QuestionTimer(q)
        \/ ToolReturns(q)
        \/ \E a \in Answers : Answer(q, a)

\* Timers fire and settled promises are continued; nobody need answer.
QuestionFairness == \A q \in QuestionIds : WF_questionVars(QuestionTimer(q) \/ ToolReturns(q))

\* An answer the host was told is accepted is what the agent gets, and the only one; without one
\* the agent gets the timeout, and no call waits whose question is not in the registry.
AnswersReachTheAgent ==
    \A q \in QuestionIds :
        /\ asking[q].result \notin {NoAnswer, "timeout"} => accepted[q].taken = {asking[q].result}
        /\ asking[q].result = "timeout" => accepted[q].taken = {}
        /\ asking[q].st = "waiting" => q \in registry /\ q \in waits

\* A question ends, answered or not.
QuestionsEnd == \A q \in QuestionIds : asking[q].st # "off" ~> asking[q].st = "returned"
=============================================================================
