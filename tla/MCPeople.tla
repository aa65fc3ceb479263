------------------------------ MODULE MCPeople ------------------------------
(***************************************************************************)
(* Where the program waits for people: approvals, questions and the        *)
(* messenger channel with its two directions.  They share no variable: a   *)
(* behaviour is one of one of them while the others rest.                  *)
(***************************************************************************)
EXTENDS Approvals, ImChannel, ImReply, Questions, TLC

CONSTANTS r1, r2, r3,  \* approvals
          a1, a2,      \* agents
          read         \* a tool

\* r1 and r2 ask for the same tool of one conversation, r3 comes from a plugin.
MCAgentOf == (r1 :> a1) @@ (r2 :> a1) @@ (r3 :> a2)
SameTool == (r1 :> <<a1, read>>) @@ (r2 :> <<a1, read>>) @@ (r3 :> <<a2, read>>)

MCBlanks == {2, 3}
-----------------------------------------------------------------------------

\* Requests to the channel are told apart by their number only: they come in its order.
InOrder == \A r, q \in Requests : q < r /\ request[r].pc # "off" => request[q].pc # "off"

VARIABLE part    \* the part whose behaviour this is

peopleVars == <<vars, imVars, replyVars, questionVars, part>>

PeopleInit ==
    /\ part \in {"approvals", "channel", "reply", "questions"}
    /\ Init /\ ImInit /\ ReplyInit /\ QuestionInit

PeopleNext ==
    /\ UNCHANGED part
    /\ \/ part = "approvals" /\ Next /\ UNCHANGED <<imVars, replyVars, questionVars>>
       \/ part = "channel" /\ ImNext /\ InOrder' /\ UNCHANGED <<vars, replyVars, questionVars>>
       \/ part = "reply" /\ ReplyNext /\ UNCHANGED <<vars, imVars, questionVars>>
       \/ part = "questions" /\ QuestionNext /\ UNCHANGED <<vars, imVars, replyVars>>

\* The fairness of Approvals!FairSpec, in its own behaviours.
ApprovalFairness == WF_vars(part = "approvals" /\ Tick) /\ WF_vars(Expire)

PeopleSpec ==
    /\ PeopleInit /\ [][PeopleNext]_peopleVars
    /\ ApprovalFairness /\ ReplyFairness /\ QuestionFairness

-----------------------------------------------------------------------------

\* The messenger: texts reach the conversation that is bound, and replies are whole.
ChannelIsSound == TextsFollowTheBinding /\ ReplyIsWhole

\* Approvals, replies and questions end, whoever stays silent.
PeopleAreServed == EveryAskEnds /\ ReplyEnds /\ QuestionsEnd
=============================================================================
