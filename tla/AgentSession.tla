---------------------------- MODULE AgentSession ----------------------------
(***************************************************************************)
(* The controller behind an open chat view (AgentSessionController and the *)
(* React provider that reads its snapshot).  start reads the agent and its *)
(* messages, shows both, and only then subscribes: what the node writes in *)
(* between is not delivered.  From then on updates and messages arrive     *)
(* through the subscriptions, in order, and a timer asks for the agent's   *)
(* status, with answers that may overtake each other and come after stop.  *)
(* A message is written again, under its id, while it is streamed.         *)
(* The host is taken to stop a session only when its start has settled and *)
(* to start one only when the last is stopped (see the README for what     *)
(* happens otherwise).                                                     *)
(***************************************************************************)
EXTENDS Naturals, Sequences, FiniteSets, SequencesExt

CONSTANTS
    SessionMessages,    \* ids of the messages the node may write
    MaxVersions,        \* bound: writes of one message
    MaxStatus,          \* bound: changes of the agent's status
    PollSlots,          \* bound: unanswered polls
    MaxStarts,          \* bound: starts
    MaxPollFailures,    \* bound: polls and starts that fail
    None, Asked         \* nothing there; a poll the node has not answered

VARIABLES
    log,            \* the node's messages, in the order they were created
    version,        \* id -> number of times it was written
    status,         \* the agent's status, by its change count
    opened,         \* agentId is set
    reads,          \* the start in flight: [agent |->, messages |->], or None
    subscribed,     \* both subscriptions and the timer exist
    updates,        \* status changes on their way to the subscriber
    arriving,       \* messages on their way to the subscriber
    polls,          \* slot -> None, Asked or the status it carries
    shownAgent,     \* snapshot.agent's status, None before the first
    messages,       \* snapshot.messages: <<id, version>> in order
    ordered,        \* snapshot.orderedMessageIds
    starts, failures,
    missed          \* ghost: ids written between the read and the subscription

sessionServer == <<log, version, status>>
sessionShown == <<shownAgent, messages, ordered>>
sessionVars == <<sessionServer, opened, reads, subscribed, updates, arriving, polls,
                 sessionShown, starts, failures, missed>>

SessionInit ==
    /\ log = <<>> /\ version = [m \in SessionMessages |-> 0] /\ status = 0
    /\ opened = FALSE /\ reads = None /\ subscribed = FALSE
    /\ updates = <<>> /\ arriving = <<>> /\ polls = [p \in PollSlots |-> None]
    /\ shownAgent = None /\ messages = <<>> /\ ordered = <<>>
    /\ starts = 0 /\ failures = 0 /\ missed = {}

-----------------------------------------------------------------------------
(* The node *)

NodeWrites(m) ==
    /\ version[m] < MaxVersions
    /\ version' = [version EXCEPT ![m] = @ + 1]
    /\ log' = IF version[m] = 0 THEN Append(log, m) ELSE log
    /\ IF subscribed
       THEN arriving' = Append(arriving, <<m, version'[m]>>) /\ UNCHANGED missed
       ELSE /\ missed' = IF reads # None /\ reads.messages # None
                         THEN missed \union {m} ELSE missed
            /\ UNCHANGED arriving
    /\ UNCHANGED <<status, opened, reads, subscribed, updates, polls, sessionShown,
                   starts, failures>>

StatusChanges ==
    /\ status < MaxStatus
    /\ status' = status + 1
    /\ updates' = IF subscribed THEN Append(updates, status') ELSE updates
    /\ UNCHANGED <<log, version, opened, reads, subscribed, arriving, polls,
                   sessionShown, starts, failures, missed>>

-----------------------------------------------------------------------------
(* start and stop *)

StartSession ==
    /\ ~opened /\ starts < MaxStarts
    /\ opened' = TRUE /\ starts' = starts + 1 /\ missed' = {}
    /\ reads' = [agent |-> None, messages |-> None]
    /\ UNCHANGED <<sessionServer, subscribed, updates, arriving, polls, sessionShown, failures>>

\* fetchAgent and getMessages are answered separately.
FetchAnswered ==
    /\ reads # None
    /\ \/ reads.agent = None /\ reads' = [reads EXCEPT !.agent = status]
       \/ /\ reads.messages = None
          /\ reads' = [reads EXCEPT !.messages =
                         [i \in DOMAIN log |-> <<log[i], version[log[i]]>>]]
    /\ UNCHANGED <<sessionServer, opened, subscribed, updates, arriving, polls, sessionShown,
                   starts, failures, missed>>

\* Both answers are in: the snapshot is replaced, then the subscriptions begin.
ShowAndSubscribe ==
    /\ reads # None /\ reads.agent # None /\ reads.messages # None
    /\ shownAgent' = reads.agent
    /\ messages' = reads.messages
    /\ ordered' = [i \in DOMAIN reads.messages |-> reads.messages[i][1]]
    /\ subscribed' = TRUE
    /\ reads' = None
    /\ UNCHANGED <<sessionServer, opened, updates, arriving, polls, starts, failures, missed>>

\* One of the reads fails: the session stays without subscriptions.
StartFails ==
    /\ reads # None /\ failures < MaxPollFailures
    /\ failures' = failures + 1 /\ reads' = None
    /\ UNCHANGED <<sessionServer, opened, subscribed, updates, arriving, polls, sessionShown,
                   starts, missed>>

StopSession ==
    /\ opened /\ reads = None
    /\ opened' = FALSE /\ subscribed' = FALSE
    /\ updates' = <<>> /\ arriving' = <<>>
    /\ UNCHANGED <<sessionServer, reads, polls, sessionShown, starts, failures, missed>>

-----------------------------------------------------------------------------
(* What arrives *)

\* handleAgentUpdate merges the change into the agent that is shown.
HandleAgentUpdate ==
    /\ updates # <<>>
    /\ updates' = Tail(updates)
    /\ shownAgent' = Head(updates)
    /\ UNCHANGED <<sessionServer, opened, reads, subscribed, arriving, polls, messages,
                   ordered, starts, failures, missed>>

\* Mutant: a message that is known is taken for a new one.
AppendMessage ==
    /\ arriving # <<>>
    /\ messages' = Append(messages, Head(arriving)) /\ ordered' = Append(ordered, Head(arriving)[1])
    /\ arriving' = Tail(arriving)
    /\ UNCHANGED <<sessionServer, opened, reads, subscribed, updates, polls, shownAgent,
                   starts, failures, missed>>

\* The messages that do not have an id.
Without(id) ==
    LET Filter[i \in 0 .. Len(messages)] ==
          IF i = 0 THEN <<>>
          ELSE IF messages[i][1] # id THEN Append(Filter[i - 1], messages[i]) ELSE Filter[i - 1]
    IN  Filter[Len(messages)]

\* handleNewMessage: the message moves to the end, its id keeps its place.
HandleNewMessage ==
    /\ arriving # <<>>
    /\ LET m == Head(arriving)
       IN /\ messages' = Append(Without(m[1]), m)
          /\ ordered' = IF m[1] \in ToSet(ordered) THEN ordered ELSE Append(ordered, m[1])
    /\ arriving' = Tail(arriving)
    /\ UNCHANGED <<sessionServer, opened, reads, subscribed, updates, polls, shownAgent,
                   starts, failures, missed>>

\* Mutant: the timer does nothing once an agent is shown.
PollUntilShown(p) ==
    /\ subscribed /\ polls[p] = None /\ shownAgent = None
    /\ polls' = [polls EXCEPT ![p] = Asked]
    /\ UNCHANGED <<sessionServer, opened, reads, subscribed, updates, arriving, sessionShown,
                   starts, failures, missed>>

PollTick(p) ==
    /\ subscribed /\ polls[p] = None
    /\ polls' = [polls EXCEPT ![p] = Asked]
    /\ UNCHANGED <<sessionServer, opened, reads, subscribed, updates, arriving, sessionShown,
                   starts, failures, missed>>

PollRead(p) ==
    /\ polls[p] = Asked
    /\ polls' = [polls EXCEPT ![p] = status]
    /\ UNCHANGED <<sessionServer, opened, reads, subscribed, updates, arriving, sessionShown,
                   starts, failures, missed>>

\* The answer replaces the agent, also after stop and in a later session.
PollAnswered(p) ==
    /\ polls[p] \notin {None, Asked}
    /\ polls' = [polls EXCEPT ![p] = None]
    /\ shownAgent' = polls[p]
    /\ UNCHANGED <<sessionServer, opened, reads, subscribed, updates, arriving, messages,
                   ordered, starts, failures, missed>>

PollFails(p) ==
    /\ polls[p] = Asked /\ failures < MaxPollFailures
    /\ polls' = [polls EXCEPT ![p] = None] /\ failures' = failures + 1
    /\ UNCHANGED <<sessionServer, opened, reads, subscribed, updates, arriving, sessionShown,
                   starts, missed>>

SessionNext ==
    \/ \E m \in SessionMessages : NodeWrites(m)
    \/ StatusChanges
    \/ StartSession \/ FetchAnswered \/ ShowAndSubscribe \/ StartFails \/ StopSession
    \/ HandleAgentUpdate \/ HandleNewMessage
    \/ \E p \in PollSlots : PollTick(p) \/ PollRead(p) \/ PollAnswered(p) \/ PollFails(p)

\* Calls are answered, deliveries happen and the interval timer fires.
SessionFairness ==
    /\ WF_sessionVars(FetchAnswered \/ ShowAndSubscribe)
    /\ WF_sessionVars(HandleAgentUpdate) /\ WF_sessionVars(HandleNewMessage)
    /\ \A p \in PollSlots :
         WF_sessionVars(PollTick(p)) /\ WF_sessionVars(PollRead(p) \/ PollAnswered(p))

-----------------------------------------------------------------------------
(* Properties *)

(***************************************************************************)
(* Once everything written has arrived, an open session shows every        *)
(* message of the node in its last version, and lists their ids in the     *)
(* order the node created them; only a message written between start's     *)
(* read and its subscription may be absent, stale or out of place          *)
(* (AgentSessionController start, handleNewMessage).                       *)
(***************************************************************************)
ShownIsTheLog ==
    LET Sure == ToSet(log) \ missed
        Created(m) == CHOOSE k \in DOMAIN log : log[k] = m
    IN subscribed /\ arriving = <<>> =>
         /\ \A m \in Sure : m \in ToSet(ordered) /\ <<m, version[m]>> \in ToSet(messages)
         /\ \A i, j \in DOMAIN ordered : i < j /\ {ordered[i], ordered[j]} \subseteq Sure =>
               Created(ordered[i]) < Created(ordered[j])
         /\ Len(messages) = Len(ordered)

(***************************************************************************)
(* A session that stays open ends up showing the agent's status, whatever  *)
(* was missed before it subscribed and in whatever order polls answer      *)
(* (AgentSessionController startPolling).                                  *)
(***************************************************************************)
StatusCatchesUp == <>[]subscribed => []<>(shownAgent = status)
=============================================================================
