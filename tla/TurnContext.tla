----------------------------- MODULE TurnContext -----------------------------
(***************************************************************************)
(* What a turn sends to the model: the configured prompts and the          *)
(* conversation's history after compaction (prepareIterationHistory,       *)
(* autoCompact, compactHistory, buildLlmMessages).  Every iteration reads  *)
(* the stored messages anew; the summary of a compaction is appended to    *)
(* them and nothing is taken away.  While the model writes a summary or an *)
(* answer, messages of the user written elsewhere may be stored.  A host   *)
(* may set an age past which messages are left out (maxHistoryAgeMs): they *)
(* carry the clocks of the devices that wrote them, so that any of them    *)
(* may be older than another that follows it.                              *)
(* A message weighs one token.  Beside it, the counter that decides when a *)
(* host compacts (TokenTracker, maybeAutoCompact).                         *)
(***************************************************************************)
EXTENDS Naturals, Sequences, FiniteSets, SequencesExt

CONSTANTS
    Settings,       \* the option records a turn may run with, see Settings in the MC module
    PromptTrees,    \* the configured prompts: the nodes in the order of the file, each with the
                    \* position of the one it stands under, 0 at the top
    MaxStored,      \* bound: stored messages
    Compactors,     \* the callers of maybeAutoCompact
    MaxUses,        \* bound: usages that are recorded
    MaxFailures,    \* maxConsecutiveFailures
    Window          \* usage at which the threshold is passed

\* Turns and messages are counted from zero, which turns a window of messages off.
ASSUME ContextAssumption ==
    /\ \A s \in Settings : s.keep \in Nat /\ s.maxMessages \in Nat /\ s.aged \in BOOLEAN
    /\ \A tree \in PromptTrees : Len(tree) \in Nat /\ DOMAIN tree = 1..Len(tree)

VARIABLES
    settings, prompts,
    stored,         \* the conversation's messages in clock order
    turn,           \* [pc, read, history, request, iteration] and, as a ghost, old: the messages
                    \* of the history that were past the age limit when the request was built
    interleaved,    \* ghost: a message of the user was stored between a call and its result
    tracker,        \* [used, compacting, failures]
    compactor,      \* Compactors -> "idle" or "compacting"
    reset           \* ghost: the tracker was reset during a compaction

turnVars == <<settings, prompts, stored, turn, interleaved>>
trackerVars == <<tracker, compactor, reset>>
contextVars == <<turnVars, trackerVars>>

Ids(messages) == {messages[i].id : i \in DOMAIN messages}
Message(role) == [id |-> <<role, Len(stored)>>, role |-> role, covers |-> {}]

ContextInit ==
    /\ settings \in Settings /\ prompts \in PromptTrees
    /\ stored = <<>>
    /\ turn = [pc |-> "idle", read |-> <<>>, history |-> <<>>, request |-> <<>>, iteration |-> 0,
               old |-> {}]
    /\ interleaved = FALSE
    /\ tracker = [used |-> 0, compacting |-> FALSE, failures |-> 0]
    /\ compactor = [c \in Compactors |-> "idle"] /\ reset = FALSE

-----------------------------------------------------------------------------
(* Prompts *)

\* processPrompt: each node's text and that of the nodes under it without a role.
TextOf(nodes) ==
    LET text[i \in DOMAIN nodes] ==
          LET Part(j) == IF nodes[j].parent = i /\ nodes[j].role = "" THEN text[j] ELSE <<>>
          IN nodes[i].text \o FlattenSeq([j \in DOMAIN nodes |-> Part(j)])
    IN text

\* A node is left out with all that stands under it.
Enabled(nodes) ==
    LET on[i \in DOMAIN nodes] ==
          nodes[i].enabled /\ (nodes[i].parent # 0 => on[nodes[i].parent])
    IN on

\* collectRolePrompts: one entry for every enabled node with a text or a role, in their order.
Collect(nodes) ==
    LET Own(i) == [role |-> IF nodes[i].role = "" THEN "system" ELSE nodes[i].role,
                   text |-> TextOf(nodes)[i]]
        One(i) == IF Enabled(nodes)[i] /\ (TextOf(nodes)[i] # <<>> \/ nodes[i].role # "")
                  THEN <<Own(i)>> ELSE <<>>
    IN FlattenSeq([i \in DOMAIN nodes |-> One(i)])

LastIs(sequence, role) == sequence # <<>> /\ Last(sequence).role = role

\* promptConcatStream: a last message of the user is appended, with its picture if it has
\* one that can be read.
PromptConcat(history, readable) ==
    Collect(prompts) \o
        IF ~LastIs(history, "user") \/ (settings.picture /\ ~readable) THEN <<>>
        ELSE <<[role |-> "user", text |-> <<IF settings.picture THEN "picture" ELSE "question">>]>>

\* Mutant: what comes before a message that is too old is too old as well.
RecentOnwards(history, old) ==
    IF ~settings.aged THEN history
    ELSE LET cut == Max({0} \union {i \in DOMAIN history : history[i].id \in old})
         IN SubSeq(history, cut + 1, Len(history))

\* filterOldMessagesByDuration, where a limit is set.
Recent(history, old) ==
    IF ~settings.aged THEN history
    ELSE FlattenSeq([i \in DOMAIN history |->
            IF history[i].id \in old THEN <<>> ELSE <<history[i]>>])

\* buildLlmMessages: without a trailing prompt of the user, then the history.
BuildLlmMessages(history, readable, old) ==
    LET recent == Recent(history, old)
        flat == PromptConcat(recent, readable)
    IN [prompts |-> IF LastIs(flat, "user") THEN Front(flat) ELSE flat, history |-> recent]

-----------------------------------------------------------------------------
(* Compaction *)

Users(messages) == {i \in DOMAIN messages : messages[i].role = "user"}

LastUser(messages) == Max(Users(messages))

\* Mutant: messages are counted instead of turns.
KeepMessages(messages) == Len(messages) + 1 - settings.keep

\* The first message that is kept: the keep-th of the user from the end.
KeepStart(messages) ==
    CHOOSE i \in Users(messages) : Cardinality({j \in Users(messages) : j >= i}) = settings.keep

Covered(messages) == Ids(messages) \union UNION {messages[i].covers : i \in DOMAIN messages}

\* createSummaryMessage, for the messages that are dropped.
Summary(dropped) ==
    [id |-> <<"summary", turn.iteration>>, role |-> "summary", covers |-> Covered(dropped)]

\* slice with the undefined index that keeping no turn gives takes everything on both sides.
Compacted(messages) ==
    IF settings.keep = 0 THEN <<Summary(messages)>> \o messages
    ELSE LET first == KeepStart(messages)
         IN <<Summary(SubSeq(messages, 1, first - 1))>> \o SubSeq(messages, first, Len(messages))

\* autoCompact goes on past the budget; a summary needs something to drop.
OverBudget(messages) == settings.budget = 0 \/ Len(messages) > settings.budget
Droppable(messages) ==
    /\ Cardinality(Users(messages)) > settings.keep
    /\ settings.keep > 0 => KeepStart(messages) > 1

\* compactHistory: the last messages, with the last one of the user where replay asks for it.
CompactHistory(history) ==
    LET size == settings.maxMessages
        tail == SubSeq(history, Len(history) - size + 1, Len(history))
        summary == Summary(SubSeq(history, 1, Len(history) - size))
    IN IF size = 0 \/ Len(history) <= size THEN history
       ELSE IF ~settings.replay THEN tail
       ELSE IF Users(history) = {} THEN <<summary>> \o tail
       ELSE IF LastUser(history) > Len(history) - size THEN tail
       ELSE <<summary, history[LastUser(history)]>> \o tail

-----------------------------------------------------------------------------
(* A turn *)

Store(message) == Len(stored) < MaxStored /\ stored' = Append(stored, message)
At(pc) == turn.pc = pc
UnchangedTracker == UNCHANGED trackerVars

\* The user writes: here, which begins a turn, or on another device.
UserWrites ==
    /\ Store(Message("user"))
    /\ turn' \in {turn} \union (IF At("idle") THEN {[turn EXCEPT !.pc = "read", !.iteration = 0]} ELSE {})
    /\ interleaved' = (interleaved \/ At("tool"))
    /\ UNCHANGED <<settings, prompts>> /\ UnchangedTracker

ReadHistory ==
    /\ At("read")
    /\ turn' = [turn EXCEPT !.pc = "hook", !.read = stored, !.history = stored, !.iteration = @ + 1]
    /\ UNCHANGED <<settings, prompts, stored, interleaved>> /\ UnchangedTracker

\* A ContextCompaction hook may keep the history as it is and skip what follows.
CompactionHook ==
    /\ At("hook")
    /\ turn' \in {[turn EXCEPT !.pc = pc] : pc \in {"auto"} \union (IF settings.hook THEN {"build"} ELSE {})}
    /\ UNCHANGED <<settings, prompts, stored, interleaved>> /\ UnchangedTracker

\* Over the threshold: the model is asked for a summary, or the older part is counted.
AutoCompact ==
    /\ At("auto")
    /\ LET due == /\ settings.threshold > 0 /\ Len(turn.history) > settings.threshold
                  /\ OverBudget(turn.history) /\ Droppable(turn.history)
           counted == Len(turn.history) > 2 * settings.keep
       IN turn' \in
            IF ~due THEN {[turn EXCEPT !.pc = "compact"]}
            ELSE {[turn EXCEPT !.pc = "summarise"],
                  IF counted THEN [turn EXCEPT !.pc = "persist", !.history = Compacted(turn.history)]
                  ELSE [turn EXCEPT !.pc = "compact"]}
    /\ UNCHANGED <<settings, prompts, stored, interleaved>> /\ UnchangedTracker

\* A summary that fails or is too short falls back to the count.
Summarised ==
    /\ At("summarise")
    /\ turn' \in {[turn EXCEPT !.pc = "persist", !.history = Compacted(turn.history)]}
                 \union IF Len(turn.history) > 2 * settings.keep THEN {}
                        ELSE {[turn EXCEPT !.pc = "compact"]}
    /\ UNCHANGED <<settings, prompts, stored, interleaved>> /\ UnchangedTracker

\* persistSummaryMessage: stored with the newest clock; a failure changes nothing else.
PersistSummary ==
    /\ At("persist")
    /\ \/ Store([Head(turn.history) EXCEPT !.id = <<"summary", Len(stored)>>])
       \/ UNCHANGED stored
    /\ turn' = [turn EXCEPT !.pc = "compact"]
    /\ UNCHANGED <<settings, prompts, interleaved>> /\ UnchangedTracker

SendRequest ==
    /\ turn.pc \in {"compact", "build"}
    /\ LET history == IF At("build") THEN turn.history ELSE CompactHistory(turn.history)
       IN \E readable \in BOOLEAN, old \in IF settings.aged THEN SUBSET Ids(history) ELSE {{}} :
            turn' = [turn EXCEPT !.pc = "sent", !.history = history, !.old = old,
                                 !.request = BuildLlmMessages(history, readable, old)]
    /\ UNCHANGED <<settings, prompts, stored, interleaved>> /\ UnchangedTracker

\* The answer is stored; with a call, its result follows and the turn goes on.
Answered ==
    /\ At("sent")
    /\ \E role \in {"assistant", "call"} :
         /\ Store(Message(role))
         /\ turn' = [turn EXCEPT !.pc = IF role = "call" THEN "tool" ELSE "idle",
                                 !.request = <<>>, !.read = <<>>, !.history = <<>>, !.old = {}]
    /\ UNCHANGED <<settings, prompts, interleaved>> /\ UnchangedTracker

ToolAnswers ==
    /\ At("tool")
    /\ Store(Message("tool"))
    /\ turn' = [turn EXCEPT !.pc = "read"]
    /\ UNCHANGED <<settings, prompts, interleaved>> /\ UnchangedTracker

TurnNext ==
    \/ UserWrites \/ ReadHistory \/ CompactionHook \/ AutoCompact \/ Summarised
    \/ PersistSummary \/ SendRequest \/ Answered \/ ToolAnswers

-----------------------------------------------------------------------------
(* The counter *)

RecordUsage ==
    /\ tracker.used < MaxUses
    /\ tracker' = [tracker EXCEPT !.used = @ + 1]
    /\ UNCHANGED <<turnVars, compactor, reset>>

ShouldTrigger ==
    tracker.failures < MaxFailures /\ tracker.used >= Window /\ ~tracker.compacting

MaybeAutoCompact(c) ==
    /\ compactor[c] = "idle" /\ ShouldTrigger
    /\ compactor' = [compactor EXCEPT ![c] = "compacting"]
    /\ tracker' = [tracker EXCEPT !.compacting = TRUE]
    /\ UNCHANGED <<turnVars, reset>>

CompactorEnds(c) ==
    /\ compactor[c] = "compacting"
    /\ compactor' = [compactor EXCEPT ![c] = "idle"]
    /\ tracker' \in {[used |-> 0, compacting |-> FALSE, failures |-> 0],
                     [tracker EXCEPT !.compacting = FALSE, !.failures = @ + 1]}
    /\ UNCHANGED <<turnVars, reset>>

ResetTracker ==
    /\ tracker' = [used |-> 0, compacting |-> FALSE, failures |-> 0]
    /\ reset' = (reset \/ tracker.compacting)
    /\ UNCHANGED <<turnVars, compactor>>

TrackerNext ==
    \/ RecordUsage \/ ResetTracker
    \/ \E c \in Compactors : MaybeAutoCompact(c) \/ CompactorEnds(c)

-----------------------------------------------------------------------------
(* Properties *)

\* What the age limit leaves out: messages that are too old, with what stood behind them.
TooOld ==
    LET history == turn.history
    IN UNION {{history[i].id} \union history[i].covers :
                i \in {j \in DOMAIN history : history[j].id \in turn.old}}

(***************************************************************************)
(* A request is whole: the last message of the user that was read is in it *)
(* (unless replay is turned off); without a message window, every message  *)
(* that was read is in it or stands behind a summary in it, an older       *)
(* summary's messages included; and the configured prompts are all in it,  *)
(* in every iteration, provided the last is not a prompt of the user.      *)
(* Where a host sets an age limit, what is missing is past it, the         *)
(* question too, or stood behind a summary that is: no message is left out *)
(* for another's age (prepareIterationHistory, buildLlmMessages).          *)
(***************************************************************************)
RequestIsWhole ==
    At("sent") =>
      LET sent == turn.request.history
      IN /\ settings.replay => turn.read[LastUser(turn.read)].id \in Ids(sent) \union turn.old
         /\ settings.maxMessages = 0 => Ids(turn.read) \subseteq Covered(sent) \union TooOld
         /\ ~LastIs(Collect(prompts), "user") => turn.request.prompts = Collect(prompts)

(***************************************************************************)
(* Compaction by turns never sends a tool's result without the call it     *)
(* answers: no cut falls between the two, unless the user's message was    *)
(* stored between them.  An age limit looks at no calls and may fall       *)
(* there (compactMessages, llmCompact).                                    *)
(***************************************************************************)
ResultsKeepTheirCalls ==
    At("sent") /\ settings.maxMessages = 0 /\ ~settings.aged /\ ~interleaved =>
      LET sent == turn.request.history
      IN \A i \in DOMAIN sent : sent[i].role = "tool" =>
           \E j \in 1..(i - 1) : sent[j].role = "call"
                /\ \A k \in (j + 1)..(i - 1) : sent[k].role \in {"summary"}

\* At most one compaction is under way, unless the counter was reset during one.
OneCompaction == reset \/ Cardinality({c \in Compactors : compactor[c] = "compacting"}) <= 1
=============================================================================
