------------------------------ MODULE SolidPod ------------------------------
(***************************************************************************)
(* The backup of a node's conversations in one file of a Solid pod: start  *)
(* merges the file into the store, pushes at once and from then on by a    *)
(* timer.  A push replaces the whole file; it copies the messages of a     *)
(* conversation from the last backup instead of reading them when the row  *)
(* says nothing came since.  Messages and times are numbers.  What a       *)
(* message loses in the file (attachments, tool calls) is left out, and so *)
(* is the limit of 50 conversations of a listing.  One push is under way   *)
(* at a time: a bound, the timer does not wait for the last one.           *)
(***************************************************************************)
EXTENDS Naturals, FiniteSets

CONSTANTS
    PodConversations,
    MaxPodMessages,     \* bound: messages stored here
    MaxPodTime,         \* bound: time
    MaxStarts,          \* bound: calls of start
    MaxPodFailures,     \* bound: requests that fail
    NoBackup

ASSUME PodAssumption ==
    /\ IsFiniteSet(PodConversations)
    /\ NoBackup \notin [rows : [PodConversations -> Nat],
                        messages : [PodConversations -> SUBSET Nat]]

VARIABLES
    store,          \* conversation -> its messages
    row,            \* conversation -> lastMessageTimestamp of its row, 0 without one
    pod,            \* the file: rows and messages of each conversation
    lastPush,       \* lastPushCompletedAt
    adapter,        \* how far start is, what it pulled, and whether the timer runs
    push,           \* the call of pushToPod that is under way
    now, failures,
    missed          \* messages that came when no later push need look for them

podVars == <<store, row, pod, lastPush, adapter, push, now, failures, missed>>

Nothing == [c \in PodConversations |-> {}]
NoRows == [c \in PodConversations |-> 0]
NoPush == [pc |-> "off", rows |-> NoRows, previous |-> NoBackup, left |-> {}, messages |-> Nothing,
           at |-> 0]

Stored == UNION {store[c] : c \in PodConversations}
Pushing == push.pc # "off"
Saved(c) == IF pod = NoBackup THEN {} ELSE pod.messages[c]

\* A device that has a backup of an earlier installation, or none.
PodInit ==
    /\ store = Nothing /\ row = NoRows
    /\ pod \in {NoBackup} \union
               {[rows |-> [NoRows EXCEPT ![c] = 1], messages |-> [Nothing EXCEPT ![c] = {0}]] :
                  c \in PodConversations}
    /\ lastPush = 0 /\ now = 1 /\ failures = 0
    /\ adapter = [pc |-> "off", pulled |-> NoBackup, left |-> {}, timer |-> FALSE, starts |-> 0]
    /\ push = NoPush
    /\ missed = {}

Fails == failures < MaxPodFailures /\ failures' = failures + 1
Succeeds == UNCHANGED failures

-----------------------------------------------------------------------------
(* The conversations go on. *)

\* The messages of a conversation that later pushes need not look for when it has new ones and a
\* row that is dated so.
MayMiss(c, new, at) ==
    IF at <= lastPush THEN (store[c] \union new) \ Saved(c)
    ELSE IF Pushing THEN new ELSE {}

\* A conversation has new messages and another row.
Arrived(c, new, at) ==
    /\ store' = [store EXCEPT ![c] = @ \union new]
    /\ row' = [row EXCEPT ![c] = at]
    /\ missed' = missed \union MayMiss(c, new, at)

AppendMessage(c) ==
    /\ Cardinality(Stored) < MaxPodMessages
    /\ Arrived(c, {Cardinality(Stored) + 1}, now)
    /\ UNCHANGED <<pod, lastPush, adapter, push, now, failures>>

\* A synchronisation writes the row of another device, of any date, and later inserts messages.
SyncRow(c, at) ==
    /\ at \in 1..now /\ at # row[c]
    /\ Arrived(c, {}, at)
    /\ UNCHANGED <<pod, lastPush, adapter, push, now, failures>>

SyncMessage(c) ==
    /\ Cardinality(Stored) < MaxPodMessages /\ row[c] > 0
    /\ Arrived(c, {Cardinality(Stored) + 1}, row[c])
    /\ UNCHANGED <<pod, lastPush, adapter, push, now, failures>>

PodTick ==
    /\ now < MaxPodTime /\ now' = now + 1
    /\ UNCHANGED <<store, row, pod, lastPush, adapter, push, failures, missed>>

-----------------------------------------------------------------------------
(* pushToPod *)

\* What pullFromPod returns: the file, or null for a file that is missing or a request that fails.
Pull(answer) ==
    \/ answer = pod /\ Succeeds
    \/ answer = NoBackup /\ Fails

BeginPush ==
    /\ ~Pushing
    /\ push' = [NoPush EXCEPT !.pc = "listing"]

\* listConversations, and whether there is a backup to compare with.
ListConversations ==
    LET listed == {c \in PodConversations : row[c] > 0} IN
    /\ push.pc = "listing"
    /\ push' = [push EXCEPT !.rows = row, !.left = listed,
                              !.pc = IF lastPush > 0 THEN "pulling" ELSE "collecting"]
    /\ UNCHANGED <<store, row, pod, lastPush, adapter, now, failures, missed>>

PullPrevious ==
    /\ push.pc = "pulling"
    /\ \E answer \in {pod, NoBackup} :
         Pull(answer) /\ push' = [push EXCEPT !.previous = answer, !.pc = "collecting"]
    /\ UNCHANGED <<store, row, pod, lastPush, adapter, now, missed>>

\* Mutant: a conversation that is in the last backup is copied, whatever its row says.
KnownBefore(c) ==
    LET previous == push.previous IN previous # NoBackup /\ previous.rows[c] > 0

\* `unchanged`: the row is not newer than the last push and the backup has the conversation.
Unchanged(c) ==
    LET previous == push.previous IN
    previous # NoBackup /\ push.rows[c] <= lastPush /\ previous.rows[c] > 0

\* The messages of the next conversation, copied or read.
CollectMessages(c) ==
    /\ push.pc = "collecting" /\ c \in push.left
    /\ push' = [push EXCEPT
         !.left = @ \ {c},
         !.messages[c] = IF Unchanged(c) THEN push.previous.messages[c] ELSE store[c]]
    /\ UNCHANGED <<store, row, pod, lastPush, adapter, now, failures, missed>>

\* The payload is whole, and dated; the first request to write it is sent.
Export ==
    /\ push.pc = "collecting" /\ push.left = {}
    /\ push' = [push EXCEPT !.pc = "writing", !.at = now]
    /\ UNCHANGED <<store, row, pod, lastPush, adapter, now, failures, missed>>

\* overwriteFile; the pod may have taken a request that fails here.
Written == pod' = [rows |-> push.rows, messages |-> push.messages]

Overwrite ==
    /\ push.pc \in {"writing", "again"}
    /\ Written /\ Succeeds
    /\ lastPush' = push.at
    /\ push' = NoPush
    /\ UNCHANGED <<store, row, adapter, now, missed>>

\* The container is made and the file is written again; a second failure ends the push.
OverwriteFails ==
    /\ push.pc \in {"writing", "again"}
    /\ Fails
    /\ Written \/ UNCHANGED pod
    /\ \/ push.pc = "writing" /\ push' = [push EXCEPT !.pc = "again"]
       \/ push' = NoPush
    /\ UNCHANGED <<store, row, lastPush, adapter, now, missed>>

-----------------------------------------------------------------------------
(* start and stop *)

Start ==
    /\ adapter.pc = "off" /\ adapter.starts < MaxStarts /\ ~adapter.timer
    /\ \E answer \in {pod, NoBackup} :
         /\ Pull(answer)
         /\ adapter' = [adapter EXCEPT !.pc = "merging", !.pulled = answer, !.starts = @ + 1,
                          !.left = IF answer = NoBackup THEN {}
                                   ELSE {c \in PodConversations : answer.rows[c] > 0}]
    /\ UNCHANGED <<store, row, pod, lastPush, push, now, missed>>

\* mergePayloadIntoStorage: the rows of the backup replace those here ...
MergeRow(c) ==
    /\ adapter.pc = "merging" /\ c \in adapter.left
    /\ adapter' = [adapter EXCEPT !.left = @ \ {c}]
    /\ Arrived(c, {}, adapter.pulled.rows[c])
    /\ UNCHANGED <<pod, lastPush, push, now, failures>>

\* Mutant: nothing is inserted into a conversation that has messages here.
InsertWhereEmpty(pulled) ==
    store' = [c \in PodConversations |-> IF store[c] = {} THEN pulled.messages[c] ELSE store[c]]

\* ... and its messages are inserted if absent.
InsertMessages(pulled) ==
    store' = [c \in PodConversations |-> store[c] \union pulled.messages[c]]

MergeMessages ==
    /\ adapter.pc = "merging" /\ adapter.left = {}
    /\ \/ adapter.pulled = NoBackup /\ UNCHANGED store
       \/ adapter.pulled # NoBackup /\ InsertMessages(adapter.pulled)
    /\ adapter' = [adapter EXCEPT !.pc = "merged"]
    /\ missed' = missed \union
                   UNION {MayMiss(c, store'[c] \ store[c], row[c]) : c \in PodConversations}
    /\ UNCHANGED <<row, pod, lastPush, push, now, failures>>

\* The first push, and the timer.
Run ==
    /\ adapter.pc = "merged"
    /\ adapter' = [adapter EXCEPT !.pc = "off", !.timer = TRUE]
    /\ BeginPush
    /\ UNCHANGED <<store, row, pod, lastPush, now, failures, missed>>

TimerPushes ==
    /\ adapter.timer
    /\ BeginPush
    /\ UNCHANGED <<store, row, pod, lastPush, adapter, now, failures, missed>>

\* A stop during start finds no timer to clear, and one is set all the same.
Stop ==
    /\ adapter.timer \/ adapter.pc # "off"
    /\ adapter' = [adapter EXCEPT !.timer = FALSE]
    /\ UNCHANGED <<store, row, pod, lastPush, push, now, failures, missed>>

-----------------------------------------------------------------------------

PushContinues ==
    \/ ListConversations \/ PullPrevious \/ Export \/ Overwrite \/ OverwriteFails
    \/ \E c \in PodConversations : CollectMessages(c)

StartContinues ==
    MergeMessages \/ (\E c \in PodConversations : MergeRow(c)) \/ Run

PodNext ==
    \/ \E c \in PodConversations :
         AppendMessage(c) \/ SyncMessage(c) \/ \E at \in 1..MaxPodTime : SyncRow(c, at)
    \/ PodTick \/ Start \/ Stop
    \/ TimerPushes \/ PushContinues
    \/ StartContinues

\* Requests to the pod are answered or fail, and the calls here go on.
PodFairness == WF_podVars(PushContinues) /\ WF_podVars(StartContinues)

PodSpec == PodInit /\ [][PodNext]_podVars /\ PodFairness

-----------------------------------------------------------------------------

\* Every message is in the backup once a push has succeeded after it came.
\* What is left out came during a push, in the millisecond of one, or with an older row.
OnlyMissedAreMissing ==
    lastPush > 0 /\ ~Pushing =>
        \A c \in PodConversations : row[c] <= lastPush => store[c] \ Saved(c) \subseteq missed

\* What start has pulled is in the store when it makes its first push: it loses nothing from the
\* backup that it could read.
RestoredBeforePushed ==
    adapter.pc = "merged" /\ adapter.pulled # NoBackup =>
        \A c \in PodConversations : adapter.pulled.messages[c] \subseteq store[c]

BackupIsSound == OnlyMissedAreMissing /\ RestoredBeforePushed

\* Every push ends, whatever fails and whatever is written meanwhile.
PushesEnd == []<>(push.pc = "off")

(***************************************************************************)
(* lastPushCompletedAt is "used to skip getMessages of conversations that  *)
(* have not changed" (solidPodAdapter.ts:49, in Chinese): what a push is   *)
(* about to copy is all the conversation holds.                            *)
(***************************************************************************)
SkippedIsUnchanged ==
    \A c \in push.left :
        push.pc = "collecting" /\ Unchanged(c) => push.previous.messages[c] = store[c]
=============================================================================
