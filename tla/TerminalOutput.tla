--------------------------- MODULE TerminalOutput ---------------------------
(***************************************************************************)
(* What is read of one terminal session while it runs: the chunks its      *)
(* manager keeps, up to a limit, the tail of its text, the readers that    *)
(* poll it with terminal.follow and come back with the nextSeq they got,   *)
(* and the notifications of its output, merged by a timer.  A chunk is its *)
(* number; the tail counts chunks.  Output may still arrive after the      *)
(* session is done (see TerminalSession for the session itself).  A        *)
(* session started by terminal.execute has that call as a reader and no    *)
(* notifications.                                                          *)
(***************************************************************************)
EXTENDS Naturals, Sequences, SequencesExt, FiniteSets

CONSTANTS
    Readers,     \* readers of the session
    MaxChunks,   \* bound: chunks the process writes
    KeepChunks,  \* maxChunksPerSession
    KeepTail     \* maxRollingChars, in chunks

ASSUME OutputAssumption == KeepChunks \in Nat \ {0} /\ KeepTail \in Nat

VARIABLES
    chunks,      \* the numbers kept, in order
    nextChunk,   \* nextSeq
    tail,        \* rollingOutput
    finished,    \* the status is not running
    listening,   \* the output listener of terminal.start is registered
    first,       \* the first chunk the listener is told of
    unsent,      \* pending of the throttle
    merging,     \* its timer is set
    sent,        \* the notifications: sequences of chunks
    reader,      \* [from, wait, done, got, lost]
    executed,    \* waitMode of terminal.execute, "none" for terminal.start
    timedOut     \* the timedOut of its answer

outputVars == <<chunks, nextChunk, tail, finished, listening, first, unsent, merging, sent, reader,
                executed, timedOut>>
notices == <<listening, first, unsent, merging, sent>>
execute == <<executed, timedOut>>

OutputInit ==
    /\ chunks = <<>> /\ nextChunk = 1 /\ tail = <<>> /\ finished = FALSE
    /\ listening = FALSE /\ first = 1 /\ unsent = <<>> /\ merging = FALSE /\ sent = <<>>
    /\ reader = [r \in Readers |-> [from |-> 1, wait |-> "idle", done |-> FALSE,
                                    got |-> <<>>, lost |-> {}]]
    /\ executed = "none" /\ timedOut = FALSE

KeepLast(s, n) == SubSeq(s, IF Len(s) > n THEN Len(s) - n + 1 ELSE 1, Len(s))

-----------------------------------------------------------------------------
(* The manager *)

\* runTerminalStart registers its listener once the storage of the session is prepared, and
\* removes it again if the session is done by then.
ListenToOutput ==
    /\ ~listening /\ sent = <<>> /\ first = 1 /\ ~finished /\ executed = "none"
    /\ listening' = TRUE /\ first' = nextChunk
    /\ UNCHANGED <<chunks, nextChunk, tail, finished, unsent, merging, sent, reader, execute>>

\* The throttle: a chunk waits for the timer, which the first of them sets.
PushNotice(c) ==
    IF listening THEN unsent' = Append(unsent, c) /\ merging' = TRUE
                 ELSE UNCHANGED <<unsent, merging>>

ReceiveChunk ==
    /\ nextChunk <= MaxChunks
    /\ chunks' = KeepLast(Append(chunks, nextChunk), KeepChunks)
    /\ tail' = KeepLast(Append(tail, nextChunk), KeepTail)
    /\ nextChunk' = nextChunk + 1
    /\ PushNotice(nextChunk)
    /\ UNCHANGED <<finished, listening, first, sent, reader, execute>>

\* What is pending becomes one notification.
FlushNotices ==
    /\ merging' = FALSE /\ unsent' = <<>>
    /\ sent' = IF unsent = <<>> THEN sent ELSE Append(sent, unsent)

NoticeTimer ==
    /\ merging
    /\ FlushNotices
    /\ UNCHANGED <<chunks, nextChunk, tail, finished, listening, first, reader, execute>>

\* The status update of the end: flush, then the listener goes.
SessionDone ==
    /\ ~finished /\ finished' = TRUE
    /\ IF listening THEN FlushNotices ELSE UNCHANGED <<unsent, merging, sent>>
    /\ listening' = FALSE
    /\ UNCHANGED <<chunks, nextChunk, tail, first, reader, execute>>

-----------------------------------------------------------------------------
(* The readers *)

Wait(r, what) == reader' = [reader EXCEPT ![r].wait = what]

\* terminal.follow, from where the last answer ended; with untilExit the output alone is no
\* reason to return.
FollowOutput(r, untilExit) ==
    /\ reader[r].wait = "idle" /\ ~reader[r].done
    /\ Wait(r, IF untilExit THEN "exit" ELSE "output")
    /\ UNCHANGED <<chunks, nextChunk, tail, finished, notices, execute>>

\* terminal.execute starts a session of its own and prepares its storage; the process writes
\* and may end meanwhile.
Execute(r, mode) ==
    /\ executed = "none" /\ nextChunk = 1 /\ ~finished /\ ~listening
    /\ \A q \in Readers : reader[q].wait = "idle"
    /\ executed' = mode
    /\ Wait(r, "preparing")
    /\ UNCHANGED <<chunks, nextChunk, tail, finished, notices, timedOut>>

\* Then it follows from the first chunk on; what was written before is kept.  A detached one
\* returns at once.
ExecutePrepared(r) ==
    /\ reader[r].wait = "preparing"
    /\ Wait(r, CASE executed = "detached"      -> "idle"
                 [] executed = "until-exit"    -> "exit"
                 [] executed = "until-timeout" -> "execute")
    /\ UNCHANGED <<chunks, nextChunk, tail, finished, notices, execute>>

\* The storage cannot be prepared: the call fails outside its try, and what it started runs on.
ExecuteFails(r) ==
    /\ reader[r].wait = "preparing"
    /\ Wait(r, "failed")
    /\ UNCHANGED <<chunks, nextChunk, tail, finished, notices, execute>>

ChunksSince(n) ==
    LET Filter[i \in 0 .. Len(chunks)] ==
          IF i = 0 THEN <<>>
          ELSE IF chunks[i] >= n THEN Append(Filter[i - 1], chunks[i]) ELSE Filter[i - 1]
    IN  Filter[Len(chunks)]

\* What an answer adds to what a reader got, and what the manager has dropped of it.
Answered(x, new) ==
    [x EXCEPT !.wait = "idle", !.done = finished, !.got = x.got \o new,
              !.lost = x.lost \union ((x.from .. nextChunk - 1) \ ToSet(new))]

\* Mutant: the answer names the chunk it ends with as the next one.
AnswerFromLast(r) ==
    LET x == reader[r]
        new == ChunksSince(x.from)
    IN  reader' = [reader EXCEPT ![r] = [Answered(x, new) EXCEPT
                                           !.from = IF new = <<>> THEN nextChunk ELSE Last(new)]]

AnswerFollow(r) ==
    LET x == reader[r]
        new == ChunksSince(x.from)
    IN  reader' = [reader EXCEPT ![r] = [Answered(x, new) EXCEPT !.from = nextChunk]]

\* In its default mode terminal.execute then cancels a session that is not done, whether
\* output or the end of its time brought the answer.
ReturnChunks(r) ==
    /\ AnswerFollow(r)
    /\ LET late == reader[r].wait = "execute" /\ ~finished IN
         timedOut' = (timedOut \/ late) /\ finished' = (finished \/ late)

\* Every 200 ms, or when the wait is over.
FollowReturns(r) ==
    /\ \/ reader[r].wait \in {"output", "execute"} /\ (finished \/ ChunksSince(reader[r].from) # <<>>)
       \/ reader[r].wait = "exit" /\ finished
    /\ ReturnChunks(r)
    /\ UNCHANGED <<chunks, nextChunk, tail, notices, executed>>

FollowTimesOut(r) ==
    /\ reader[r].wait \in {"output", "exit", "execute"}
    /\ ReturnChunks(r)
    /\ UNCHANGED <<chunks, nextChunk, tail, notices, executed>>

\* runTerminalGetOutput
GetOutputText(n) == KeepLast(tail, n)

OutputNext ==
    \/ ListenToOutput \/ ReceiveChunk \/ NoticeTimer \/ SessionDone
    \/ \E r \in Readers :
         \/ \E untilExit \in BOOLEAN : FollowOutput(r, untilExit)
         \/ \E mode \in {"detached", "until-exit", "until-timeout"} : Execute(r, mode)
         \/ ExecutePrepared(r) \/ ExecuteFails(r)
         \/ FollowReturns(r) \/ FollowTimesOut(r)

\* The timers of the throttle and of the polls fire, and the store answers.
OutputFairness ==
    /\ WF_outputVars(NoticeTimer)
    /\ \A r \in Readers : /\ WF_outputVars(FollowReturns(r))
                          /\ WF_outputVars(ExecutePrepared(r) \/ ExecuteFails(r))

-----------------------------------------------------------------------------
(***************************************************************************)
(* The notifications and what they still owe are the output from the       *)
(* moment terminal.start listened, once and in order, up to the last chunk *)
(* while it listens; nothing waits without the timer, in particular not    *)
(* after the end (createThrottledTerminalOutputNotify, runTerminalStart).  *)
(***************************************************************************)
NoticesAreTheOutput ==
    LET told == FlattenSeq(sent) \o unsent
    IN  /\ \A i \in DOMAIN told : told[i] = first + i - 1
        /\ listening => first + Len(told) = nextChunk
        /\ unsent # <<>> => merging

(***************************************************************************)
(* A reader that goes on from the nextSeq of the last answer gets every    *)
(* chunk once and in order, but for those the manager dropped before it    *)
(* came back, and so does terminal.execute from the first on; in its       *)
(* default mode it leaves the session running only if its storage could    *)
(* not be prepared, and then it read nothing; a tail is the end of the     *)
(* output (follow, executeImpl, pushOutput, getOutputText).                *)
(***************************************************************************)
ReadersSeeTheOutput ==
    /\ \A r \in Readers :
         LET got == reader[r].got IN
         /\ \A i, j \in DOMAIN got : i < j => got[i] < got[j]
         /\ ToSet(got) \union reader[r].lost = 1 .. (reader[r].from - 1)
         /\ \A c \in reader[r].lost : c + KeepChunks < nextChunk
    /\ executed = "until-timeout" /\ ~finished =>
         \E r \in Readers : \/ reader[r].wait \in {"preparing", "execute"}
                            \/ reader[r].wait = "failed" /\ reader[r].from = 1
    /\ timedOut => executed = "until-timeout" /\ finished
    /\ \A n \in 1 .. KeepTail :
         LET text == GetOutputText(n) IN
         /\ Len(text) = (IF nextChunk - 1 < n THEN nextChunk - 1 ELSE n)
         /\ \A i \in DOMAIN text : text[i] = nextChunk - 1 - Len(text) + i

(***************************************************************************)
(* Whoever follows a session that is done gets an answer, and so does the  *)
(* call that started it, be it the failure of its preparation.             *)
(***************************************************************************)
FollowersReturn ==
    \A r \in Readers : (reader[r].wait # "idle" /\ finished) ~> reader[r].wait \in {"idle", "failed"}
=============================================================================
