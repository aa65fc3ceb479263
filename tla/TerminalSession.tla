-------------------------- MODULE TerminalSession --------------------------
(***************************************************************************)
(* The terminal sessions of a node: TerminalSessionManager, the terminal   *)
(* tools that start a session (terminal.start in its four modes,           *)
(* terminal.execute in its three wait modes), the copy of the output they  *)
(* keep in storage, the completion message they append to the parent       *)
(* conversation, and the wait of an agent turn for a session to end.       *)
(*                                                                         *)
(* The operating system's process is external: it writes, it ends, and     *)
(* Node delivers its output and its end as separate events, the end        *)
(* possibly before the last output.  A chunk of output is its number.      *)
(***************************************************************************)
EXTENDS Naturals, Sequences, SequencesExt

CONSTANTS Session,     \* sessions of one manager
          MaxOutput    \* bound: chunks of output a process writes

ASSUME MaxOutputAssumption == MaxOutput \in Nat

Modes == {"await", "background", "service", "interactive"}  \* terminal.start
WaitModes == {"until-exit", "until-timeout", "detached"}    \* terminal.execute

VARIABLES
  kind,      \* mode or wait mode the session was started with
  call,      \* where the tool call that started it is
  status,    \* SessionState.status
  process,   \* the child process and the event it still owes
  written,   \* chunks the process has written to its pipes
  seq,       \* chunks received: nextSeq - 1
  idle,      \* whether idleTimer is armed
  promptOn,  \* whether the interactive prompt listener is registered
  asking,    \* questions put to the user and not answered
  wired,     \* whether the output and status listeners are registered
  doneOn,    \* whether the completion listener is registered
  queue,     \* chunks in the persist queue
  stored,    \* chunks appended to the conversation of the session, in order
  lost,      \* chunks whose append failed
  posted,    \* completion messages handed to the parent conversation
  waiter,    \* the agent turn's waitForTerminalSession
  cancelled  \* whether cancel was ever called (history)

vars == <<kind, call, status, process, written, seq, idle, promptOn, asking,
          wired, doneOn, queue, stored, lost, posted, waiter, cancelled>>

listeners == <<wired, doneOn, posted, waiter>>
transcript == <<queue, stored, lost>>

TypeOK ==
  /\ kind \in [Session -> Modes \union WaitModes \union {"none"}]
  /\ call \in [Session -> {"none", "preparing", "following", "cancelling", "returned",
                          "failed"}]
  /\ status \in [Session -> {"none", "running", "exited", "killed", "failed"}]
  /\ process \in [Session -> {"none", "unspawned", "alive", "dead", "gone"}]
  /\ written \in [Session -> 0..MaxOutput]
  /\ seq \in [Session -> 0..MaxOutput]
  /\ idle \in [Session -> BOOLEAN]
  /\ promptOn \in [Session -> BOOLEAN]
  /\ asking \in [Session -> Nat]
  /\ wired \in [Session -> BOOLEAN]
  /\ doneOn \in [Session -> BOOLEAN]
  /\ queue \in [Session -> Seq(1..MaxOutput)]
  /\ stored \in [Session -> Seq(1..MaxOutput)]
  /\ lost \in [Session -> SUBSET (1..MaxOutput)]
  /\ posted \in [Session -> Nat]
  /\ waiter \in [Session -> {"none", "waiting", "resolved"}]
  /\ cancelled \in [Session -> BOOLEAN]

Init ==
  /\ kind = [s \in Session |-> "none"]
  /\ call = [s \in Session |-> "none"]
  /\ status = [s \in Session |-> "none"]
  /\ process = [s \in Session |-> "none"]
  /\ written = [s \in Session |-> 0]
  /\ seq = [s \in Session |-> 0]
  /\ idle = [s \in Session |-> FALSE]
  /\ promptOn = [s \in Session |-> FALSE]
  /\ asking = [s \in Session |-> 0]
  /\ wired = [s \in Session |-> FALSE]
  /\ doneOn = [s \in Session |-> FALSE]
  /\ queue = [s \in Session |-> << >>]
  /\ stored = [s \in Session |-> << >>]
  /\ lost = [s \in Session |-> {}]
  /\ posted = [s \in Session |-> 0]
  /\ waiter = [s \in Session |-> "none"]
  /\ cancelled = [s \in Session |-> FALSE]

-----------------------------------------------------------------------------
(* What the handlers share.                                                *)

\* A session of mode service is started without an idle timeout.
HasIdleTimeout(k) == k # "service"

\* Mutant: the timer is armed whatever the status.
IdleAlways(s, running) == HasIdleTimeout(kind[s])

\* scheduleIdlePrompt: the timer is armed for a running session only.
IdleAfter(s, running) == running /\ HasIdleTimeout(kind[s])

\* A prompt reaches the user through the listener of an interactive session.
Prompted(s, emitted) ==
  asking' = [asking EXCEPT ![s] = IF emitted /\ promptOn[s] THEN @ + 1 ELSE @]

\* The session-complete listeners run: the parent conversation is told, the
\* waiting turn is woken.
Complete(s) ==
  /\ posted' = [posted EXCEPT ![s] = IF doneOn[s] THEN @ + 1 ELSE @]
  /\ waiter' = [waiter EXCEPT ![s] = IF @ = "waiting" THEN "resolved" ELSE @]

\* Mutant: the completion listener is left registered.
UnwireOutput(s) ==
  /\ wired' = [wired EXCEPT ![s] = FALSE]
  /\ UNCHANGED doneOn

\* A status update other than running removes what the tool call registered.
Unwire(s) ==
  /\ wired' = [wired EXCEPT ![s] = FALSE]
  /\ doneOn' = [doneOn EXCEPT ![s] = FALSE]

\* Mutant: the status update comes before the complete listeners.
EndedUpdateFirst(s, how) ==
  /\ status' = [status EXCEPT ![s] = how]
  /\ promptOn' = [promptOn EXCEPT ![s] = FALSE]
  /\ waiter' = [waiter EXCEPT ![s] = IF @ = "waiting" THEN "resolved" ELSE @]
  /\ UNCHANGED posted
  /\ Unwire(s)

\* The end of a session as its process's exit and error handlers report it:
\* first the complete listeners, then the status update.
Ended(s, how) ==
  /\ status' = [status EXCEPT ![s] = how]
  /\ promptOn' = [promptOn EXCEPT ![s] = FALSE]
  /\ Complete(s)
  /\ Unwire(s)

\* cancel of the manager.  A refused kill emits the process's error event
\* within the call; the status ends as killed in both cases.
Cancelled(s) ==
  /\ \E refused \in {r \in BOOLEAN : r => process[s] = "alive"} :
       IF refused THEN Complete(s) ELSE UNCHANGED <<posted, waiter>>
  /\ status' = [status EXCEPT ![s] = "killed"]
  /\ idle' = [idle EXCEPT ![s] = FALSE]
  /\ promptOn' = [promptOn EXCEPT ![s] = FALSE]
  /\ Unwire(s)
  /\ cancelled' = [cancelled EXCEPT ![s] = TRUE]
  /\ UNCHANGED <<kind, process, written, seq, asking, transcript>>

-----------------------------------------------------------------------------
(* The process and its events.                                             *)

Write(s) ==
  /\ process[s] = "alive" /\ written[s] < MaxOutput
  /\ written' = [written EXCEPT ![s] = @ + 1]
  /\ UNCHANGED <<kind, call, status, process, seq, idle, promptOn, asking,
                 listeners, transcript, cancelled>>

Die(s) ==
  /\ process[s] = "alive"
  /\ process' = [process EXCEPT ![s] = "dead"]
  /\ UNCHANGED <<kind, call, status, written, seq, idle, promptOn, asking,
                 listeners, transcript, cancelled>>

\* A chunk arrives: it is numbered, queued for storage while wired, and may
\* match a prompt pattern.
PushOutput(s) ==
  /\ seq[s] < written[s]
  /\ seq' = [seq EXCEPT ![s] = @ + 1]
  /\ queue' = [queue EXCEPT ![s] = IF wired[s] THEN Append(@, seq'[s]) ELSE @]
  /\ \E matches \in BOOLEAN : Prompted(s, matches)
  /\ idle' = [idle EXCEPT ![s] = IdleAfter(s, status[s] = "running")]
  /\ UNCHANGED <<kind, call, status, process, written, promptOn, listeners,
                 stored, lost, cancelled>>

\* exit: by a signal or with a code; the output still in the pipe comes later.
Exit(s) ==
  /\ process[s] = "dead"
  /\ process' = [process EXCEPT ![s] = "gone"]
  /\ \E how \in {"killed", "exited"} : Ended(s, how)
  /\ idle' = [idle EXCEPT ![s] = FALSE]
  /\ UNCHANGED <<kind, call, written, seq, asking, transcript, cancelled>>

\* error of a command that could not be spawned: no exit follows, and the
\* idle timer is left armed.
SpawnError(s) ==
  /\ process[s] = "unspawned"
  /\ process' = [process EXCEPT ![s] = "gone"]
  /\ Ended(s, "failed")
  /\ UNCHANGED <<kind, call, written, seq, idle, asking, transcript, cancelled>>

\* signal of a running session whose kill is refused: the error event again,
\* of a process that lives on.  A signal that is sent changes nothing here.
SignalRefused(s) ==
  /\ status[s] = "running" /\ process[s] = "alive"
  /\ Ended(s, "failed")
  /\ UNCHANGED <<kind, call, process, written, seq, idle, asking, transcript,
                 cancelled>>

IdlePrompt(s) ==
  /\ idle[s]
  /\ idle' = [idle EXCEPT ![s] = FALSE]
  /\ Prompted(s, TRUE)
  /\ UNCHANGED <<kind, call, status, process, written, seq, promptOn,
                 listeners, transcript, cancelled>>

\* The user answers or gives up; the line is written to a running session and
\* dropped by any other.
Respond(s) ==
  /\ asking[s] > 0
  /\ asking' = [asking EXCEPT ![s] = @ - 1]
  /\ UNCHANGED <<kind, call, status, process, written, seq, idle, promptOn,
                 listeners, transcript, cancelled>>

-----------------------------------------------------------------------------
(* The tool calls.                                                         *)

Start(s) ==
  /\ call[s] = "none"
  /\ \E k \in Modes \union WaitModes :
       /\ kind' = [kind EXCEPT ![s] = k]
       /\ idle' = [idle EXCEPT ![s] = HasIdleTimeout(k)]
       /\ promptOn' = [promptOn EXCEPT ![s] = (k = "interactive")]
  /\ \E p \in {"alive", "unspawned"} : process' = [process EXCEPT ![s] = p]
  /\ status' = [status EXCEPT ![s] = "running"]
  /\ call' = [call EXCEPT ![s] = "preparing"]
  /\ UNCHANGED <<written, seq, asking, listeners, transcript, cancelled>>

\* The conversation of the session is prepared: the listeners are registered,
\* and removed at once if the session has ended meanwhile.
Wire(s) ==
  /\ call[s] = "preparing"
  /\ wired' = [wired EXCEPT ![s] = (status[s] = "running")]
  /\ \E parent \in BOOLEAN :
       doneOn' = [doneOn EXCEPT ![s] = /\ parent
                                       /\ kind[s] \in Modes \ {"await"}
                                       /\ status[s] = "running"]
  /\ call' = [call EXCEPT ![s] =
               IF kind[s] \in {"until-exit", "until-timeout"}
               THEN "following" ELSE "returned"]
  /\ UNCHANGED <<kind, status, process, written, seq, idle, promptOn, asking,
                 posted, waiter, transcript, cancelled>>

\* The conversation of the session cannot be written: the call fails there,
\* before its try, and nobody tells the process that runs.
PreparationFails(s) ==
  /\ call[s] = "preparing"
  /\ call' = [call EXCEPT ![s] = "failed"]
  /\ UNCHANGED <<kind, status, process, written, seq, idle, promptOn, asking,
                 listeners, transcript, cancelled>>

\* Mutant: a call that has output returns it and leaves the command running.
FollowReturnsEarly(s) ==
  /\ call[s] = "following"
  /\ IF kind[s] = "until-timeout" /\ status[s] = "running" /\ seq[s] = 0
     THEN /\ call' = [call EXCEPT ![s] = "cancelling"]
          /\ UNCHANGED wired
     ELSE /\ call' = [call EXCEPT ![s] = "returned"]
          /\ wired' = [wired EXCEPT ![s] = FALSE]
  /\ UNCHANGED <<kind, status, process, written, seq, idle, promptOn, asking,
                 doneOn, posted, waiter, transcript, cancelled>>

\* follow returns: the session has ended, or has output and need not be
\* waited for, or the wait is over, at any time.  An until-timeout call then
\* cancels what is still running; the others stop listening.
Follow(s) ==
  /\ call[s] = "following"
  /\ IF kind[s] = "until-timeout" /\ status[s] = "running"
     THEN /\ call' = [call EXCEPT ![s] = "cancelling"]
          /\ UNCHANGED wired
     ELSE /\ call' = [call EXCEPT ![s] = "returned"]
          /\ wired' = [wired EXCEPT ![s] = FALSE]
  /\ UNCHANGED <<kind, status, process, written, seq, idle, promptOn, asking,
                 doneOn, posted, waiter, transcript, cancelled>>

CancelTimedOut(s) ==
  /\ call[s] = "cancelling"
  /\ call' = [call EXCEPT ![s] = "returned"]
  /\ Cancelled(s)

\* terminal.cancel, at any time: the session may have ended long ago.
Cancel(s) ==
  /\ status[s] # "none"
  /\ UNCHANGED call
  /\ Cancelled(s)

\* Mutant: the appends are not chained.
PersistUnchained(s) ==
  \E i \in DOMAIN queue[s] :
    /\ queue' = [queue EXCEPT ![s] = RemoveAt(@, i)]
    /\ stored' = [stored EXCEPT ![s] = Append(@, queue[s][i])]
    /\ UNCHANGED <<lost, kind, call, status, process, written, seq, idle,
                   promptOn, asking, listeners, cancelled>>

\* The persist queue appends one chunk at a time; a failed append is skipped.
Persist(s) ==
  /\ queue[s] # << >>
  /\ queue' = [queue EXCEPT ![s] = Tail(@)]
  /\ \/ /\ stored' = [stored EXCEPT ![s] = Append(@, Head(queue[s]))]
        /\ UNCHANGED lost
     \/ /\ lost' = [lost EXCEPT ![s] = @ \union {Head(queue[s])}]
        /\ UNCHANGED stored
  /\ UNCHANGED <<kind, call, status, process, written, seq, idle, promptOn,
                 asking, listeners, cancelled>>

\* Mutant: the turn registers its listener without looking at the status.
AwaitBlindly(s) ==
  /\ kind[s] = "await" /\ call[s] = "returned" /\ waiter[s] = "none"
  /\ waiter' = [waiter EXCEPT ![s] = "waiting"]
  /\ UNCHANGED <<kind, call, status, process, written, seq, idle, promptOn,
                 asking, wired, doneOn, posted, transcript, cancelled>>

\* The agent turn waits for the session an await call has returned.
Await(s) ==
  /\ kind[s] = "await" /\ call[s] = "returned" /\ waiter[s] = "none"
  /\ waiter' = [waiter EXCEPT ![s] =
                 IF status[s] = "running" THEN "waiting" ELSE "resolved"]
  /\ UNCHANGED <<kind, call, status, process, written, seq, idle, promptOn,
                 asking, wired, doneOn, posted, transcript, cancelled>>

Next ==
  \E s \in Session :
    \/ Start(s) \/ Wire(s) \/ PreparationFails(s) \/ Follow(s) \/ CancelTimedOut(s)
    \/ Cancel(s) \/ Persist(s) \/ Await(s)
    \/ Write(s) \/ Die(s) \/ PushOutput(s) \/ Exit(s) \/ SpawnError(s)
    \/ SignalRefused(s) \/ IdlePrompt(s) \/ Respond(s)

Spec == Init /\ [][Next]_vars

\* Node delivers the end of a process, and the event loop runs what is ready:
\* the tool call and the turn go on.  Nothing makes a process end.
Fairness ==
  \A s \in Session :
    /\ WF_vars(Exit(s)) /\ WF_vars(SpawnError(s))
    /\ WF_vars(Wire(s) \/ PreparationFails(s)) /\ WF_vars(Await(s))

FairSpec == Spec /\ Fairness

-----------------------------------------------------------------------------
(* What makes it correct.                                                  *)

\* The conversation of a session is its output in order and without holes:
\* from the first chunk the output listener got, every chunk is stored, on its
\* way or was refused by the store, and while the listener is registered that
\* reaches the last chunk received.
TranscriptInOrder ==
  \A s \in Session :
    LET kept == stored[s] \o queue[s]
        seen == Range(kept) \union lost[s]
    IN  /\ \A i, j \in DOMAIN kept : i < j => kept[i] < kept[j]
        /\ \A c \in seen : \A d \in c..seq[s] : wired[s] => d \in seen
        /\ \A c, d \in seen : \A e \in c..d : e \in seen

\* A session that has ended, whichever of exit, spawn error, refused signal
\* and cancel came first and whatever output follows, asks the user nothing
\* more: its prompt listener is gone and no output arms the idle timer again.
\* Only the error event leaves a timer behind.
NoPromptAfterEnd ==
  \A s \in Session :
    /\ promptOn[s] => status[s] = "running"
    /\ idle[s] => status[s] \in {"running", "failed"}

\* The parent conversation gets at most one completion message for a session,
\* though a process can report an error, live on and exit later, and cancel
\* can come in between.
OneCompletion == \A s \in Session : posted[s] <= 1

\* A call of terminal.execute in its default wait mode leaves its command
\* running in one case only, whatever the order of output, end, wait and
\* cancellation: its session's conversation could not be prepared.  The call
\* has then failed and the command runs unwatched, nothing of its output stored.
TimeoutStops ==
  \A s \in Session :
    /\ kind[s] = "until-timeout" /\ call[s] \in {"returned", "failed"}
    /\ status[s] = "running"
    => call[s] = "failed" /\ ~wired[s] /\ stored[s] = << >>

\* A process that ends while the tool call listens for the completion gets its
\* message into the parent conversation, unless the session was cancelled.
CompletionReported ==
  \A s \in Session :
    (doneOn[s] /\ process[s] \in {"dead", "unspawned"})
      ~> (posted[s] = 1 \/ cancelled[s])

\* A turn that waits for a session goes on once the process has ended, also
\* when the session was cancelled or ended before the turn began to wait.
AwaitEnds ==
  \A s \in Session :
    (waiter[s] = "waiting" /\ process[s] # "alive") ~> (waiter[s] = "resolved")

\* The end of a session is told to its parent conversation and to the turn that waits.
EndIsReported == CompletionReported /\ AwaitEnds

=============================================================================
