----------------------- MODULE TerminalSessionProofs -----------------------
(***************************************************************************)
(* What holds of every set of sessions and any amount of output: an ended  *)
(* session asks nothing more, a parent conversation gets at most one       *)
(* completion message, and an until-timeout call leaves its command        *)
(* running only when it failed before it listened to it.  The second is    *)
(* not inductive: it needs to know that a listener is registered at most   *)
(* once, by a call that had not told the parent yet, and that it lives no  *)
(* longer than the session runs; the third, that a call that never got to  *)
(* listen stored nothing.  The transcript needs to know of every chunk     *)
(* where it is on its way to the conversation.                             *)
(***************************************************************************)
EXTENDS TerminalSession, SequenceTheorems, TLAPS

\* A call that has not registered its listeners, or failed before it did, has
\* told nobody anything and stored nothing.
BeforeWiring ==
  \A s \in Session :
    call[s] \in {"none", "preparing", "failed"} =>
      posted[s] = 0 /\ ~doneOn[s] /\ ~wired[s] /\ queue[s] = << >> /\ stored[s] = << >>

\* The completion listener belongs to a running session whose parent has
\* heard nothing.
ListenerIsFresh ==
  \A s \in Session :
    doneOn[s] => posted[s] = 0 /\ status[s] = "running"

\* A session and its process exist from the start of its call on.
StartedOnce ==
  \A s \in Session :
    /\ (call[s] = "none") <=> (status[s] = "none")
    /\ (call[s] = "none") <=> (process[s] = "none")

IInv == TypeOK /\ BeforeWiring /\ ListenerIsFresh /\ StartedOnce
          /\ NoPromptAfterEnd /\ OneCompletion /\ TimeoutStops

-----------------------------------------------------------------------------

\* The initial states satisfy the invariant.
LEMMA InitHolds == Init => IInv
<1> SUFFICES ASSUME Init PROVE IInv
  OBVIOUS
<1>1. TypeOK
  BY MaxOutputAssumption DEF Init, TypeOK
<1>2. BeforeWiring /\ ListenerIsFresh /\ StartedOnce
  BY DEF Init, BeforeWiring, ListenerIsFresh, StartedOnce
<1>3. NoPromptAfterEnd /\ OneCompletion /\ TimeoutStops
  BY DEF Init, NoPromptAfterEnd, OneCompletion, TimeoutStops
<1>4. QED
  BY <1>1, <1>2, <1>3 DEF IInv

\* A session starts: the invariant is preserved.
LEMMA StartKeeps == ASSUME IInv, NEW s \in Session, Start(s) PROVE IInv'
<1> USE DEF IInv, Start, HasIdleTimeout, listeners, transcript
<1>1. TypeOK'
  BY MaxOutputAssumption DEF TypeOK, Modes, WaitModes
<1>2. BeforeWiring' /\ ListenerIsFresh' /\ StartedOnce'
  BY DEF TypeOK, BeforeWiring, ListenerIsFresh, StartedOnce
<1>3. NoPromptAfterEnd' /\ OneCompletion' /\ TimeoutStops'
  BY DEF TypeOK, BeforeWiring, ListenerIsFresh, StartedOnce,
         NoPromptAfterEnd, OneCompletion, TimeoutStops, Modes
<1>4. QED
  BY <1>1, <1>2, <1>3

\* The listeners of a call are registered: the invariant is preserved.
LEMMA WireKeeps == ASSUME IInv, NEW s \in Session, Wire(s) PROVE IInv'
<1> USE DEF IInv, Wire, listeners, transcript
<1>1. TypeOK'
  BY MaxOutputAssumption DEF TypeOK, Modes, WaitModes
<1>2. BeforeWiring' /\ ListenerIsFresh' /\ StartedOnce'
  BY DEF TypeOK, BeforeWiring, ListenerIsFresh, StartedOnce
<1>3. NoPromptAfterEnd' /\ OneCompletion' /\ TimeoutStops'
  BY DEF TypeOK, BeforeWiring, ListenerIsFresh, StartedOnce,
         NoPromptAfterEnd, OneCompletion, TimeoutStops, Modes
<1>4. QED
  BY <1>1, <1>2, <1>3

\* The preparation of the storage fails: the invariant is preserved.
LEMMA PreparationFailsKeeps == ASSUME IInv, NEW s \in Session, PreparationFails(s) PROVE IInv'
<1> USE DEF IInv, PreparationFails, listeners, transcript
<1>1. TypeOK'
  BY MaxOutputAssumption DEF TypeOK, Modes, WaitModes
<1>2. BeforeWiring' /\ ListenerIsFresh' /\ StartedOnce'
  BY DEF TypeOK, BeforeWiring, ListenerIsFresh, StartedOnce
<1>3. NoPromptAfterEnd' /\ OneCompletion' /\ TimeoutStops'
  BY DEF TypeOK, BeforeWiring, ListenerIsFresh, StartedOnce,
         NoPromptAfterEnd, OneCompletion, TimeoutStops, Modes
<1>4. QED
  BY <1>1, <1>2, <1>3

\* A wait for a session is over: the invariant is preserved.
LEMMA FollowKeeps == ASSUME IInv, NEW s \in Session, Follow(s) PROVE IInv'
<1> USE DEF IInv, Follow, listeners, transcript
<1>1. TypeOK'
  BY MaxOutputAssumption DEF TypeOK, Modes, WaitModes
<1>2. BeforeWiring' /\ ListenerIsFresh' /\ StartedOnce'
  BY DEF TypeOK, BeforeWiring, ListenerIsFresh, StartedOnce
<1>3. NoPromptAfterEnd' /\ OneCompletion' /\ TimeoutStops'
  BY DEF TypeOK, BeforeWiring, ListenerIsFresh, StartedOnce,
         NoPromptAfterEnd, OneCompletion, TimeoutStops, Modes
<1>4. QED
  BY <1>1, <1>2, <1>3

\* What cancel does, whether or not the kill is refused.
CancelEffect(s) ==
  /\ posted' \in [Session -> Nat]
  /\ \A t \in Session :
       posted'[t] = posted[t] \/ (t = s /\ doneOn[s] /\ posted'[s] = posted[s] + 1)
  /\ waiter' \in [Session -> {"none", "waiting", "resolved"}]
  /\ status' = [status EXCEPT ![s] = "killed"]
  /\ idle' = [idle EXCEPT ![s] = FALSE]
  /\ promptOn' = [promptOn EXCEPT ![s] = FALSE]
  /\ wired' = [wired EXCEPT ![s] = FALSE]
  /\ doneOn' = [doneOn EXCEPT ![s] = FALSE]
  /\ cancelled' = [cancelled EXCEPT ![s] = TRUE]
  /\ UNCHANGED <<kind, process, written, seq, asking, transcript>>

\* A cancelled session told its parent once or not at all.
LEMMA CancelledHas ==
  ASSUME TypeOK, NEW s \in Session, Cancelled(s) PROVE CancelEffect(s)
<1> USE DEF Cancelled, Complete, Unwire, TypeOK
<1>1. PICK refused \in BOOLEAN :
        IF refused THEN Complete(s) ELSE UNCHANGED <<posted, waiter>>
  OBVIOUS
<1>2. waiter' \in [Session -> {"none", "waiting", "resolved"}]
  <2>1. CASE waiter' = [waiter EXCEPT ![s] = IF @ = "waiting" THEN "resolved" ELSE @]
    BY <2>1
  <2>2. CASE waiter' = waiter
    BY <2>2
  <2>3. QED
    BY <1>1, <2>1, <2>2
<1>3. posted' \in [Session -> Nat]
  BY <1>1
<1>4. \A t \in Session :
        posted'[t] = posted[t] \/ (t = s /\ doneOn[s] /\ posted'[s] = posted[s] + 1)
  BY <1>1
<1>5. QED
  BY <1>2, <1>3, <1>4 DEF CancelEffect

\* A timed out call cancels: the invariant is preserved.
LEMMA CancelTimedOutKeeps == ASSUME IInv, NEW s \in Session, CancelTimedOut(s) PROVE IInv'
<1> USE DEF IInv, CancelTimedOut
<1>1. CancelEffect(s)
  BY CancelledHas
<1>2. TypeOK'
  BY <1>1 DEF CancelEffect, TypeOK, transcript
<1>3. BeforeWiring' /\ ListenerIsFresh' /\ StartedOnce'
  BY <1>1 DEF CancelEffect, transcript, TypeOK, BeforeWiring, ListenerIsFresh, StartedOnce
<1>4. NoPromptAfterEnd' /\ TimeoutStops'
  BY <1>1 DEF CancelEffect, transcript, TypeOK, NoPromptAfterEnd, TimeoutStops
<1>5. OneCompletion'
  <2>1. SUFFICES ASSUME NEW t \in Session PROVE posted'[t] <= 1
    BY DEF OneCompletion
  <2>2. posted[t] \in Nat /\ posted[t] <= 1 /\ (doneOn[t] => posted[t] = 0)
    BY DEF TypeOK, OneCompletion, ListenerIsFresh
  <2>3. posted'[t] = posted[t] \/ (doneOn[t] /\ posted'[t] = posted[t] + 1)
    BY <1>1 DEF CancelEffect
  <2>4. QED
    BY <2>2, <2>3
<1>6. QED
  BY <1>2, <1>3, <1>4, <1>5

\* A session is cancelled: the invariant is preserved.
LEMMA CancelKeeps == ASSUME IInv, NEW s \in Session, Cancel(s) PROVE IInv'
<1> USE DEF IInv, Cancel
<1>1. CancelEffect(s)
  BY CancelledHas
<1>2. TypeOK'
  BY <1>1 DEF CancelEffect, TypeOK, transcript
<1>3. BeforeWiring' /\ ListenerIsFresh' /\ StartedOnce'
  BY <1>1 DEF CancelEffect, transcript, TypeOK, BeforeWiring, ListenerIsFresh, StartedOnce
<1>4. NoPromptAfterEnd' /\ TimeoutStops'
  BY <1>1 DEF CancelEffect, transcript, TypeOK, NoPromptAfterEnd, TimeoutStops
<1>5. OneCompletion'
  <2>1. SUFFICES ASSUME NEW t \in Session PROVE posted'[t] <= 1
    BY DEF OneCompletion
  <2>2. posted[t] \in Nat /\ posted[t] <= 1 /\ (doneOn[t] => posted[t] = 0)
    BY DEF TypeOK, OneCompletion, ListenerIsFresh
  <2>3. posted'[t] = posted[t] \/ (doneOn[t] /\ posted'[t] = posted[t] + 1)
    BY <1>1 DEF CancelEffect
  <2>4. QED
    BY <2>2, <2>3
<1>6. QED
  BY <1>2, <1>3, <1>4, <1>5

\* A chunk is stored: the invariant is preserved.
LEMMA PersistKeeps == ASSUME IInv, NEW s \in Session, Persist(s) PROVE IInv'
<1> USE DEF IInv, Persist, listeners, transcript
<1>1. TypeOK'
  <2>1. queue[s] \in Seq(1..MaxOutput) /\ queue[s] # << >>
    BY DEF TypeOK
  <2>2. Tail(queue[s]) \in Seq(1..MaxOutput) /\ Head(queue[s]) \in 1..MaxOutput
    BY <2>1, HeadTailProperties
  <2>3. queue' \in [Session -> Seq(1..MaxOutput)]
    BY <2>2 DEF TypeOK
  <2>4. stored' \in [Session -> Seq(1..MaxOutput)]
    <3>1. Append(stored[s], Head(queue[s])) \in Seq(1..MaxOutput)
      BY <2>2, AppendProperties DEF TypeOK
    <3>2. QED
      BY <3>1 DEF TypeOK
  <2>5. lost' \in [Session -> SUBSET (1..MaxOutput)]
    <3>1. lost[s] \union {Head(queue[s])} \in SUBSET (1..MaxOutput)
      BY <2>2 DEF TypeOK
    <3>2. CASE lost' = [lost EXCEPT ![s] = @ \union {Head(queue[s])}]
      BY <3>1, <3>2 DEF TypeOK
    <3>3. CASE lost' = lost
      BY <3>3 DEF TypeOK
    <3>4. QED
      BY <3>2, <3>3
  <2>6. QED
    BY <2>3, <2>4, <2>5 DEF TypeOK
<1>2. BeforeWiring' /\ ListenerIsFresh' /\ StartedOnce'
  BY DEF TypeOK, BeforeWiring, ListenerIsFresh, StartedOnce
<1>3. NoPromptAfterEnd' /\ OneCompletion' /\ TimeoutStops'
  BY DEF TypeOK, BeforeWiring, ListenerIsFresh, StartedOnce,
         NoPromptAfterEnd, OneCompletion, TimeoutStops, Modes
<1>4. QED
  BY <1>1, <1>2, <1>3

\* A turn begins to wait: the invariant is preserved.
LEMMA AwaitKeeps == ASSUME IInv, NEW s \in Session, Await(s) PROVE IInv'
<1> USE DEF IInv, Await, listeners, transcript
<1>1. TypeOK'
  BY MaxOutputAssumption DEF TypeOK, Modes, WaitModes
<1>2. BeforeWiring' /\ ListenerIsFresh' /\ StartedOnce'
  BY DEF TypeOK, BeforeWiring, ListenerIsFresh, StartedOnce
<1>3. NoPromptAfterEnd' /\ OneCompletion' /\ TimeoutStops'
  BY DEF TypeOK, BeforeWiring, ListenerIsFresh, StartedOnce,
         NoPromptAfterEnd, OneCompletion, TimeoutStops, Modes
<1>4. QED
  BY <1>1, <1>2, <1>3

\* The process writes: the invariant is preserved.
LEMMA WriteKeeps == ASSUME IInv, NEW s \in Session, Write(s) PROVE IInv'
<1> USE DEF IInv, Write, listeners, transcript
<1>1. TypeOK'
  BY MaxOutputAssumption DEF TypeOK, Modes, WaitModes
<1>2. BeforeWiring' /\ ListenerIsFresh' /\ StartedOnce'
  BY DEF TypeOK, BeforeWiring, ListenerIsFresh, StartedOnce
<1>3. NoPromptAfterEnd' /\ OneCompletion' /\ TimeoutStops'
  BY DEF TypeOK, BeforeWiring, ListenerIsFresh, StartedOnce,
         NoPromptAfterEnd, OneCompletion, TimeoutStops, Modes
<1>4. QED
  BY <1>1, <1>2, <1>3

\* The process ends: the invariant is preserved.
LEMMA DieKeeps == ASSUME IInv, NEW s \in Session, Die(s) PROVE IInv'
<1> USE DEF IInv, Die, listeners, transcript
<1>1. TypeOK'
  BY MaxOutputAssumption DEF TypeOK, Modes, WaitModes
<1>2. BeforeWiring' /\ ListenerIsFresh' /\ StartedOnce'
  BY DEF TypeOK, BeforeWiring, ListenerIsFresh, StartedOnce
<1>3. NoPromptAfterEnd' /\ OneCompletion' /\ TimeoutStops'
  BY DEF TypeOK, BeforeWiring, ListenerIsFresh, StartedOnce,
         NoPromptAfterEnd, OneCompletion, TimeoutStops, Modes
<1>4. QED
  BY <1>1, <1>2, <1>3

\* Output arrives: the invariant is preserved.
LEMMA PushOutputKeeps == ASSUME IInv, NEW s \in Session, PushOutput(s) PROVE IInv'
<1> USE DEF IInv, PushOutput, Prompted, IdleAfter, listeners, transcript
<1>1. TypeOK'
  <2>1. seq' \in [Session -> 0..MaxOutput] /\ seq'[s] \in 1..MaxOutput
    BY MaxOutputAssumption DEF TypeOK
  <2>2. queue' \in [Session -> Seq(1..MaxOutput)]
    <3>1. Append(queue[s], seq'[s]) \in Seq(1..MaxOutput)
      BY <2>1, AppendProperties DEF TypeOK
    <3>2. QED
      BY <3>1 DEF TypeOK
  <2>3. asking' \in [Session -> Nat]
    BY DEF TypeOK
  <2>4. idle' \in [Session -> BOOLEAN]
    BY DEF TypeOK, HasIdleTimeout
  <2>5. QED
    BY <2>1, <2>2, <2>3, <2>4 DEF TypeOK
<1>2. BeforeWiring' /\ ListenerIsFresh' /\ StartedOnce'
  BY DEF TypeOK, BeforeWiring, ListenerIsFresh, StartedOnce
<1>3. NoPromptAfterEnd' /\ OneCompletion' /\ TimeoutStops'
  BY DEF TypeOK, BeforeWiring, ListenerIsFresh, StartedOnce,
         NoPromptAfterEnd, OneCompletion, TimeoutStops, Modes
<1>4. QED
  BY <1>1, <1>2, <1>3

\* The exit event arrives: the invariant is preserved.
LEMMA ExitKeeps == ASSUME IInv, NEW s \in Session, Exit(s) PROVE IInv'
<1> USE DEF IInv, Exit, Ended, Complete, Unwire, listeners, transcript
<1>1. TypeOK'
  BY MaxOutputAssumption DEF TypeOK, Modes, WaitModes
<1>2. BeforeWiring' /\ ListenerIsFresh' /\ StartedOnce'
  BY DEF TypeOK, BeforeWiring, ListenerIsFresh, StartedOnce
<1>3. NoPromptAfterEnd' /\ OneCompletion' /\ TimeoutStops'
  BY DEF TypeOK, BeforeWiring, ListenerIsFresh, StartedOnce,
         NoPromptAfterEnd, OneCompletion, TimeoutStops, Modes
<1>4. QED
  BY <1>1, <1>2, <1>3

\* The command could not be spawned: the invariant is preserved.
LEMMA SpawnErrorKeeps == ASSUME IInv, NEW s \in Session, SpawnError(s) PROVE IInv'
<1> USE DEF IInv, SpawnError, Ended, Complete, Unwire, listeners, transcript
<1>1. TypeOK'
  BY MaxOutputAssumption DEF TypeOK, Modes, WaitModes
<1>2. BeforeWiring' /\ ListenerIsFresh' /\ StartedOnce'
  BY DEF TypeOK, BeforeWiring, ListenerIsFresh, StartedOnce
<1>3. NoPromptAfterEnd' /\ OneCompletion' /\ TimeoutStops'
  BY DEF TypeOK, BeforeWiring, ListenerIsFresh, StartedOnce,
         NoPromptAfterEnd, OneCompletion, TimeoutStops, Modes
<1>4. QED
  BY <1>1, <1>2, <1>3

\* A signal is refused: the invariant is preserved.
LEMMA SignalRefusedKeeps == ASSUME IInv, NEW s \in Session, SignalRefused(s) PROVE IInv'
<1> USE DEF IInv, SignalRefused, Ended, Complete, Unwire, listeners, transcript
<1>1. TypeOK'
  BY MaxOutputAssumption DEF TypeOK, Modes, WaitModes
<1>2. BeforeWiring' /\ ListenerIsFresh' /\ StartedOnce'
  BY DEF TypeOK, BeforeWiring, ListenerIsFresh, StartedOnce
<1>3. NoPromptAfterEnd' /\ OneCompletion' /\ TimeoutStops'
  BY DEF TypeOK, BeforeWiring, ListenerIsFresh, StartedOnce,
         NoPromptAfterEnd, OneCompletion, TimeoutStops, Modes
<1>4. QED
  BY <1>1, <1>2, <1>3

\* The idle timer fires: the invariant is preserved.
LEMMA IdlePromptKeeps == ASSUME IInv, NEW s \in Session, IdlePrompt(s) PROVE IInv'
<1> USE DEF IInv, IdlePrompt, Prompted, listeners, transcript
<1>1. TypeOK'
  BY MaxOutputAssumption DEF TypeOK, Modes, WaitModes
<1>2. BeforeWiring' /\ ListenerIsFresh' /\ StartedOnce'
  BY DEF TypeOK, BeforeWiring, ListenerIsFresh, StartedOnce
<1>3. NoPromptAfterEnd' /\ OneCompletion' /\ TimeoutStops'
  BY DEF TypeOK, BeforeWiring, ListenerIsFresh, StartedOnce,
         NoPromptAfterEnd, OneCompletion, TimeoutStops, Modes
<1>4. QED
  BY <1>1, <1>2, <1>3

\* A question is answered: the invariant is preserved.
LEMMA RespondKeeps == ASSUME IInv, NEW s \in Session, Respond(s) PROVE IInv'
<1> USE DEF IInv, Respond, listeners, transcript
<1>1. TypeOK'
  BY MaxOutputAssumption DEF TypeOK, Modes, WaitModes
<1>2. BeforeWiring' /\ ListenerIsFresh' /\ StartedOnce'
  BY DEF TypeOK, BeforeWiring, ListenerIsFresh, StartedOnce
<1>3. NoPromptAfterEnd' /\ OneCompletion' /\ TimeoutStops'
  BY DEF TypeOK, BeforeWiring, ListenerIsFresh, StartedOnce,
         NoPromptAfterEnd, OneCompletion, TimeoutStops, Modes
<1>4. QED
  BY <1>1, <1>2, <1>3

-----------------------------------------------------------------------------

\* Every step preserves the invariant.
LEMMA StepKeeps == IInv /\ [Next]_vars => IInv'
<1> SUFFICES ASSUME IInv, [Next]_vars PROVE IInv'
  OBVIOUS
<1>1. ASSUME NEW s \in Session, Start(s) PROVE IInv'
  BY <1>1, StartKeeps
<1>2. ASSUME NEW s \in Session, Wire(s) PROVE IInv'
  BY <1>2, WireKeeps
<1>3. ASSUME NEW s \in Session, Follow(s) PROVE IInv'
  BY <1>3, FollowKeeps
<1>18. ASSUME NEW s \in Session, PreparationFails(s) PROVE IInv'
  BY <1>18, PreparationFailsKeeps
<1>4. ASSUME NEW s \in Session, CancelTimedOut(s) PROVE IInv'
  BY <1>4, CancelTimedOutKeeps
<1>5. ASSUME NEW s \in Session, Cancel(s) PROVE IInv'
  BY <1>5, CancelKeeps
<1>6. ASSUME NEW s \in Session, Persist(s) PROVE IInv'
  BY <1>6, PersistKeeps
<1>7. ASSUME NEW s \in Session, Await(s) PROVE IInv'
  BY <1>7, AwaitKeeps
<1>8. ASSUME NEW s \in Session, Write(s) PROVE IInv'
  BY <1>8, WriteKeeps
<1>9. ASSUME NEW s \in Session, Die(s) PROVE IInv'
  BY <1>9, DieKeeps
<1>10. ASSUME NEW s \in Session, PushOutput(s) PROVE IInv'
  BY <1>10, PushOutputKeeps
<1>11. ASSUME NEW s \in Session, Exit(s) PROVE IInv'
  BY <1>11, ExitKeeps
<1>12. ASSUME NEW s \in Session, SpawnError(s) PROVE IInv'
  BY <1>12, SpawnErrorKeeps
<1>13. ASSUME NEW s \in Session, SignalRefused(s) PROVE IInv'
  BY <1>13, SignalRefusedKeeps
<1>14. ASSUME NEW s \in Session, IdlePrompt(s) PROVE IInv'
  BY <1>14, IdlePromptKeeps
<1>15. ASSUME NEW s \in Session, Respond(s) PROVE IInv'
  BY <1>15, RespondKeeps
<1>16. CASE UNCHANGED vars
  BY <1>16 DEF vars, IInv, TypeOK, BeforeWiring, ListenerIsFresh, StartedOnce,
         NoPromptAfterEnd, OneCompletion, TimeoutStops
<1>17. QED
  BY <1>1, <1>2, <1>3, <1>4, <1>5, <1>6, <1>7, <1>8, <1>9, <1>10, <1>11, <1>12, <1>13, <1>14, <1>15, <1>16, <1>18 DEF Next

\* The invariant holds in every reachable state.
THEOREM SessionInvariant == Spec => []IInv
  BY InitHolds, StepKeeps, PTL DEF Spec

\* Every variable keeps its type: no more output is received than was written,
\* no more questions are answered than asked.
THEOREM TypesHold == Spec => []TypeOK
  BY SessionInvariant, PTL DEF IInv

\* The parent of a session is told at most once.
THEOREM ToldOnce == Spec => []OneCompletion
  BY SessionInvariant, PTL DEF IInv

\* An ended session asks the user nothing more.
THEOREM QuietAfterEnd == Spec => []NoPromptAfterEnd
  BY SessionInvariant, PTL DEF IInv

\* An until-timeout call leaves its command running only when its storage could not be prepared,
\* and then nothing is recorded of it.
THEOREM NothingLeftRunning == Spec => []TimeoutStops
  BY SessionInvariant, PTL DEF IInv

-----------------------------------------------------------------------------
(* The transcript.  A listener that is registered late, or removed early,  *)
(* may miss output before or after what it got, never in between.          *)

Kept(s) == stored[s] \o queue[s]

Seen(s) == Range(Kept(s)) \union lost[s]

Increasing(chunks) == \A i, j \in DOMAIN chunks : i < j => chunks[i] < chunks[j]

\* What the output listener of a session got: an interval of the output received, which ends with
\* the last chunk while it is registered, and which is empty before.
Recorded(s) ==
  /\ Increasing(Kept(s))
  /\ \A c \in Seen(s) : c <= seq[s]
  /\ \A c \in Seen(s) : \A d \in c..seq[s] : wired[s] => d \in Seen(s)
  /\ \A c, d \in Seen(s) : \A e \in c..d : e \in Seen(s)
  /\ call[s] \in {"none", "preparing"} => Seen(s) = {} /\ ~wired[s]

AllRecorded == \A s \in Session : Recorded(s)

LEMMA RangeOfAppend ==
  ASSUME NEW S, NEW r \in Seq(S), NEW e \in S
  PROVE  Range(Append(r, e)) = Range(r) \union {e}
<1>1. /\ DOMAIN r = 1..Len(r) /\ Len(r) \in Nat
      /\ DOMAIN Append(r, e) = 1..(Len(r) + 1)
      /\ \A i \in 1..Len(r) : Append(r, e)[i] = r[i]
      /\ Append(r, e)[Len(r) + 1] = e
  BY AppendProperties, LenProperties
<1> QED BY <1>1 DEF Range

LEMMA KeptType ==
  ASSUME TypeOK, NEW s \in Session
  PROVE  /\ stored[s] \in Seq(1..MaxOutput) /\ queue[s] \in Seq(1..MaxOutput)
         /\ Kept(s) \in Seq(1..MaxOutput) /\ Seen(s) \subseteq 1..MaxOutput
<1>1. stored[s] \in Seq(1..MaxOutput) /\ queue[s] \in Seq(1..MaxOutput) /\ lost[s] \subseteq 1..MaxOutput
  BY DEF TypeOK
<1>2. Kept(s) \in Seq(1..MaxOutput)
  BY <1>1, ConcatProperties DEF Kept
<1>3. QED
  BY <1>1, <1>2, RangeOfSeq DEF Seen

\* A session whose output is left alone, and whose listener is not registered after it was removed.
LEMMA OthersRecorded ==
  ASSUME NEW s, Recorded(s),
         UNCHANGED <<stored[s], queue[s], lost[s], seq[s]>>,
         wired'[s] => wired[s] \/ (call[s] = "preparing" /\ call'[s] \notin {"none", "preparing"}),
         call'[s] \in {"none", "preparing"} => call[s] \in {"none", "preparing"}
  PROVE  Recorded(s)'
<1>1. Kept(s)' = Kept(s) /\ Seen(s)' = Seen(s)
  BY DEF Kept, Seen, Range
<1> HIDE DEF Kept, Seen
<1> QED BY <1>1 DEF Recorded, Increasing

\* The elements of two sequences, one after the other, when the second gives its head to the first
\* or loses it.
LEMMA HeadMoves ==
  ASSUME NEW S, NEW r \in Seq(S), NEW q \in Seq(S), q # << >>
  PROVE  /\ Head(q) \in S /\ Tail(q) \in Seq(S)
         /\ Append(r, Head(q)) \o Tail(q) = r \o q
         /\ Len(r \o Tail(q)) = Len(r) + Len(q) - 1
         /\ \A i \in 1..Len(r \o Tail(q)) :
              (r \o Tail(q))[i] = (r \o q)[IF i <= Len(r) THEN i ELSE i + 1]
<1> DEFINE head == Head(q)
           tail == Tail(q)
           longer == Append(r, head)
           both == r \o q
           less == r \o tail
           moved == longer \o tail
<1>1. /\ head \in S /\ tail \in Seq(S) /\ Len(r) \in Nat /\ Len(q) \in Nat \ {0}
      /\ Len(tail) = Len(q) - 1 /\ head = q[1]
      /\ \A i \in 1..Len(tail) : tail[i] = q[i + 1]
  BY HeadTailProperties, LenProperties, EmptySeq
<1> HIDE DEF head, tail
<1> DEFINE n == Len(r)
           m == Len(tail)
<1>2. n \in Nat /\ m \in Nat /\ Len(q) = m + 1 /\ \A i \in 1..m : tail[i] = q[i + 1]
  BY <1>1, LenProperties
<1>3. /\ longer \in Seq(S) /\ Len(longer) = n + 1
      /\ \A i \in 1..n : longer[i] = r[i]
      /\ longer[n + 1] = head
  BY <1>1, AppendProperties
<1> HIDE DEF longer
<1>4. /\ both \in Seq(S) /\ Len(both) = n + Len(q)
      /\ \A i \in 1..(n + Len(q)) : both[i] = IF i <= n THEN r[i] ELSE q[i - n]
  BY ConcatProperties
<1>5. /\ less \in Seq(S) /\ Len(less) = n + m
      /\ \A i \in 1..(n + m) : less[i] = IF i <= n THEN r[i] ELSE tail[i - n]
  BY <1>1, ConcatProperties
<1>6. /\ moved \in Seq(S) /\ Len(moved) = n + 1 + m
      /\ \A i \in 1..(n + 1 + m) :
           moved[i] = IF i <= n + 1 THEN longer[i] ELSE tail[i - (n + 1)]
  <2>1. /\ moved \in Seq(S) /\ Len(moved) = Len(longer) + m
        /\ \A i \in 1..(Len(longer) + m) :
             moved[i] = IF i <= Len(longer) THEN longer[i] ELSE tail[i - Len(longer)]
    BY <1>1, <1>3, ConcatProperties
  <2> QED BY <1>3, <2>1
<1> HIDE DEF both, less, moved, n, m
<1>7. ASSUME NEW i \in 1..(n + 1 + m) PROVE moved[i] = both[i]
  <2>1. i \in Int /\ 1 <= i /\ i <= n + 1 + m /\ i \in 1..(n + Len(q))
    BY <1>2
  <2>2. both[i] = IF i <= n THEN r[i] ELSE q[i - n]
    BY <1>4, <2>1
  <2>3. moved[i] = IF i <= n + 1 THEN longer[i] ELSE tail[i - (n + 1)]
    BY <1>6
  <2>4. CASE i <= n
    BY <2>4, <2>1, <2>2, <2>3, <1>2, <1>3
  <2>5. CASE i = n + 1
    BY <2>5, <2>2, <2>3, <1>1, <1>2, <1>3
  <2>6. CASE i > n + 1
    <3>1. i - (n + 1) \in 1..m /\ i - (n + 1) + 1 = i - n
      BY <2>6, <2>1, <1>2
    <3>2. tail[i - (n + 1)] = q[i - n]
      BY <3>1, <1>2
    <3> QED BY <2>6, <3>2, <2>1, <2>2, <2>3, <1>2
  <2> QED BY <2>1, <2>4, <2>5, <2>6, <1>2
<1>8. moved = both
  <2>1. Len(moved) = Len(both) /\ \A i \in 1..Len(moved) : moved[i] = both[i]
    BY <1>2, <1>4, <1>6, <1>7
  <2> QED BY <2>1, <1>4, <1>6, SeqEqual
<1>9. ASSUME NEW i \in 1..(n + m) PROVE less[i] = both[IF i <= n THEN i ELSE i + 1]
  <2>1. i \in Int /\ 1 <= i /\ i <= n + m /\ i \in 1..(n + Len(q)) /\ i + 1 \in 1..(n + Len(q))
    BY <1>2
  <2>2. less[i] = IF i <= n THEN r[i] ELSE tail[i - n]
    BY <1>5
  <2>3. CASE i <= n
    BY <2>1, <2>2, <2>3, <1>4
  <2>4. CASE ~(i <= n)
    <3>1. i - n \in 1..m /\ i - n + 1 = i + 1 - n /\ ~(i + 1 <= n)
      BY <2>4, <2>1, <1>2
    <3>2. tail[i - n] = q[i + 1 - n]
      BY <3>1, <1>2
    <3>3. both[i + 1] = q[i + 1 - n]
      <4> DEFINE k == i + 1
      <4>1. k \in 1..(n + Len(q)) /\ ~(k <= n) /\ k = i + 1
        BY <2>1, <3>1
      <4> HIDE DEF k
      <4>2. both[k] = q[k - n]
        BY <4>1, <1>4
      <4> QED BY <4>1, <4>2, <2>1, <1>2
    <3> QED BY <2>4, <3>2, <3>3, <2>2
  <2> QED BY <2>3, <2>4
<1> QED BY <1>1, <1>2, <1>5, <1>8, <1>9 DEF head, tail, longer, both, less, moved, n, m

LEMMA ConcatAppend ==
  ASSUME NEW S, NEW r \in Seq(S), NEW q \in Seq(S), NEW e \in S
  PROVE  r \o Append(q, e) = Append(r \o q, e)
<1>1. /\ Append(q, e) \in Seq(S) /\ Len(Append(q, e)) = Len(q) + 1
      /\ \A i \in 1..Len(q) : Append(q, e)[i] = q[i]
      /\ Append(q, e)[Len(q) + 1] = e
  BY AppendProperties
<1>2. /\ r \o q \in Seq(S) /\ Len(r \o q) = Len(r) + Len(q)
      /\ \A i \in 1..(Len(r) + Len(q)) : (r \o q)[i] = IF i <= Len(r) THEN r[i] ELSE q[i - Len(r)]
  BY ConcatProperties
<1>3. /\ Append(r \o q, e) \in Seq(S) /\ Len(Append(r \o q, e)) = Len(r) + Len(q) + 1
      /\ \A i \in 1..(Len(r) + Len(q)) : Append(r \o q, e)[i] = (r \o q)[i]
      /\ Append(r \o q, e)[Len(r) + Len(q) + 1] = e
  BY <1>2, AppendProperties
<1>4. /\ r \o Append(q, e) \in Seq(S) /\ Len(r \o Append(q, e)) = Len(r) + Len(q) + 1
      /\ \A i \in 1..(Len(r) + Len(q) + 1) : (r \o Append(q, e))[i] =
           IF i <= Len(r) THEN r[i] ELSE Append(q, e)[i - Len(r)]
  <2>1. /\ r \o Append(q, e) \in Seq(S) /\ Len(r \o Append(q, e)) = Len(r) + Len(Append(q, e))
        /\ \A i \in 1..(Len(r) + Len(Append(q, e))) : (r \o Append(q, e))[i] =
             IF i <= Len(r) THEN r[i] ELSE Append(q, e)[i - Len(r)]
    BY <1>1, ConcatProperties
  <2> QED BY <1>1, <2>1, LenProperties
<1>5. Len(r) \in Nat /\ Len(q) \in Nat
  BY LenProperties
<1>6. \A i \in 1..(Len(r) + Len(q) + 1) : Append(r \o q, e)[i] = (r \o Append(q, e))[i]
  <2> SUFFICES ASSUME NEW i \in 1..(Len(r) + Len(q) + 1)
               PROVE  Append(r \o q, e)[i] = (r \o Append(q, e))[i]
    OBVIOUS
  <2>1. CASE i <= Len(r)
    BY <2>1, <1>2, <1>3, <1>4, <1>5
  <2>2. CASE i > Len(r) /\ i <= Len(r) + Len(q)
    BY <2>2, <1>1, <1>2, <1>3, <1>4, <1>5
  <2>3. CASE i = Len(r) + Len(q) + 1
    BY <2>3, <1>1, <1>3, <1>4, <1>5
  <2> QED BY <1>5, <2>1, <2>2, <2>3
<1> QED BY <1>3, <1>4, <1>6, SeqEqual

\* An append, or one that fails, moves the first chunk of the queue; what the listener got stays.
LEMMA PersistMoves ==
  ASSUME TypeOK, NEW s \in Session, Persist(s), Increasing(Kept(s))
  PROVE  Seen(s)' = Seen(s) /\ Increasing(Kept(s)')
<1> DEFINE S == 1..MaxOutput
           head == Head(queue[s])
           tail == Tail(queue[s])
<1>1. stored[s] \in Seq(S) /\ queue[s] \in Seq(S) /\ queue[s] # << >> /\ queue'[s] = tail
  BY KeptType DEF Persist, TypeOK
<1> HIDE DEF S
<1>2. /\ head \in S /\ tail \in Seq(S)
      /\ Append(stored[s], head) \o tail = Kept(s)
      /\ Len(stored[s] \o tail) = Len(stored[s]) + Len(queue[s]) - 1
      /\ \A i \in 1..Len(stored[s] \o tail) :
           (stored[s] \o tail)[i] = Kept(s)[IF i <= Len(stored[s]) THEN i ELSE i + 1]
  <2> DEFINE r == stored[s]
             q == queue[s]
  <2>1. r \in Seq(S) /\ q \in Seq(S) /\ q # << >>
    BY <1>1
  <2> HIDE DEF r, q
  <2>2. /\ Head(q) \in S /\ Tail(q) \in Seq(S)
        /\ Append(r, Head(q)) \o Tail(q) = r \o q
        /\ Len(r \o Tail(q)) = Len(r) + Len(q) - 1
        /\ \A i \in 1..Len(r \o Tail(q)) :
             (r \o Tail(q))[i] = (r \o q)[IF i <= Len(r) THEN i ELSE i + 1]
    BY <2>1, HeadMoves
  <2> QED BY <2>2 DEF Kept, r, q
<1>3. CASE stored' = [stored EXCEPT ![s] = Append(@, head)] /\ lost' = lost
  <2>1. Kept(s)' = Kept(s)
    BY <1>1, <1>2, <1>3 DEF Kept, TypeOK
  <2> QED BY <2>1, <1>3 DEF Seen
<1>4. CASE stored' = stored /\ lost' = [lost EXCEPT ![s] = @ \union {head}]
  <2>1. Kept(s)' = stored[s] \o tail /\ lost'[s] = lost[s] \union {head}
    BY <1>1, <1>4 DEF Kept, TypeOK
  <2> HIDE DEF head, tail
  <2>2. Range(Append(stored[s], head)) = Range(stored[s]) \union {head}
    BY <1>1, <1>2, RangeOfAppend
  <2>3. Range(Kept(s)) = Range(Append(stored[s], head)) \union Range(tail)
    <3> DEFINE longer == Append(stored[s], head)
    <3>1. longer \in Seq(S)
      BY <1>1, <1>2, AppendProperties
    <3> HIDE DEF longer
    <3>2. Range(longer \o tail) = Range(longer) \union Range(tail)
      BY <3>1, <1>2, RangeConcatenation
    <3> QED BY <3>2, <1>2 DEF longer
  <2>4. Range(stored[s] \o tail) = Range(stored[s]) \union Range(tail)
    BY <1>1, <1>2, RangeConcatenation
  <2>5. Seen(s)' = Range(stored[s] \o tail) \union (lost[s] \union {head})
    BY <2>1 DEF Seen, Range
  <2>6. Seen(s)' = Seen(s)
    BY <2>2, <2>3, <2>4, <2>5 DEF Seen
  <2>7. Increasing(stored[s] \o tail)
    <3>1. Len(stored[s]) \in Nat /\ Len(queue[s]) \in Nat
      BY <1>1, LenProperties
    <3>2. /\ DOMAIN Kept(s) = 1..(Len(stored[s]) + Len(queue[s]))
          /\ DOMAIN (stored[s] \o tail) = 1..(Len(stored[s]) + Len(queue[s]) - 1)
      <4>1. /\ Kept(s) \in Seq(S) /\ Len(Kept(s)) = Len(stored[s]) + Len(queue[s])
            /\ stored[s] \o tail \in Seq(S)
        BY <1>1, <1>2, ConcatProperties DEF Kept
      <4> QED BY <4>1, <1>2, LenProperties
    <3> DEFINE less == stored[s] \o tail
               n == Len(stored[s])
               m == Len(queue[s])
    <3>3. /\ n \in Nat /\ m \in Nat /\ DOMAIN Kept(s) = 1..(n + m) /\ DOMAIN less = 1..(n + m - 1)
          /\ \A i \in 1..(n + m - 1) : less[i] = Kept(s)[IF i <= n THEN i ELSE i + 1]
      BY <1>2, <3>1, <3>2
    <3> HIDE DEF less, n, m
    <3>4. ASSUME NEW i \in DOMAIN less, NEW j \in DOMAIN less, i < j PROVE less[i] < less[j]
      <4> DEFINE a == IF i <= n THEN i ELSE i + 1
                 b == IF j <= n THEN j ELSE j + 1
      <4>1. a \in DOMAIN Kept(s) /\ b \in DOMAIN Kept(s) /\ a < b
        BY <3>3, <3>4
      <4>2. less[i] = Kept(s)[a] /\ less[j] = Kept(s)[b]
        BY <3>3
      <4> QED BY <4>1, <4>2 DEF Increasing
    <3> QED BY <3>4 DEF Increasing, less
  <2> QED BY <2>1, <2>6, <2>7
<1> QED BY <1>3, <1>4 DEF Persist

LEMMA PersistRecorded ==
  ASSUME TypeOK, NEW s \in Session, Persist(s), Recorded(s)
  PROVE  Recorded(s)'
<1>1. Seen(s)' = Seen(s) /\ Increasing(Kept(s)')
  BY PersistMoves DEF Recorded
<1>2. UNCHANGED <<call, wired, seq>>
  BY DEF Persist, listeners
<1> QED BY <1>1, <1>2 DEF Recorded

\* A chunk that the listener gets follows what it got before.
LEMMA PushRecorded ==
  ASSUME TypeOK, NEW s \in Session, PushOutput(s), Recorded(s)
  PROVE  Recorded(s)'
<1> DEFINE S == 1..MaxOutput
           next == seq[s] + 1
<1>1. /\ stored[s] \in Seq(S) /\ queue[s] \in Seq(S) /\ Kept(s) \in Seq(S) /\ Seen(s) \subseteq S
      /\ seq[s] \in Nat /\ next \in S /\ seq'[s] = next
      /\ UNCHANGED <<stored, lost, call, wired>>
      /\ queue'[s] = IF wired[s] THEN Append(queue[s], next) ELSE queue[s]
  BY KeptType, MaxOutputAssumption DEF PushOutput, TypeOK, listeners
<1>2. CASE ~wired[s]
  <2>1. Kept(s)' = Kept(s) /\ Seen(s)' = Seen(s)
    BY <1>1, <1>2 DEF Kept, Seen, Range
  <2> QED BY <1>1, <1>2, <2>1 DEF Recorded
<1>3. CASE wired[s]
  <2>1. Kept(s)' = Append(Kept(s), next)
    <3>1. Append(stored[s] \o queue[s], next) = stored[s] \o Append(queue[s], next)
      <4> DEFINE r == stored[s]
                 q == queue[s]
      <4>1. r \in Seq(S) /\ q \in Seq(S) /\ next \in S
        BY <1>1
      <4> HIDE DEF S, next, r, q
      <4>2. r \o Append(q, next) = Append(r \o q, next)
        BY <4>1, ConcatAppend, SMTT(30)
      <4> QED BY <4>2 DEF r, q
    <3> QED BY <1>1, <1>3, <3>1 DEF Kept
  <2>2. Seen(s)' = Seen(s) \union {next}
    <3>1. Range(Append(Kept(s), next)) = Range(Kept(s)) \union {next}
      <4> HIDE DEF S, next
      <4> QED BY <1>1, RangeOfAppend
    <3> QED BY <1>1, <2>1, <3>1 DEF Seen
  <2>3. \A c \in Seen(s) : c <= seq[s]
    BY DEF Recorded
  <2>4. \A i \in 1..Len(Kept(s)) : Kept(s)[i] \in S /\ Kept(s)[i] <= seq[s]
    BY <1>1, <2>3, RangeEquality DEF Seen
  <2>5. Increasing(Kept(s)')
    BY <1>1, <2>1, <2>4, AppendProperties DEF Recorded, Increasing
  <2>6. call[s] \notin {"none", "preparing"}
    BY <1>3 DEF Recorded
  <2>7. \A c \in Seen(s)' : c <= next
    BY <1>1, <2>2, <2>3
  <2>8. \A c \in Seen(s)' : \A d \in c..next : d \in Seen(s)'
    BY <1>1, <1>3, <2>2, <2>3 DEF Recorded
  <2>9. \A c, d \in Seen(s)' : \A e \in c..d : e \in Seen(s)'
    BY <1>1, <2>2, <2>7, <2>8
  <2> QED BY <1>1, <2>5, <2>6, <2>7, <2>8, <2>9 DEF Recorded
<1> QED BY <1>2, <1>3

\* Every step of the system leaves an interval.
LEMMA StepRecorded == IInv /\ AllRecorded /\ [Next]_vars => AllRecorded'
<1> SUFFICES ASSUME IInv, AllRecorded, [Next]_vars, NEW t \in Session PROVE Recorded(t)'
  BY DEF AllRecorded
<1> USE DEF AllRecorded, IInv
<1>1. ASSUME NEW s \in Session, Persist(s) PROVE Recorded(t)'
  <2>1. t # s => UNCHANGED <<stored[t], queue[t], lost[t], seq[t], wired[t], call[t]>>
    BY <1>1 DEF Persist, listeners, TypeOK
  <2> QED BY <1>1, <2>1, OthersRecorded, PersistRecorded
<1>2. ASSUME NEW s \in Session, PushOutput(s) PROVE Recorded(t)'
  <2>1. t # s => UNCHANGED <<stored[t], queue[t], lost[t], seq[t], wired[t], call[t]>>
    BY <1>2 DEF PushOutput, listeners, TypeOK
  <2> QED BY <1>2, <2>1, OthersRecorded, PushRecorded
<1>3. ASSUME UNCHANGED <<stored, queue, lost, seq>>,
             wired'[t] =>
               wired[t] \/ (call[t] = "preparing" /\ call'[t] \notin {"none", "preparing"}),
             call'[t] \in {"none", "preparing"} => call[t] \in {"none", "preparing"}
      PROVE  Recorded(t)'
  BY <1>3, OthersRecorded
<1>4. ASSUME NEW s \in Session, \/ Start(s) \/ Wire(s) \/ PreparationFails(s) \/ Follow(s)
                              \/ Await(s) \/ Write(s) \/ Die(s)
      PROVE  Recorded(t)'
  BY <1>3, <1>4 DEF Start, Wire, PreparationFails, Follow, Await, Write, Die, listeners, transcript, TypeOK
<1>5. ASSUME NEW s \in Session, CancelTimedOut(s) \/ Cancel(s) PROVE Recorded(t)'
  <2>1. CancelEffect(s)
    BY <1>5, CancelledHas DEF CancelTimedOut, Cancel
  <2> QED BY <1>3, <1>5, <2>1 DEF CancelEffect, CancelTimedOut, Cancel, transcript, TypeOK
<1>6. ASSUME NEW s \in Session, Exit(s) \/ SpawnError(s) \/ SignalRefused(s) PROVE Recorded(t)'
  BY <1>3, <1>6 DEF Exit, SpawnError, SignalRefused, Ended, Unwire, transcript, TypeOK
<1>7. ASSUME NEW s \in Session, IdlePrompt(s) \/ Respond(s) PROVE Recorded(t)'
  BY <1>3, <1>7 DEF IdlePrompt, Respond, listeners, transcript, TypeOK
<1>8. CASE UNCHANGED vars
  BY <1>3, <1>8 DEF vars
<1> QED BY <1>1, <1>2, <1>4, <1>5, <1>6, <1>7, <1>8 DEF Next

\* Whenever the listener is registered and removed and whichever appends fail, the conversation of
\* a session is its output in order and without holes (wireTerminalOutputToStorage, persistQueue).
THEOREM OutputIsRecorded == Spec => []TranscriptInOrder
<1>1. Init => AllRecorded
  BY DEF Init, AllRecorded, Recorded, Kept, Seen, Increasing, Range
<1>2. AllRecorded => TranscriptInOrder
  BY DEF AllRecorded, Recorded, Kept, Seen, Increasing, TranscriptInOrder
<1> QED BY <1>1, <1>2, StepRecorded, SessionInvariant, PTL DEF Spec

=============================================================================
