------------------------------ MODULE ImReply ------------------------------
(***************************************************************************)
(* The answer of an agent on its way out to an instant messenger: text is  *)
(* gathered in a buffer, cut to the platform's limit and handed to an      *)
(* asynchronous flush.  Every update of the turn may start another slicer  *)
(* while earlier ones wait for their flush, all on one buffer.             *)
(*                                                                         *)
(* Text is a sequence of pieces: each is a number, the order in which the  *)
(* agent said it, and some are white space.                                *)
(***************************************************************************)
EXTENDS Naturals, Sequences, FiniteSets, SequencesExt, FiniteSetsExt

CONSTANTS MaxText,   \* bound: pieces the agent says
          Blanks,    \* pieces that are white space
          ChunkSize, \* imPlatformMaxMessageChars, in pieces
          MaxEnds    \* bound: turns that end while the subscription stands

ASSUME ReplyAssumption ==
    /\ MaxText \in Nat /\ Blanks \subseteq 1..MaxText
    /\ ChunkSize \in Nat \ {0} /\ MaxEnds \in Nat

VARIABLES buf,      \* text that no slicer has taken
          spoken,   \* text of all updates the subscription got
          flushes,  \* calls of flush in the order they were made: text, slicer, outcome
          slicers,  \* calls of sendSlice that wait: a record each, by number
          reply,    \* the promise of the call
          ends      \* turns that have ended

replyVars == <<buf, spoken, flushes, slicers, reply, ends>>

Chunk(b, k) == SubSeq(b, (k - 1) * ChunkSize + 1, IF k * ChunkSize < Len(b) THEN k * ChunkSize ELSE Len(b))
Chunks(b) == {k \in 1..Len(b) : (k - 1) * ChunkSize < Len(b)}
\* Mutant: the buffer is emptied.
FromNowhere(b, k) == <<>>

From(b, k) == SubSeq(b, k * ChunkSize + 1, Len(b))

\* The chunks a slicer would flush next: a forced one skips white space and takes a rest.
Worth(b, forced) ==
    IF forced THEN {k \in Chunks(b) : ~(ToSet(Chunk(b, k)) \subseteq Blanks)}
    ELSE IF Len(b) >= ChunkSize THEN {1} ELSE {}

\* The promise when slicer s has ended well: the last one unsubscribes and resolves.
ReplyAfter(s) ==
    IF ~s.last THEN reply
    ELSE [open |-> FALSE, result |-> IF reply.result = "none" THEN "resolved" ELSE reply.result]

\* sendSlice, or its continuation, up to the next await: slicer n finds b in the buffer, and made
\* is the flushes so far.
Slice(n, s, b, made) ==
    LET worth == Worth(b, s.forced)
    IN IF worth = {}
       THEN /\ buf' = IF s.forced THEN <<>> ELSE b
            /\ slicers' = [slicers EXCEPT ![n] = [s EXCEPT !.st = "ended"]]
            /\ reply' = ReplyAfter(s)
            /\ flushes' = made
       ELSE /\ buf' = From(b, Min(worth))
            /\ slicers' = [slicers EXCEPT ![n] = [s EXCEPT !.st = "flushing"]]
            /\ flushes' = Append(made, [text |-> Chunk(b, Min(worth)), slicer |-> n,
                                        outcome |-> "pending"])
            /\ UNCHANGED reply

Unused == {n \in DOMAIN slicers : slicers[n].st = "unused"}

NewSlicer(b, forced, last) ==
    /\ Unused # {}
    /\ Slice(Min(Unused), [st |-> "starting", forced |-> forced, last |-> last], b, flushes)

\* A step of the turn: text, a tool's summary, or a question, which is sent at once.
Update(len, question) ==
    /\ reply.open
    /\ Len(spoken) + len <= MaxText
    /\ LET piece == [k \in 1..len |-> Len(spoken) + k]
       IN /\ spoken' = spoken \o piece
          /\ NewSlicer(buf \o piece, question, FALSE)
    /\ UNCHANGED ends

AgentDone ==
    /\ reply.open /\ ends < MaxEnds
    /\ ends' = ends + 1
    /\ NewSlicer(buf, TRUE, TRUE)
    /\ UNCHANGED spoken

\* The text in the buffer is dropped; slicers that wait go on with what is left.
AgentError ==
    /\ reply.open /\ ends < MaxEnds
    /\ ends' = ends + 1
    /\ reply' = [open |-> FALSE, result |-> IF reply.result = "none" THEN "rejected" ELSE reply.result]
    /\ UNCHANGED <<buf, spoken, flushes, slicers>>

Pending(n) == {k \in DOMAIN flushes : flushes[k].slicer = n /\ flushes[k].outcome = "pending"}

FlushDone(n) ==
    \E k \in Pending(n) :
        /\ Slice(n, slicers[n], buf, [flushes EXCEPT ![k].outcome = "ok"])
        /\ UNCHANGED <<spoken, ends>>

\* Mutant: nobody is told of a failure.
FlushVanishes(n) ==
    \E k \in Pending(n) :
        /\ flushes' = [flushes EXCEPT ![k].outcome = "failed"]
        /\ slicers' = [slicers EXCEPT ![n].st = "ended"]
        /\ UNCHANGED <<buf, spoken, reply, ends>>

\* A flush that fails ends its slicer.  Only the last slicer's failure is told, and it leaves the
\* subscription in place.
FlushFails(n) ==
    \E k \in Pending(n) :
        /\ flushes' = [flushes EXCEPT ![k].outcome = "failed"]
        /\ slicers' = [slicers EXCEPT ![n].st = "ended"]
        /\ reply' = IF slicers[n].last /\ reply.result = "none"
                    THEN [reply EXCEPT !.result = "rejected"] ELSE reply
        /\ UNCHANGED <<buf, spoken, ends>>

----------------------------------------------------------------------------

Slicers == 1..(MaxText + MaxEnds)

ReplyInit ==
    /\ buf = <<>> /\ spoken = <<>> /\ flushes = <<>>
    /\ slicers = [n \in Slicers |-> [st |-> "unused", forced |-> FALSE, last |-> FALSE]]
    /\ reply = [open |-> TRUE, result |-> "none"]
    /\ ends = 0

ReplyNext ==
    \/ \E len \in 1..2, question \in BOOLEAN : Update(len, question)
    \/ AgentDone
    \/ AgentError
    \/ \E n \in Slicers : FlushDone(n) \/ FlushFails(n)

\* A call of the platform ends one way or the other.
ReplyFairness == \A n \in Slicers : WF_replyVars(FlushDone(n) \/ FlushFails(n))

----------------------------------------------------------------------------

Visible(s) == FlattenSeq([k \in DOMAIN s |-> IF s[k] \in Blanks THEN <<>> ELSE <<s[k]>>])
HandedOver == FlattenSeq([k \in DOMAIN flushes |-> flushes[k].text])

\* However many slicers share the buffer, the platform is handed the agent's text in order, each
\* piece once, in messages within its limit; what is not handed over yet is in the buffer; and
\* the call resolves only when all of it was handed over.
ReplyIsWhole ==
    /\ Visible(HandedOver \o buf) = Visible(spoken)
    /\ \A k \in DOMAIN flushes : Len(flushes[k].text) \in 1..ChunkSize
    /\ reply.result = "resolved" /\ ~reply.open => Visible(HandedOver) = Visible(spoken)

\* When the turn ends, the call ends.
ReplyEnds == ends > 0 ~> reply.result # "none"
=============================================================================
