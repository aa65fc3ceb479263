----------------------------- MODULE ImChannel -----------------------------
(***************************************************************************)
(* Messages of an instant messenger on their way into conversations: the   *)
(* binding of a user to a conversation, kept in memory and in the store,   *)
(* the slash commands that change it, and the tag that marks the           *)
(* conversation as the messenger's.  Requests of one webhook run side by   *)
(* side and interleave at every await.  The host, which is external, hands *)
(* a text to the slash commands first and dispatches what they leave.      *)
(***************************************************************************)
EXTENDS Naturals, FiniteSets

CONSTANTS ImUsers,   \* pairs of a channel and a user of it
          Requests,  \* inbound texts
          MaxConvs   \* bound: conversations that are created

ASSUME ChannelAssumption == MaxConvs \in Nat

Convs == 1..MaxConvs
NoConv == 0
\* A text, /switch, /new, and the commands that leave the bindings alone: /list, /status, /cancel.
Ops == {"text", "switch", "new", "other"}

VARIABLES conv,      \* [Convs -> existence, tag and texts of a conversation]
          newest,    \* the conversation created last
          cache,     \* [ImUsers -> conversation], the Map of the manager
          row,       \* [ImUsers -> conversation], the table im_bindings
          request,   \* [Requests -> the locals of a request]
          chosen     \* [ImUsers -> conversation of the last request that bound the user]: history

imVars == <<conv, newest, cache, row, request, chosen>>

InFlight(r) == request[r].pc \notin {"off", "done"}

Goto(r, pc) == request' = [request EXCEPT ![r].pc = pc]

GotoWith(r, pc, c) == request' = [request EXCEPT ![r].pc = pc, ![r].conv = c]

\* A finished request keeps none of its locals.
Finished(x, lost) ==
    [x EXCEPT !.pc = "done", !.row = NoConv, !.conv = NoConv, !.made = FALSE, !.lost = lost]

Done(r, lost) == request' = [request EXCEPT ![r] = Finished(@, lost)]

----------------------------------------------------------------------------

\* A request begins by asking for the binding: the row is read at once, the answer comes later.
Receive(r, u, op) ==
    /\ request[r].pc = "off"
    /\ request' = [request EXCEPT ![r].pc = "bound", ![r].user = u, ![r].op = op,
                                  ![r].row = row[u], ![r].wanted = chosen[u]]
    /\ UNCHANGED <<conv, newest, cache, row, chosen>>

\* getBinding: a row that was found replaces the entry in memory.
Binding(r) == IF request[r].row # NoConv THEN request[r].row ELSE cache[request[r].user]

Refresh(r) ==
    cache' = IF request[r].row = NoConv THEN cache
             ELSE [cache EXCEPT ![request[r].user] = request[r].row]

AfterBinding(op, bound) ==
    CASE op = "new" -> "create"
      [] op = "text" -> IF bound THEN "send" ELSE "create"
      [] op = "switch" /\ bound -> "pick"
      [] OTHER -> "done"

HaveBinding(r) ==
    /\ request[r].pc = "bound"
    /\ Refresh(r)
    /\ LET pc == AfterBinding(request[r].op, Binding(r) # NoConv)
       IN IF pc = "done" THEN Done(r, FALSE) ELSE GotoWith(r, pc, Binding(r))
    /\ UNCHANGED <<conv, newest, row, chosen>>

\* createAgent: the id is made of the definition and the millisecond, and may be the last one's.
\* The metadata is written without a tag; the first text, if any, goes with it.
CreateConversation(r, c) ==
    /\ request[r].pc = "create"
    /\ c \in Convs /\ c \in {newest, newest + 1}
    /\ newest' = c
    /\ conv' = [conv EXCEPT ![c].tag = "none",
                            ![c].texts = IF request[r].op = "text" THEN @ \cup {r} ELSE @]
    /\ request' = [request EXCEPT ![r].pc = "tag", ![r].conv = c, ![r].made = TRUE]
    /\ UNCHANGED <<cache, row, chosen>>

SendText(r) ==
    /\ request[r].pc = "send"
    /\ LET c == request[r].conv
       IN /\ conv' = [conv EXCEPT ![c].texts = @ \cup {r}]
          /\ Goto(r, "tag")
    /\ UNCHANGED <<newest, cache, row, chosen>>

\* tagIfNeeded of the tagged driver: the metadata is read here and written back whole.
ReadMeta(r) ==
    /\ request[r].pc = "tag"
    /\ Goto(r, IF conv[request[r].conv].tag = "none" THEN "upsert" ELSE "tagged")
    /\ UNCHANGED <<conv, newest, cache, row, chosen>>

WriteTag(r) ==
    /\ request[r].pc = "upsert"
    /\ conv' = [conv EXCEPT ![request[r].conv].tag = request[r].user]
    /\ Goto(r, "tagged")
    /\ UNCHANGED <<newest, cache, row, chosen>>

\* Mutant: the row is not written.
BindInMemory(u, c) ==
    /\ cache' = [cache EXCEPT ![u] = c]
    /\ UNCHANGED row

\* setBinding: the entry in memory and the row, in one go.
SetBinding(u, c) ==
    /\ cache' = [cache EXCEPT ![u] = c]
    /\ row' = [row EXCEPT ![u] = c]

\* A text sent to a bound conversation is done; a created conversation is bound.
FinishOrBind(r) ==
    /\ request[r].pc = "tagged"
    /\ IF request[r].made
       THEN /\ SetBinding(request[r].user, request[r].conv)
            /\ chosen' = [chosen EXCEPT ![request[r].user] = request[r].conv]
       ELSE UNCHANGED <<cache, row, chosen>>
    /\ Done(r, FALSE)
    /\ UNCHANGED <<conv, newest>>

\* /switch: a number counts in the list as it is ordered now, which is not the list /list showed;
\* an id is found among the listed.  Either may name any conversation, or none.
PickTarget(r) ==
    /\ request[r].pc = "pick"
    /\ \/ \E c \in 1..newest : GotoWith(r, "switch", c)
       \/ Done(r, FALSE)
    /\ UNCHANGED <<conv, newest, cache, row, chosen>>

\* switchConversation: it reads the binding again, to keep the rest of the record.
Switch(r) ==
    /\ request[r].pc = "switch"
    /\ SetBinding(request[r].user, request[r].conv)
    /\ chosen' = [chosen EXCEPT ![request[r].user] = request[r].conv]
    /\ Done(r, FALSE)
    /\ UNCHANGED <<conv, newest>>

\* An await throws: what was done stays done, and the host learns of it.
RequestFails(r) ==
    /\ InFlight(r)
    /\ Done(r, TRUE)
    /\ UNCHANGED <<conv, newest, cache, row, chosen>>

\* The process stops: requests under way are lost, and so is the memory of the manager.
RestartManager ==
    /\ \E r \in Requests : request[r].pc = "done"
    /\ request' = [r \in Requests |->
                      IF InFlight(r) THEN Finished(request[r], TRUE) ELSE request[r]]
    /\ cache' = [u \in ImUsers |-> NoConv]
    /\ UNCHANGED <<conv, newest, row, chosen>>

----------------------------------------------------------------------------

ImInit ==
    /\ conv = [c \in Convs |-> [tag |-> "none", texts |-> {}]]
    /\ newest = NoConv
    /\ cache = [u \in ImUsers |-> NoConv]
    /\ row = [u \in ImUsers |-> NoConv]
    /\ request = [r \in Requests |-> [pc |-> "off", user |-> "none", op |-> "none",
                                      row |-> NoConv, conv |-> NoConv, made |-> FALSE,
                                      wanted |-> NoConv, lost |-> FALSE]]
    /\ chosen = [u \in ImUsers |-> NoConv]

RequestStep(r) ==
    \/ HaveBinding(r)
    \/ \E c \in Convs : CreateConversation(r, c)
    \/ SendText(r)
    \/ ReadMeta(r)
    \/ WriteTag(r)
    \/ FinishOrBind(r)
    \/ PickTarget(r)
    \/ Switch(r)
    \/ RequestFails(r)

ImNext ==
    \/ \E r \in Requests : (\E u \in ImUsers, op \in Ops : Receive(r, u, op)) \/ RequestStep(r)
    \/ RestartManager

----------------------------------------------------------------------------

Holders(r) == {c \in Convs : r \in conv[c].texts}

Completed(r) == request[r].pc = "done" /\ request[r].op = "text" /\ ~request[r].lost

\* A text that was handled is in exactly one conversation, whatever ran beside it: in the one its
\* user's last request had chosen when it came, from before a restart too, if there was one.
TextsFollowTheBinding ==
    \A r \in Requests :
        Completed(r) =>
            /\ Cardinality(Holders(r)) = 1
            /\ request[r].wanted # NoConv => Holders(r) = {request[r].wanted}
=============================================================================
