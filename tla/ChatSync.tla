------------------------------- MODULE ChatSync -------------------------------
(***************************************************************************)
(* ChatSyncEngine: pull-based synchronisation of conversations, messages   *)
(* and attachments between devices, with the serving side of               *)
(* Libp2pDeviceNetworkService and devices that keep appending messages of  *)
(* their own while a synchronisation is suspended at an await.             *)
(*                                                                         *)
(* An engine belongs to one device (NodeOf) and pulls from a fixed list of *)
(* peers (PeersOf).  Libp2pDeviceNetworkService.syncWithDevice makes a new *)
(* engine for every call; a host may also keep one, which then keeps its   *)
(* version vector (LongLived).  Several engines of one device run at once  *)
(* on the same store.                                                      *)
(***************************************************************************)
EXTENDS ConversationStore, Sequences

CONSTANTS
  Engine,
  NodeOf,        \* the device an engine synchronises
  PeersOf,       \* the peers of an engine, in the order it visits them
  LongLived,     \* engines that keep their version vector between calls
  Origin,        \* origin node ids found in conversation rows and vectors
  OriginOf,      \* originNodeId of a conversation
  SelfOrigin,    \* the origin id an engine counts its own changes under
  HostVectors,   \* what a peer's syncVersionVector callback may answer
  MissingReports,\* whether a peer may report missingForRemote
  Modes,         \* operations the host calls: "syncOnce", "antiEntropy"
  ListLimit,     \* the LIMIT both sides list conversations with (500)
  WritersOf,     \* bound: the devices that may append a message
  MaxFailures,   \* bound: requests that fail in a behaviour
  MaxBumps       \* bound: own version of an engine

NoNode == "nobody"
NoConv == "none"

ASSUME SyncAssumption ==
  /\ NoNode \notin Node
  /\ NodeOf \in [Engine -> Node]
  /\ PeersOf \in [Engine -> Seq(Node)]
  /\ LongLived \subseteq Engine
  /\ WritersOf \in [Message -> SUBSET Node]
  /\ OriginOf \in [Conv -> Origin]
  /\ SelfOrigin \in [Engine -> Origin]
  /\ HostVectors \subseteq [Origin -> Nat]
  /\ MissingReports \subseteq BOOLEAN
  /\ Modes \subseteq {"syncOnce", "antiEntropy"}
  /\ ListLimit \in Nat /\ MaxFailures \in Nat /\ MaxBumps \in Nat

VARIABLES
  author,    \* history: the device that appended a message, or NoNode
  eng,       \* the engines' local state
  failures   \* history: requests that failed so far

storeVars == <<rows, count, blobs>>
vars == <<rows, count, blobs, author, eng, failures>>

(***************************************************************************)
(* The state of an engine.  pc names the await it is suspended at.         *)
(*   pc        what it waits for                                           *)
(*   exchange  the answer of exchangeVersionVector of peer i               *)
(*   metadata  the answer of pullMissingMetadata of peer i                 *)
(*   upsert    the upserts of the conversations in `metas`                 *)
(*   choose    the next conversation of `todo`                             *)
(*   messages  the answer of pullMissingMessages of peer i                 *)
(*   insert    the insertion of `incoming`                                 *)
(*   blobs     the attachments in `hashes`, asking peer j                  *)
(* `goal` and `last` are history: what the peers stored when the call      *)
(* began, and how the last call ended.                                     *)
(***************************************************************************)
Pcs == {"idle", "exchange", "metadata", "upsert", "choose", "messages",
        "insert", "blobs"}

MetaRecord == [conv : Conv, count : Nat]

Vector == [Origin -> Nat]

Outcomes == {"none", "clean", "lossy", "failed"}

EngineState ==
  [pc : Pcs, vv : Vector, i : Nat, j : Nat,
   remote : Vector, missing : BOOLEAN, metas : SUBSET MetaRecord,
   pulled : SUBSET Conv, todo : SUBSET Conv, cur : Conv \cup {NoConv},
   known : SUBSET Message,
   incoming : SUBSET Message, hashes : SUBSET Hash, anti : BOOLEAN,
   clean : BOOLEAN, goal : SUBSET Message,
   last : Outcomes]

ZeroVector == [o \in Origin |-> 0]

IdleEngine ==
  [pc |-> "idle", vv |-> ZeroVector, i |-> 0, j |-> 0,
   remote |-> ZeroVector, missing |-> FALSE, metas |-> {},
   pulled |-> {}, todo |-> {}, cur |-> NoConv, known |-> {}, incoming |-> {}, hashes |-> {},
   anti |-> FALSE, clean |-> TRUE, goal |-> {}, last |-> "none"]

TypeOK ==
  /\ StoreTypeOK
  /\ author \in [Message -> Node \cup {NoNode}]
  /\ eng \in [Engine -> EngineState]
  /\ failures \in Nat

Init ==
  /\ StoreInit
  /\ author = [m \in Message |-> NoNode]
  /\ eng = [e \in Engine |-> IdleEngine]
  /\ failures = 0

(***************************************************************************)
(* The device's own operations.                                            *)
(***************************************************************************)

\* A turn running on device n appends a message with a fresh id; the host has
\* stored its attachments.
AuthorMessage(n, m) ==
  /\ n \in WritersOf[m]
  /\ author[m] = NoNode
  /\ author' = [author EXCEPT ![m] = n]
  /\ AppendMessage(n, m)
  /\ blobs' = [blobs EXCEPT ![n] = @ \cup AttachmentsOf[m]]
  /\ UNCHANGED <<eng, failures>>

\* createAgent, or memeloop.agent.runTurn for an unknown conversation: an
\* empty conversation row.
OpenConversation(n, c) ==
  /\ count[n][c] = NoRow
  /\ UpsertConversationMetadata(n, c, 0)
  /\ UNCHANGED <<rows, blobs, author, eng, failures>>

\* memeloop.agent.runTurn received by n with the row of device q for the
\* conversation: the row is written as it was sent.
RunTurnMetadata(n, q, c) ==
  /\ n # q
  /\ count[q][c] # NoRow
  /\ UpsertConversationMetadata(n, c, count[q][c])
  /\ UNCHANGED <<rows, blobs, author, eng, failures>>

(***************************************************************************)
(* syncOnce, first half: directory rows from every peer.                   *)
(***************************************************************************)
Me(e) == NodeOf[e]
Peer(e) == PeersOf[e][eng[e].i]
LastPeer(e) == eng[e].i >= Len(PeersOf[e])

PeerRows(e) == UNION {rows[PeersOf[e][k]] : k \in 1..Len(PeersOf[e])}

\* The call of syncWithDevice (a new engine) or of syncOnce / antiEntropyOnce.
\* Without peers syncOnce returns at once.
StartSync(e, mode) ==
  /\ eng[e].pc = "idle"
  /\ PeersOf[e] # <<>>
  /\ eng' = [eng EXCEPT ![e] =
       [IdleEngine EXCEPT
          !.pc = "exchange", !.i = 1,
          !.vv = IF e \in LongLived THEN eng[e].vv ELSE ZeroVector,
          !.anti = (mode = "antiEntropy"),
          !.goal = PeerRows(e), !.last = eng[e].last]]
  /\ UNCHANGED <<storeVars, author, failures>>

\* The answer to exchangeVersionVector: the host's vector, or an empty one.
ExchangeVersionVector(e) ==
  /\ eng[e].pc = "exchange"
  /\ \E remote \in HostVectors, missing \in MissingReports :
       eng' = [eng EXCEPT ![e] = [eng[e] EXCEPT !.pc = "metadata", !.remote = remote,
                          !.missing = missing]]
  /\ UNCHANGED <<storeVars, author, failures>>

\* Mutant: without the max(1, messageCount).
ShouldSendCounted(k, since) == since < k

\* shouldSendConversation: the caller's clock for the origin node against the
\* message count of this one conversation.
ShouldSend(k, since) == since < (IF k < 1 THEN 1 ELSE k)

\* The answer to pullMissingMetadata, computed by the peer from its listing.
PullMissingMetadata(e) ==
  /\ eng[e].pc = "metadata"
  /\ \E listed \in ListConversations(Peer(e), ListLimit) :
       eng' = [eng EXCEPT ![e] = [eng[e] EXCEPT
         !.pc = "upsert",
         !.metas = {[conv |-> c, count |-> count[Peer(e)][c]] :
                         c \in {d \in listed : ShouldSend(count[Peer(e)][d],
                                                  eng[e].vv[OriginOf[d]])}}]]
  /\ UNCHANGED <<storeVars, author, failures>>

UpsertOne(e) ==
  /\ eng[e].pc = "upsert"
  /\ \E r \in eng[e].metas :
       /\ UpsertConversationMetadata(Me(e), r.conv, r.count)
       /\ eng' = [eng EXCEPT ![e] = [eng[e] EXCEPT !.metas = eng[e].metas \ {r},
                             !.pulled = eng[e].pulled \cup {r.conv}]]
  /\ UNCHANGED <<rows, blobs, author, failures>>

Merge(v, w) == [o \in Origin |-> IF w[o] > v[o] THEN w[o] ELSE v[o]]

\* After the last upsert: merge the peer's vector, count a change of its own
\* when the peer misses something, and go on to the next peer or to the
\* messages.
FinishPeer(e) ==
  LET merged == Merge(eng[e].vv, eng[e].remote)
      own == SelfOrigin[e]
  IN
  /\ eng[e].pc = "upsert"
  /\ eng[e].metas = {}
  /\ eng[e].missing => merged[own] < MaxBumps
  /\ eng' = [eng EXCEPT ![e] = [eng[e] EXCEPT
       !.vv = IF eng[e].missing
                 THEN [merged EXCEPT ![own] = merged[own] + 1] ELSE merged,
       !.pc = IF LastPeer(e) THEN "choose" ELSE "exchange",
       !.i = IF LastPeer(e) THEN eng[e].i ELSE eng[e].i + 1,
       !.todo = IF LastPeer(e) THEN eng[e].pulled ELSE {},
       !.pulled = IF LastPeer(e) THEN {} ELSE eng[e].pulled,
       !.remote = ZeroVector, !.missing = FALSE]]
  /\ UNCHANGED <<storeVars, author, failures>>

\* A failed exchangeVersionVector or pullMissingMetadata request rejects the
\* whole call: the conversations pulled so far keep their new rows and their
\* messages are not asked for.
SyncFails(e) ==
  /\ eng[e].pc \in {"exchange", "metadata"}
  /\ failures < MaxFailures
  /\ failures' = failures + 1
  /\ eng' = [eng EXCEPT ![e] =
       [IdleEngine EXCEPT !.vv = eng[e].vv, !.last = "failed"]]
  /\ UNCHANGED <<storeVars, author>>

(***************************************************************************)
(* pullMessagesForConversationFromPeers, for each pulled conversation and, *)
(* in antiEntropyOnce, then for each listed conversation.                  *)
(***************************************************************************)

\* The known ids are read once, before the first peer is asked.
ChooseConversation(e) ==
  /\ eng[e].pc = "choose"
  /\ \E c \in eng[e].todo :
       eng' = [eng EXCEPT ![e] = [eng[e] EXCEPT !.pc = "messages", !.i = 1,
                          !.todo = eng[e].todo \ {c}, !.cur = c,
                          !.known = GetMessages(Me(e), c)]]
  /\ UNCHANGED <<storeVars, author, failures>>

\* Mutant: the peer index is never advanced.
NextPeerStuck(e, s) == [s EXCEPT !.incoming = {}, !.pc = "messages"]

\* The state after peer i of the current conversation has been dealt with.
NextPeer(e, s) ==
  IF LastPeer(e)
  THEN [s EXCEPT !.pc = "choose", !.cur = NoConv, !.known = {}, !.incoming = {}, !.hashes = {}]
  ELSE [s EXCEPT !.pc = "messages", !.i = @ + 1, !.incoming = {}, !.hashes = {}]

\* The peer answers with its messages of the conversation that are not known.
PullMissingMessages(e) ==
  LET missing == GetMessages(Peer(e), eng[e].cur) \ eng[e].known IN
  /\ eng[e].pc = "messages"
  /\ eng' = [eng EXCEPT ![e] =
       IF missing = {} THEN NextPeer(e, eng[e])
       ELSE [eng[e] EXCEPT !.pc = "insert", !.incoming = missing]]
  /\ UNCHANGED <<storeVars, author, failures>>

\* A failed pullMissingMessages request is swallowed: the next peer is asked.
PullMessagesFails(e) ==
  /\ eng[e].pc = "messages"
  /\ failures < MaxFailures
  /\ failures' = failures + 1
  /\ eng' = [eng EXCEPT ![e] = NextPeer(e, [eng[e] EXCEPT !.clean = FALSE])]
  /\ UNCHANGED <<storeVars, author>>

\* Mutant: only one attachment of an answer is fetched.
InsertFirstAttachment(e) ==
  LET hashes == UNION {AttachmentsOf[m] : m \in eng[e].incoming} IN
  /\ eng[e].pc = "insert"
  /\ InsertMessagesIfAbsent(Me(e), eng[e].incoming)
  /\ eng' = [eng EXCEPT ![e] = [eng[e] EXCEPT
       !.pc = "blobs", !.j = 1,
       !.hashes = {h \in hashes : h = CHOOSE x \in hashes : TRUE}]]
  /\ UNCHANGED <<blobs, author, failures>>

\* The answer is inserted and its attachments are looked at.
InsertMessages(e) ==
  /\ eng[e].pc = "insert"
  /\ InsertMessagesIfAbsent(Me(e), eng[e].incoming)
  /\ eng' = [eng EXCEPT ![e] = [eng[e] EXCEPT
       !.pc = "blobs", !.j = 1,
       !.hashes = UNION {AttachmentsOf[m] : m \in eng[e].incoming}]]
  /\ UNCHANGED <<blobs, author, failures>>

(***************************************************************************)
(* ensureAttachmentsFromMessages, for the messages just received.          *)
(***************************************************************************)
BlobPeer(e) == PeersOf[e][eng[e].j]

\* No hash is left: on to the next peer.
AttachmentsDone(e) ==
  /\ eng[e].pc = "blobs"
  /\ eng[e].hashes = {}
  /\ eng' = [eng EXCEPT ![e] = NextPeer(e, eng[e])]
  /\ UNCHANGED <<storeVars, author, failures>>

\* The hash the loop is at; j is the peer it will ask for that hash.
CurrentHash(e) == CHOOSE h \in eng[e].hashes : TRUE

\* The hash is stored already.
SkipAttachment(e) ==
  LET h == CurrentHash(e) IN
  /\ eng[e].pc = "blobs"
  /\ eng[e].hashes # {}
  /\ eng[e].j = 1
  /\ h \in blobs[Me(e)]
  /\ eng' = [eng EXCEPT ![e] = [eng[e] EXCEPT !.hashes = eng[e].hashes \ {h}]]
  /\ UNCHANGED <<storeVars, author, failures>>

\* The next peer is asked for the hash, or the hash is given up after the last.
TryNextBlobPeer(e) ==
  IF eng[e].j < Len(PeersOf[e])
  THEN [eng[e] EXCEPT !.j = eng[e].j + 1]
  ELSE [eng[e] EXCEPT !.j = 1, !.hashes = eng[e].hashes \ {CurrentHash(e)}]

WantsBlob(e) ==
  /\ eng[e].pc = "blobs"
  /\ eng[e].hashes # {}
  /\ eng[e].j > 1 \/ CurrentHash(e) \notin blobs[Me(e)]

\* Peer j answers with the blob, which is saved, or with null.
PullAttachment(e) ==
  LET h == CurrentHash(e) IN
  /\ WantsBlob(e)
  /\ IF h \in blobs[BlobPeer(e)]
     THEN /\ SaveAttachment(Me(e), h)
          /\ eng' = [eng EXCEPT ![e] = [eng[e] EXCEPT !.j = 1, !.hashes = eng[e].hashes \ {h}]]
     ELSE /\ eng' = [eng EXCEPT ![e] = TryNextBlobPeer(e)]
          /\ UNCHANGED blobs
  /\ UNCHANGED <<rows, count, author, failures>>

PullAttachmentFails(e) ==
  /\ WantsBlob(e)
  /\ failures < MaxFailures
  /\ failures' = failures + 1
  /\ eng' = [eng EXCEPT ![e] = [TryNextBlobPeer(e) EXCEPT !.clean = FALSE]]
  /\ UNCHANGED <<storeVars, author>>

(***************************************************************************)
(* The end of the call, or of the first half of antiEntropyOnce.           *)
(***************************************************************************)
ListForAntiEntropy(e) ==
  /\ eng[e].pc = "choose"
  /\ eng[e].todo = {}
  /\ eng[e].anti
  /\ \E listed \in ListConversations(Me(e), ListLimit) :
       eng' = [eng EXCEPT ![e] = [eng[e] EXCEPT !.todo = listed, !.anti = FALSE]]
  /\ UNCHANGED <<storeVars, author, failures>>

FinishSync(e) ==
  /\ eng[e].pc = "choose"
  /\ eng[e].todo = {}
  /\ ~eng[e].anti
  /\ eng' = [eng EXCEPT ![e] =
       [IdleEngine EXCEPT !.vv = eng[e].vv, !.goal = eng[e].goal,
          !.last = IF eng[e].clean THEN "clean" ELSE "lossy"]]
  /\ UNCHANGED <<storeVars, author, failures>>

(***************************************************************************)
(* The specification.                                                      *)
(***************************************************************************)
Request(e) ==
  \/ ExchangeVersionVector(e)
  \/ PullMissingMetadata(e)
  \/ PullMissingMessages(e)
  \/ PullAttachment(e)

Continue(e) ==
  \/ UpsertOne(e)
  \/ FinishPeer(e)
  \/ ChooseConversation(e)
  \/ InsertMessages(e)
  \/ AttachmentsDone(e)
  \/ SkipAttachment(e)
  \/ ListForAntiEntropy(e)
  \/ FinishSync(e)

Fail(e) ==
  \/ SyncFails(e)
  \/ PullMessagesFails(e)
  \/ PullAttachmentFails(e)

Start(e) == \E mode \in Modes : StartSync(e, mode)

EngineNext(e) == Start(e) \/ Request(e) \/ Continue(e) \/ Fail(e)

DeviceNext(n) ==
  \/ \E m \in Message : AuthorMessage(n, m)
  \/ \E c \in Conv : OpenConversation(n, c)
  \/ \E q \in Node, c \in Conv : RunTurnMetadata(n, q, c)

Next ==
  \/ \E n \in Node : DeviceNext(n)
  \/ \E e \in Engine : EngineNext(e)

Spec == Init /\ [][Next]_vars

\* A request is answered or fails and a resolved promise is continued, so a
\* started call keeps going.  A device may never append anything.
FairSpec == Spec /\ \A e \in Engine : WF_vars(Request(e) \/ Continue(e))

\* In addition the host keeps calling, as a host with a sync timer does.
PeriodicSpec == FairSpec /\ \A e \in Engine : WF_vars(Start(e))

(***************************************************************************)
(* Properties.                                                             *)
(***************************************************************************)

\* Every stored message is still stored by the device that appended it, also
\* while its copy is on the way: no sync, however interleaved, invents a
\* message, and neither INSERT OR IGNORE nor a metadata upsert loses one.
Provenance ==
  \A n \in Node : \A m \in rows[n] :
    author[m] \in Node /\ m \in rows[author[m]]

\* Every stored message belongs to a conversation of the directory: messages
\* pulled before their conversation row would never be listed, nor served to
\* another device.
NoOrphanMessages ==
  \A n \in Node : \A m \in rows[n] : ConvOf[m] \in Directory(n)

\* A call that met no failed request leaves the device with every message its
\* peers stored when the call began, whatever was appended or pulled by others
\* in the meantime and however stale the counts of the directory rows are.
SyncDelivers ==
  \A e \in Engine :
    eng[e].last = "clean" /\ eng[e].pc = "idle" => eng[e].goal \subseteq rows[Me(e)]

\* When no request has failed, an idle device holds the attachments of every
\* message it stores.
BlobsFollowMessages ==
  \A n \in Node :
    failures = 0 /\ (\A e \in Engine : Me(e) = n => eng[e].pc = "idle")
      => \A m \in rows[n] : AttachmentsOf[m] \subseteq blobs[n]

\* A started call ends, also when requests fail and devices keep appending.
SyncEnds ==
  \A e \in Engine : (eng[e].pc # "idle") ~> (eng[e].pc = "idle")

\* The abstract specification: a replicated set of messages that only grows.
Replicated == INSTANCE ReplicatedMessages WITH have <- rows, author <- author

\* Sync implements the replicated set: no interleaving of pulls, appends and
\* directory upserts invents a message, loses one or changes its author.
RefinesReplicated == Replicated!Spec

\* With hosts that keep calling, it also delivers: every message reaches every
\* device, although calls fail, abort half way and start from stale rows.
RefinesFairReplicated == Replicated!FairSpec

(***************************************************************************)
(* The inductive invariant behind the safety properties.                   *)
(***************************************************************************)

\* The peer indices are in range wherever the engine uses them.
IndexAt(e) ==
  /\ eng[e].pc # "idle" => Len(PeersOf[e]) >= 1
  /\ eng[e].pc \in {"exchange", "metadata", "upsert", "messages", "insert", "blobs"}
       => eng[e].i \in 1..Len(PeersOf[e])
  /\ eng[e].pc = "blobs" => eng[e].j \in 1..Len(PeersOf[e])

\* What is on the way to an engine is stored by its author.
InFlightAt(e) ==
  \A m \in eng[e].incoming : author[m] \in Node /\ m \in rows[author[m]]

\* Conversations an engine will pull messages for are in its own directory, and
\* an answer holds messages of the conversation that was asked for.
PulledAt(e) ==
  /\ eng[e].pulled \subseteq Directory(Me(e))
  /\ eng[e].todo \subseteq Directory(Me(e))
  /\ eng[e].pc \in {"messages", "insert", "blobs"} => eng[e].cur \in Directory(Me(e))
  /\ eng[e].pc = "insert" => \A m \in eng[e].incoming : ConvOf[m] = eng[e].cur

EngineInv(e) == IndexAt(e) /\ InFlightAt(e) /\ PulledAt(e)

IInv ==
  /\ TypeOK
  /\ Provenance
  /\ NoOrphanMessages
  /\ \A e \in Engine : EngineInv(e)

\* Some peer from position k on stores m.
Ahead(e, k, m) == \E l \in 1..Len(PeersOf[e]) : l >= k /\ m \in rows[PeersOf[e][l]]

\* Where a message the peers stored when the call began can still be: with a
\* peer that is to be asked, in a directory row received, in a conversation to
\* be pulled, on the way, or here.
StillComing(e, m) ==
  LET s == eng[e]
      c == ConvOf[m]
  IN
  /\ s.pc \in {"exchange", "metadata"} => Ahead(e, s.i, m) \/ c \in s.pulled
  /\ s.pc = "upsert" => \/ Ahead(e, s.i + 1, m)
                        \/ c \in s.pulled
                        \/ \E r \in s.metas : r.conv = c
  /\ s.pc = "choose" => c \in s.todo \/ m \in rows[Me(e)]
  /\ s.pc = "messages" => \/ c \in s.todo
                          \/ m \in rows[Me(e)]
                          \/ c = s.cur /\ Ahead(e, s.i, m)
  /\ s.pc = "insert" => \/ c \in s.todo
                        \/ m \in rows[Me(e)]
                        \/ m \in s.incoming
                        \/ c = s.cur /\ Ahead(e, s.i + 1, m)
  /\ s.pc = "blobs" => \/ c \in s.todo
                       \/ m \in rows[Me(e)]
                       \/ c = s.cur /\ Ahead(e, s.i + 1, m)

\* The vector of a device whose hosts answer with empty ones stays at zero.
DeliveryAt(e) ==
  /\ eng[e].pc = "idle" /\ eng[e].last = "clean" => eng[e].goal \subseteq rows[Me(e)]
  /\ eng[e].pc # "idle" => \A m \in eng[e].goal : Ahead(e, 1, m)
  /\ eng[e].pc # "idle" /\ eng[e].clean => \A m \in eng[e].goal : StillComing(e, m)
  /\ eng[e].pc \in {"messages", "insert", "blobs"} => eng[e].known \subseteq rows[Me(e)]
  /\ eng[e].vv = ZeroVector /\ eng[e].remote = ZeroVector /\ eng[e].missing = FALSE

DeliveryInv == \A e \in Engine : DeliveryAt(e)

==============================================================================
