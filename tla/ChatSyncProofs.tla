---------------------------- MODULE ChatSyncProofs ----------------------------
(***************************************************************************)
(* Theorems about ChatSync, for every set of devices, engines and          *)
(* messages and for every topology.                                        *)
(***************************************************************************)
EXTENDS ChatSync, FiniteSetTheorems, TLAPS

(***************************************************************************)
(* Types.                                                                  *)
(***************************************************************************)
LEMMA ZeroVectorType == ZeroVector \in Vector
BY DEF ZeroVector, Vector

LEMMA IdleEngineType == IdleEngine \in EngineState
BY ZeroVectorType DEF IdleEngine, EngineState, Pcs, Outcomes

LEMMA EngineUpdate ==
  ASSUME TypeOK, NEW e \in Engine, NEW r \in EngineState,
         eng' = [eng EXCEPT ![e] = r]
  PROVE  /\ eng' \in [Engine -> EngineState]
         /\ eng'[e] = r
         /\ \A f \in Engine : f # e => eng'[f] = eng[f]
BY DEF TypeOK

LEMMA EngineTypes ==
  ASSUME TypeOK, SyncAssumption, NEW e \in Engine
  PROVE  /\ eng[e] \in EngineState
         /\ Me(e) \in Node
         /\ PeersOf[e] \in Seq(Node)
         /\ rows[Me(e)] \subseteq Message
BY DEF TypeOK, StoreTypeOK, SyncAssumption, Me

LEMMA ListedInDirectory ==
  ASSUME NEW n \in Node, NEW listed \in ListConversations(n, ListLimit)
  PROVE  listed \subseteq Directory(n)
BY DEF ListConversations

LEMMA CountType ==
  ASSUME StoreAssumption, NEW S \in SUBSET Message, NEW c \in Conv
  PROVE  Cardinality(MessagesOf(S, c)) \in Nat
<1>1. IsFiniteSet(MessagesOf(S, c))
  BY FS_Subset DEF StoreAssumption, MessagesOf
<1> QED BY <1>1, FS_CardinalityType

LEMMA NextPeerType ==
  ASSUME NEW s \in EngineState, NEW e \in Engine
  PROVE  NextPeer(e, s) \in EngineState
<1>1. CASE LastPeer(e)
  <2>1. NextPeer(e, s) = [s EXCEPT !.pc = "choose", !.cur = NoConv, !.known = {},
                                   !.incoming = {}, !.hashes = {}]
    BY <1>1 DEF NextPeer
  <2> QED BY <2>1 DEF EngineState, Pcs
<1>2. CASE ~LastPeer(e)
  <2>1. NextPeer(e, s) = [s EXCEPT !.pc = "messages", !.i = @ + 1,
                                   !.incoming = {}, !.hashes = {}]
    BY <1>2 DEF NextPeer
  <2>2. s.i + 1 \in Nat /\ "messages" \in Pcs
    BY DEF EngineState, Pcs
  <2> QED BY <2>1, <2>2 DEF EngineState
<1> QED BY <1>1, <1>2

LEMMA MergeType ==
  ASSUME NEW v \in Vector, NEW w \in Vector
  PROVE  Merge(v, w) \in Vector
BY DEF Merge, Vector

LEMMA InsertType ==
  ASSUME StoreTypeOK, StoreAssumption, NEW n \in Node, NEW ms \in SUBSET Message,
         InsertMessagesIfAbsent(n, ms)
  PROVE  /\ rows' \in [Node -> SUBSET Message]
         /\ count' \in [Node -> [Conv -> Nat \cup {NoRow}]]
<1> DEFINE after == rows[n] \cup ms
           row == [c \in Conv |-> IF c \in Affected(n, ms) /\ count[n][c] # NoRow
                                  THEN Cardinality(MessagesOf(after, c))
                                  ELSE count[n][c]]
<1>1. after \in SUBSET Message
  BY DEF StoreTypeOK
<1>2. \A c \in Conv : Cardinality(MessagesOf(after, c)) \in Nat
  BY <1>1, CountType
<1>3. row \in [Conv -> Nat \cup {NoRow}]
  <2> HIDE DEF after
  <2> QED BY <1>2 DEF StoreTypeOK
<1>4. count' = [count EXCEPT ![n] = row]
  BY DEF InsertMessagesIfAbsent
<1>5. rows' = [rows EXCEPT ![n] = after]
  BY DEF InsertMessagesIfAbsent
<1> HIDE DEF after, row
<1> QED BY <1>1, <1>3, <1>4, <1>5 DEF StoreTypeOK

\* Only the state of engine e changes.
Others(e) == \A f \in Engine : f # e => eng'[f] = eng[f]

LEMMA StartEffect ==
  ASSUME TypeOK, SyncAssumption, NEW e \in Engine, NEW mode \in Modes, StartSync(e, mode)
  PROVE  /\ TypeOK' /\ Others(e)
         /\ eng'[e].pc = "exchange"
         /\ eng'[e].vv = IF e \in LongLived THEN eng[e].vv ELSE ZeroVector
         /\ eng'[e].i = 1
         /\ eng'[e].j = 0
         /\ eng'[e].remote = ZeroVector
         /\ eng'[e].missing = FALSE
         /\ eng'[e].metas = {}
         /\ eng'[e].pulled = {}
         /\ eng'[e].todo = {}
         /\ eng'[e].cur = NoConv
         /\ eng'[e].known = {}
         /\ eng'[e].incoming = {}
         /\ eng'[e].clean = TRUE
         /\ eng'[e].goal = PeerRows(e)
         /\ eng'[e].last = eng[e].last
<1> DEFINE r == [IdleEngine EXCEPT
                   !.pc = "exchange",
                   !.i = 1,
                   !.vv = IF e \in LongLived THEN eng[e].vv ELSE ZeroVector,
                   !.anti = (mode = "antiEntropy"),
                   !.goal = PeerRows(e),
                   !.last = eng[e].last]
<1>1. eng[e] \in EngineState /\ Me(e) \in Node
  BY EngineTypes
<1>2. PeerRows(e) \subseteq Message
  BY DEF PeerRows, TypeOK, StoreTypeOK, SyncAssumption
<1>21. "exchange" \in Pcs
  BY DEF Pcs
<1>3. r \in EngineState
  BY <1>1, <1>2, <1>21, ZeroVectorType, IdleEngineType DEF EngineState
<1>4. eng' = [eng EXCEPT ![e] = r]
  BY DEF StartSync
<1>5. /\ r.pc = "exchange"
      /\ r.vv = IF e \in LongLived THEN eng[e].vv ELSE ZeroVector
      /\ r.i = 1
      /\ r.j = 0
      /\ r.remote = ZeroVector
      /\ r.missing = FALSE
      /\ r.metas = {}
      /\ r.pulled = {}
      /\ r.todo = {}
      /\ r.cur = NoConv
      /\ r.known = {}
      /\ r.incoming = {}
      /\ r.clean = TRUE
      /\ r.goal = PeerRows(e)
      /\ r.last = eng[e].last
  BY <1>1 DEF EngineState, IdleEngine
<1> HIDE DEF r
<1>6. eng' \in [Engine -> EngineState] /\ eng'[e] = r /\ Others(e)
  BY <1>3, <1>4, EngineUpdate DEF Others
<1>7. TypeOK'
  BY <1>6 DEF TypeOK, StoreTypeOK, StartSync, storeVars
<1> QED BY <1>5, <1>6, <1>7

LEMMA ExchangeEffect ==
  ASSUME TypeOK, SyncAssumption, NEW e \in Engine, ExchangeVersionVector(e)
  PROVE  /\ TypeOK' /\ Others(e)
         /\ \E remote \in HostVectors, missing \in MissingReports :
              /\ eng'[e].pc = "metadata"
              /\ eng'[e].vv = eng[e].vv
              /\ eng'[e].i = eng[e].i
              /\ eng'[e].j = eng[e].j
              /\ eng'[e].remote = remote
              /\ eng'[e].missing = missing
              /\ eng'[e].metas = eng[e].metas
              /\ eng'[e].pulled = eng[e].pulled
              /\ eng'[e].todo = eng[e].todo
              /\ eng'[e].cur = eng[e].cur
              /\ eng'[e].known = eng[e].known
              /\ eng'[e].incoming = eng[e].incoming
              /\ eng'[e].clean = eng[e].clean
              /\ eng'[e].goal = eng[e].goal
              /\ eng'[e].last = eng[e].last
<1>0. PICK remote \in HostVectors, missing \in MissingReports :
        eng' = [eng EXCEPT ![e] = [eng[e] EXCEPT !.pc = "metadata", !.remote = remote,
                                                 !.missing = missing]]
  BY DEF ExchangeVersionVector
<1> DEFINE r == [eng[e] EXCEPT
                   !.pc = "metadata",
                   !.remote = remote,
                   !.missing = missing]
<1>1. eng[e] \in EngineState /\ Me(e) \in Node
  BY EngineTypes
<1>2. "metadata" \in Pcs /\ remote \in Vector /\ missing \in BOOLEAN
  BY DEF SyncAssumption, Vector, Pcs
<1>3. r \in EngineState
  BY <1>1, <1>2 DEF EngineState
<1>4. eng' = [eng EXCEPT ![e] = r]
  BY <1>0 DEF ExchangeVersionVector
<1>5. /\ r.pc = "metadata"
      /\ r.vv = eng[e].vv
      /\ r.i = eng[e].i
      /\ r.j = eng[e].j
      /\ r.remote = remote
      /\ r.missing = missing
      /\ r.metas = eng[e].metas
      /\ r.pulled = eng[e].pulled
      /\ r.todo = eng[e].todo
      /\ r.cur = eng[e].cur
      /\ r.known = eng[e].known
      /\ r.incoming = eng[e].incoming
      /\ r.clean = eng[e].clean
      /\ r.goal = eng[e].goal
      /\ r.last = eng[e].last
  BY <1>1 DEF EngineState
<1> HIDE DEF r
<1>6. eng' \in [Engine -> EngineState] /\ eng'[e] = r /\ Others(e)
  BY <1>3, <1>4, EngineUpdate DEF Others
<1>7. TypeOK'
  BY <1>6 DEF TypeOK, StoreTypeOK, ExchangeVersionVector, storeVars
<1> QED BY <1>0, <1>5, <1>6, <1>7

\* The rows a peer offers out of a listing.
Offered(e, listed) ==
  {[conv |-> c, count |-> count[Peer(e)][c]] :
     c \in {d \in listed : ShouldSend(count[Peer(e)][d], eng[e].vv[OriginOf[d]])}}

LEMMA MetadataEffect ==
  ASSUME TypeOK, SyncAssumption, NEW e \in Engine, IndexAt(e), PullMissingMetadata(e)
  PROVE  /\ TypeOK' /\ Others(e)
         /\ \E listed \in ListConversations(Peer(e), ListLimit) :
              /\ eng'[e].pc = "upsert"
              /\ eng'[e].vv = eng[e].vv
              /\ eng'[e].i = eng[e].i
              /\ eng'[e].j = eng[e].j
              /\ eng'[e].remote = eng[e].remote
              /\ eng'[e].missing = eng[e].missing
              /\ eng'[e].metas = Offered(e, listed)
              /\ eng'[e].pulled = eng[e].pulled
              /\ eng'[e].todo = eng[e].todo
              /\ eng'[e].cur = eng[e].cur
              /\ eng'[e].known = eng[e].known
              /\ eng'[e].incoming = eng[e].incoming
              /\ eng'[e].clean = eng[e].clean
              /\ eng'[e].goal = eng[e].goal
              /\ eng'[e].last = eng[e].last
<1>0. PICK listed \in ListConversations(Peer(e), ListLimit) :
        eng' = [eng EXCEPT ![e] = [eng[e] EXCEPT !.pc = "upsert",
                                                 !.metas = Offered(e, listed)]]
  BY DEF PullMissingMetadata, Offered
<1> DEFINE r == [eng[e] EXCEPT
                   !.pc = "upsert",
                   !.metas = Offered(e, listed)]
<1>1. eng[e] \in EngineState /\ Me(e) \in Node
  BY EngineTypes
<1>21. Peer(e) \in Node /\ "upsert" \in Pcs
  BY EngineTypes DEF PullMissingMetadata, IndexAt, Peer, Pcs
<1>22. listed \subseteq Directory(Peer(e))
  BY <1>21, ListedInDirectory
<1>2. Offered(e, listed) \subseteq MetaRecord
  BY <1>21, <1>22 DEF Offered, MetaRecord, Directory, TypeOK, StoreTypeOK
<1>3. r \in EngineState
  BY <1>1, <1>2, <1>21 DEF EngineState
<1>4. eng' = [eng EXCEPT ![e] = r]
  BY <1>0 DEF PullMissingMetadata
<1>5. /\ r.pc = "upsert"
      /\ r.vv = eng[e].vv
      /\ r.i = eng[e].i
      /\ r.j = eng[e].j
      /\ r.remote = eng[e].remote
      /\ r.missing = eng[e].missing
      /\ r.metas = Offered(e, listed)
      /\ r.pulled = eng[e].pulled
      /\ r.todo = eng[e].todo
      /\ r.cur = eng[e].cur
      /\ r.known = eng[e].known
      /\ r.incoming = eng[e].incoming
      /\ r.clean = eng[e].clean
      /\ r.goal = eng[e].goal
      /\ r.last = eng[e].last
  BY <1>1 DEF EngineState
<1> HIDE DEF r
<1>6. eng' \in [Engine -> EngineState] /\ eng'[e] = r /\ Others(e)
  BY <1>3, <1>4, EngineUpdate DEF Others
<1>7. TypeOK'
  BY <1>6 DEF TypeOK, StoreTypeOK, PullMissingMetadata, storeVars
<1> QED BY <1>0, <1>5, <1>6, <1>7

LEMMA UpsertType ==
  ASSUME StoreTypeOK, NEW n \in Node, NEW c \in Conv, NEW k \in Nat \cup {NoRow},
         UpsertConversationMetadata(n, c, k)
  PROVE  count' \in [Node -> [Conv -> Nat \cup {NoRow}]]
BY DEF UpsertConversationMetadata, StoreTypeOK

LEMMA UpsertEffect ==
  ASSUME TypeOK, SyncAssumption, NEW e \in Engine, UpsertOne(e)
  PROVE  /\ TypeOK' /\ Others(e)
         /\ \E m \in eng[e].metas :
              /\ eng'[e].pc = eng[e].pc
              /\ eng'[e].vv = eng[e].vv
              /\ eng'[e].i = eng[e].i
              /\ eng'[e].j = eng[e].j
              /\ eng'[e].remote = eng[e].remote
              /\ eng'[e].missing = eng[e].missing
              /\ eng'[e].metas = eng[e].metas \ {m}
              /\ eng'[e].pulled = eng[e].pulled \cup {m.conv}
              /\ eng'[e].todo = eng[e].todo
              /\ eng'[e].cur = eng[e].cur
              /\ eng'[e].known = eng[e].known
              /\ eng'[e].incoming = eng[e].incoming
              /\ eng'[e].clean = eng[e].clean
              /\ eng'[e].goal = eng[e].goal
              /\ eng'[e].last = eng[e].last
              /\ UpsertConversationMetadata(Me(e), m.conv, m.count)
<1>0. PICK m \in eng[e].metas :
        /\ UpsertConversationMetadata(Me(e), m.conv, m.count)
        /\ eng' = [eng EXCEPT ![e] = [eng[e] EXCEPT !.metas = eng[e].metas \ {m},
                                         !.pulled = eng[e].pulled \cup {m.conv}]]
  BY DEF UpsertOne
<1> DEFINE r == [eng[e] EXCEPT
                   !.metas = eng[e].metas \ {m},
                   !.pulled = eng[e].pulled \cup {m.conv}]
<1>1. eng[e] \in EngineState /\ Me(e) \in Node
  BY EngineTypes
<1>2. m.conv \in Conv /\ m.count \in Nat
  BY <1>1 DEF EngineState, MetaRecord
<1>21. count' \in [Node -> [Conv -> Nat \cup {NoRow}]]
  BY <1>0, <1>1, <1>2, UpsertType DEF TypeOK
<1>3. r \in EngineState
  BY <1>1, <1>2 DEF EngineState
<1>4. eng' = [eng EXCEPT ![e] = r]
  BY <1>0 DEF UpsertOne
<1>5. /\ r.pc = eng[e].pc
      /\ r.vv = eng[e].vv
      /\ r.i = eng[e].i
      /\ r.j = eng[e].j
      /\ r.remote = eng[e].remote
      /\ r.missing = eng[e].missing
      /\ r.metas = eng[e].metas \ {m}
      /\ r.pulled = eng[e].pulled \cup {m.conv}
      /\ r.todo = eng[e].todo
      /\ r.cur = eng[e].cur
      /\ r.known = eng[e].known
      /\ r.incoming = eng[e].incoming
      /\ r.clean = eng[e].clean
      /\ r.goal = eng[e].goal
      /\ r.last = eng[e].last
  BY <1>1 DEF EngineState
<1> HIDE DEF r
<1>6. eng' \in [Engine -> EngineState] /\ eng'[e] = r /\ Others(e)
  BY <1>3, <1>4, EngineUpdate DEF Others
<1>7. TypeOK'
  BY <1>6, <1>21 DEF TypeOK, StoreTypeOK, UpsertOne
<1> QED BY <1>0, <1>5, <1>6, <1>7

\* The vector FinishPeer leaves behind.
MergedVector(e) ==
  LET merged == Merge(eng[e].vv, eng[e].remote) IN
  IF eng[e].missing
  THEN [merged EXCEPT ![SelfOrigin[e]] = merged[SelfOrigin[e]] + 1]
  ELSE merged

LEMMA FinishPeerEffect ==
  ASSUME TypeOK, SyncAssumption, NEW e \in Engine, FinishPeer(e)
  PROVE  /\ TypeOK' /\ Others(e)
         /\ eng'[e].pc = IF LastPeer(e) THEN "choose" ELSE "exchange"
         /\ eng'[e].vv = MergedVector(e)
         /\ eng'[e].i = IF LastPeer(e) THEN eng[e].i ELSE eng[e].i + 1
         /\ eng'[e].j = eng[e].j
         /\ eng'[e].remote = ZeroVector
         /\ eng'[e].missing = FALSE
         /\ eng'[e].metas = eng[e].metas
         /\ eng'[e].pulled = IF LastPeer(e) THEN {} ELSE eng[e].pulled
         /\ eng'[e].todo = IF LastPeer(e) THEN eng[e].pulled ELSE {}
         /\ eng'[e].cur = eng[e].cur
         /\ eng'[e].known = eng[e].known
         /\ eng'[e].incoming = eng[e].incoming
         /\ eng'[e].clean = eng[e].clean
         /\ eng'[e].goal = eng[e].goal
         /\ eng'[e].last = eng[e].last
<1> DEFINE r == [eng[e] EXCEPT
                   !.vv = MergedVector(e),
                   !.pc = IF LastPeer(e) THEN "choose" ELSE "exchange",
                   !.i = IF LastPeer(e) THEN eng[e].i ELSE eng[e].i + 1,
                   !.todo = IF LastPeer(e) THEN eng[e].pulled ELSE {},
                   !.pulled = IF LastPeer(e) THEN {} ELSE eng[e].pulled,
                   !.remote = ZeroVector,
                   !.missing = FALSE]
<1>1. eng[e] \in EngineState /\ Me(e) \in Node
  BY EngineTypes
<1>20. Merge(eng[e].vv, eng[e].remote) \in Vector
  BY <1>1, MergeType DEF EngineState
<1>21. MergedVector(e) \in Vector
  BY <1>20 DEF MergedVector, Vector, SyncAssumption
<1>2. /\ (IF LastPeer(e) THEN "choose" ELSE "exchange") \in Pcs
      /\ (IF LastPeer(e) THEN eng[e].i ELSE eng[e].i + 1) \in Nat
      /\ (IF LastPeer(e) THEN eng[e].pulled ELSE {}) \in SUBSET Conv
      /\ (IF LastPeer(e) THEN {} ELSE eng[e].pulled) \in SUBSET Conv
  BY <1>1 DEF EngineState, Pcs
<1>3. r \in EngineState
  BY <1>1, <1>2, <1>21, ZeroVectorType DEF EngineState
<1>4. eng' = [eng EXCEPT ![e] = r]
  BY DEF FinishPeer, MergedVector
<1>5. /\ r.pc = IF LastPeer(e) THEN "choose" ELSE "exchange"
      /\ r.vv = MergedVector(e)
      /\ r.i = IF LastPeer(e) THEN eng[e].i ELSE eng[e].i + 1
      /\ r.j = eng[e].j
      /\ r.remote = ZeroVector
      /\ r.missing = FALSE
      /\ r.metas = eng[e].metas
      /\ r.pulled = IF LastPeer(e) THEN {} ELSE eng[e].pulled
      /\ r.todo = IF LastPeer(e) THEN eng[e].pulled ELSE {}
      /\ r.cur = eng[e].cur
      /\ r.known = eng[e].known
      /\ r.incoming = eng[e].incoming
      /\ r.clean = eng[e].clean
      /\ r.goal = eng[e].goal
      /\ r.last = eng[e].last
  BY <1>1 DEF EngineState
<1> HIDE DEF r
<1>6. eng' \in [Engine -> EngineState] /\ eng'[e] = r /\ Others(e)
  BY <1>3, <1>4, EngineUpdate DEF Others
<1>7. TypeOK'
  BY <1>6 DEF TypeOK, StoreTypeOK, FinishPeer, storeVars
<1> QED BY <1>5, <1>6, <1>7

LEMMA SyncFailsEffect ==
  ASSUME TypeOK, SyncAssumption, NEW e \in Engine, SyncFails(e)
  PROVE  /\ TypeOK' /\ Others(e)
         /\ eng'[e].pc = "idle"
         /\ eng'[e].vv = eng[e].vv
         /\ eng'[e].i = 0
         /\ eng'[e].j = 0
         /\ eng'[e].remote = ZeroVector
         /\ eng'[e].missing = FALSE
         /\ eng'[e].metas = {}
         /\ eng'[e].pulled = {}
         /\ eng'[e].todo = {}
         /\ eng'[e].cur = NoConv
         /\ eng'[e].known = {}
         /\ eng'[e].incoming = {}
         /\ eng'[e].clean = TRUE
         /\ eng'[e].goal = {}
         /\ eng'[e].last = "failed"
<1> DEFINE r == [IdleEngine EXCEPT
                   !.vv = eng[e].vv,
                   !.last = "failed"]
<1>1. eng[e] \in EngineState /\ Me(e) \in Node
  BY EngineTypes
<1>2. "failed" \in Outcomes
  BY DEF Outcomes
<1>3. r \in EngineState
  BY <1>1, <1>2, IdleEngineType DEF EngineState
<1>4. eng' = [eng EXCEPT ![e] = r]
  BY DEF SyncFails
<1>5. /\ r.pc = "idle"
      /\ r.vv = eng[e].vv
      /\ r.i = 0
      /\ r.j = 0
      /\ r.remote = ZeroVector
      /\ r.missing = FALSE
      /\ r.metas = {}
      /\ r.pulled = {}
      /\ r.todo = {}
      /\ r.cur = NoConv
      /\ r.known = {}
      /\ r.incoming = {}
      /\ r.clean = TRUE
      /\ r.goal = {}
      /\ r.last = "failed"
  BY <1>1 DEF EngineState, IdleEngine
<1> HIDE DEF r
<1>6. eng' \in [Engine -> EngineState] /\ eng'[e] = r /\ Others(e)
  BY <1>3, <1>4, EngineUpdate DEF Others
<1>7. TypeOK'
  BY <1>6 DEF TypeOK, StoreTypeOK, SyncFails, storeVars
<1> QED BY <1>5, <1>6, <1>7

LEMMA ChooseEffect ==
  ASSUME TypeOK, SyncAssumption, NEW e \in Engine, ChooseConversation(e)
  PROVE  /\ TypeOK' /\ Others(e)
         /\ \E c \in eng[e].todo :
              /\ eng'[e].pc = "messages"
              /\ eng'[e].vv = eng[e].vv
              /\ eng'[e].i = 1
              /\ eng'[e].j = eng[e].j
              /\ eng'[e].remote = eng[e].remote
              /\ eng'[e].missing = eng[e].missing
              /\ eng'[e].metas = eng[e].metas
              /\ eng'[e].pulled = eng[e].pulled
              /\ eng'[e].todo = eng[e].todo \ {c}
              /\ eng'[e].cur = c
              /\ eng'[e].known = GetMessages(Me(e), c)
              /\ eng'[e].incoming = eng[e].incoming
              /\ eng'[e].clean = eng[e].clean
              /\ eng'[e].goal = eng[e].goal
              /\ eng'[e].last = eng[e].last
<1>0. PICK c \in eng[e].todo :
        eng' = [eng EXCEPT ![e] = [eng[e] EXCEPT !.pc = "messages", !.i = 1,
                          !.todo = eng[e].todo \ {c}, !.cur = c,
                          !.known = GetMessages(Me(e), c)]]
  BY DEF ChooseConversation
<1> DEFINE r == [eng[e] EXCEPT
                   !.pc = "messages",
                   !.i = 1,
                   !.todo = eng[e].todo \ {c},
                   !.cur = c,
                   !.known = GetMessages(Me(e), c)]
<1>1. eng[e] \in EngineState /\ Me(e) \in Node
  BY EngineTypes
<1>2. c \in Conv
  BY <1>1 DEF EngineState
<1>21. GetMessages(Me(e), c) \subseteq Message /\ "messages" \in Pcs
  BY EngineTypes DEF GetMessages, MessagesOf, Pcs
<1>3. r \in EngineState
  BY <1>1, <1>2, <1>21 DEF EngineState
<1>4. eng' = [eng EXCEPT ![e] = r]
  BY <1>0 DEF ChooseConversation
<1>5. /\ r.pc = "messages"
      /\ r.vv = eng[e].vv
      /\ r.i = 1
      /\ r.j = eng[e].j
      /\ r.remote = eng[e].remote
      /\ r.missing = eng[e].missing
      /\ r.metas = eng[e].metas
      /\ r.pulled = eng[e].pulled
      /\ r.todo = eng[e].todo \ {c}
      /\ r.cur = c
      /\ r.known = GetMessages(Me(e), c)
      /\ r.incoming = eng[e].incoming
      /\ r.clean = eng[e].clean
      /\ r.goal = eng[e].goal
      /\ r.last = eng[e].last
  BY <1>1 DEF EngineState
<1> HIDE DEF r
<1>6. eng' \in [Engine -> EngineState] /\ eng'[e] = r /\ Others(e)
  BY <1>3, <1>4, EngineUpdate DEF Others
<1>7. TypeOK'
  BY <1>6 DEF TypeOK, StoreTypeOK, ChooseConversation, storeVars
<1> QED BY <1>0, <1>5, <1>6, <1>7

LEMMA NextPeerFields ==
  ASSUME NEW e \in Engine, NEW s \in EngineState
  PROVE  /\ NextPeer(e, s).pc = IF LastPeer(e) THEN "choose" ELSE "messages"
         /\ NextPeer(e, s).i = IF LastPeer(e) THEN s.i ELSE s.i + 1
         /\ NextPeer(e, s).cur = IF LastPeer(e) THEN NoConv ELSE s.cur
         /\ NextPeer(e, s).known = IF LastPeer(e) THEN {} ELSE s.known
         /\ NextPeer(e, s).incoming = {}
         /\ NextPeer(e, s).vv = s.vv
         /\ NextPeer(e, s).j = s.j
         /\ NextPeer(e, s).remote = s.remote
         /\ NextPeer(e, s).missing = s.missing
         /\ NextPeer(e, s).metas = s.metas
         /\ NextPeer(e, s).pulled = s.pulled
         /\ NextPeer(e, s).todo = s.todo
         /\ NextPeer(e, s).clean = s.clean
         /\ NextPeer(e, s).goal = s.goal
         /\ NextPeer(e, s).last = s.last
<1>1. CASE LastPeer(e)
  BY <1>1 DEF NextPeer, EngineState
<1>2. CASE ~LastPeer(e)
  BY <1>2 DEF NextPeer, EngineState
<1> QED BY <1>1, <1>2

\* What an action that moves on to the next peer does.
MovesOn(e) ==
  /\ Others(e)
  /\ eng'[e].pc = IF LastPeer(e) THEN "choose" ELSE "messages"
  /\ eng'[e].vv = eng[e].vv
  /\ eng'[e].i = IF LastPeer(e) THEN eng[e].i ELSE eng[e].i + 1
  /\ eng'[e].j = eng[e].j
  /\ eng'[e].remote = eng[e].remote
  /\ eng'[e].missing = eng[e].missing
  /\ eng'[e].metas = eng[e].metas
  /\ eng'[e].pulled = eng[e].pulled
  /\ eng'[e].todo = eng[e].todo
  /\ eng'[e].cur = IF LastPeer(e) THEN NoConv ELSE eng[e].cur
  /\ eng'[e].known = IF LastPeer(e) THEN {} ELSE eng[e].known
  /\ eng'[e].incoming = {}
  /\ eng'[e].goal = eng[e].goal
  /\ eng'[e].last = eng[e].last

LEMMA PullMessagesEffect ==
  ASSUME TypeOK, SyncAssumption, NEW e \in Engine, IndexAt(e), PullMissingMessages(e)
  PROVE  LET missing == GetMessages(Peer(e), eng[e].cur) \ eng[e].known IN
         /\ TypeOK' /\ Others(e)
         /\ \/ missing = {} /\ MovesOn(e) /\ eng'[e].clean = eng[e].clean
            \/ /\ missing # {}
               /\ eng'[e].pc = "insert"
               /\ eng'[e].vv = eng[e].vv
               /\ eng'[e].i = eng[e].i
               /\ eng'[e].j = eng[e].j
               /\ eng'[e].remote = eng[e].remote
               /\ eng'[e].missing = eng[e].missing
               /\ eng'[e].metas = eng[e].metas
               /\ eng'[e].pulled = eng[e].pulled
               /\ eng'[e].todo = eng[e].todo
               /\ eng'[e].cur = eng[e].cur
               /\ eng'[e].known = eng[e].known
               /\ eng'[e].incoming = missing
               /\ eng'[e].clean = eng[e].clean
               /\ eng'[e].goal = eng[e].goal
               /\ eng'[e].last = eng[e].last
<1> DEFINE missing == GetMessages(Peer(e), eng[e].cur) \ eng[e].known
           r == [eng[e] EXCEPT !.pc = "insert", !.incoming = missing]
<1>1. eng[e] \in EngineState /\ "insert" \in Pcs
  BY EngineTypes DEF Pcs
<1>2. Peer(e) \in Node
  BY EngineTypes DEF PullMissingMessages, IndexAt, Peer
<1>3. missing \subseteq Message
  BY <1>2 DEF GetMessages, MessagesOf, TypeOK, StoreTypeOK
<1>4. \/ missing = {} /\ eng' = [eng EXCEPT ![e] = NextPeer(e, eng[e])]
      \/ missing # {} /\ eng' = [eng EXCEPT ![e] = r]
  BY DEF PullMissingMessages
<1> HIDE DEF missing
<1>5. /\ r \in EngineState
      /\ r.pc = "insert"
      /\ r.vv = eng[e].vv
      /\ r.i = eng[e].i
      /\ r.j = eng[e].j
      /\ r.remote = eng[e].remote
      /\ r.missing = eng[e].missing
      /\ r.metas = eng[e].metas
      /\ r.pulled = eng[e].pulled
      /\ r.todo = eng[e].todo
      /\ r.cur = eng[e].cur
      /\ r.known = eng[e].known
      /\ r.incoming = missing
      /\ r.clean = eng[e].clean
      /\ r.goal = eng[e].goal
      /\ r.last = eng[e].last
  BY <1>1, <1>3 DEF EngineState
<1> HIDE DEF r
<1>6. CASE missing = {} /\ eng' = [eng EXCEPT ![e] = NextPeer(e, eng[e])]
  <2>1. eng' \in [Engine -> EngineState] /\ eng'[e] = NextPeer(e, eng[e]) /\ Others(e)
    BY <1>1, <1>6, NextPeerType, EngineUpdate DEF Others
  <2>2. TypeOK'
    BY <2>1 DEF TypeOK, StoreTypeOK, PullMissingMessages, storeVars
  <2>3. MovesOn(e) /\ eng'[e].clean = eng[e].clean
    BY <1>1, <2>1, NextPeerFields DEF MovesOn
  <2> QED BY <1>6, <2>1, <2>2, <2>3 DEF missing
<1>7. CASE missing # {} /\ eng' = [eng EXCEPT ![e] = r]
  <2>1. eng' \in [Engine -> EngineState] /\ eng'[e] = r /\ Others(e)
    BY <1>5, <1>7, EngineUpdate DEF Others
  <2>2. TypeOK'
    BY <2>1 DEF TypeOK, StoreTypeOK, PullMissingMessages, storeVars
  <2> QED BY <1>5, <1>7, <2>1, <2>2 DEF missing
<1> QED BY <1>4, <1>6, <1>7

LEMMA PullFailsEffect ==
  ASSUME TypeOK, SyncAssumption, NEW e \in Engine, PullMessagesFails(e)
  PROVE  TypeOK' /\ MovesOn(e) /\ eng'[e].clean = FALSE
<1> DEFINE s == [eng[e] EXCEPT !.clean = FALSE]
<1>1. eng[e] \in EngineState
  BY EngineTypes
<1>2. /\ s \in EngineState /\ s.clean = FALSE
      /\ s.i = eng[e].i /\ s.cur = eng[e].cur /\ s.known = eng[e].known
      /\ s.vv = eng[e].vv /\ s.j = eng[e].j /\ s.remote = eng[e].remote
      /\ s.missing = eng[e].missing /\ s.metas = eng[e].metas
      /\ s.pulled = eng[e].pulled /\ s.todo = eng[e].todo /\ s.goal = eng[e].goal
      /\ s.last = eng[e].last
  BY <1>1 DEF EngineState
<1>3. eng' = [eng EXCEPT ![e] = NextPeer(e, s)]
  BY DEF PullMessagesFails
<1> HIDE DEF s
<1>4. eng' \in [Engine -> EngineState] /\ eng'[e] = NextPeer(e, s) /\ Others(e)
  BY <1>2, <1>3, NextPeerType, EngineUpdate DEF Others
<1>5. TypeOK'
  BY <1>4 DEF TypeOK, StoreTypeOK, PullMessagesFails, storeVars
<1> QED BY <1>2, <1>4, <1>5, NextPeerFields DEF MovesOn

LEMMA InsertEffect ==
  ASSUME TypeOK, SyncAssumption, NEW e \in Engine, StoreAssumption, InsertMessages(e)
  PROVE  /\ TypeOK' /\ Others(e)
         /\ eng'[e].pc = "blobs"
         /\ eng'[e].vv = eng[e].vv
         /\ eng'[e].i = eng[e].i
         /\ eng'[e].j = 1
         /\ eng'[e].remote = eng[e].remote
         /\ eng'[e].missing = eng[e].missing
         /\ eng'[e].metas = eng[e].metas
         /\ eng'[e].pulled = eng[e].pulled
         /\ eng'[e].todo = eng[e].todo
         /\ eng'[e].cur = eng[e].cur
         /\ eng'[e].known = eng[e].known
         /\ eng'[e].incoming = eng[e].incoming
         /\ eng'[e].clean = eng[e].clean
         /\ eng'[e].goal = eng[e].goal
         /\ eng'[e].last = eng[e].last
         /\ InsertMessagesIfAbsent(Me(e), eng[e].incoming)
<1> DEFINE r == [eng[e] EXCEPT
                   !.pc = "blobs",
                   !.j = 1,
                   !.hashes = UNION {AttachmentsOf[m] : m \in eng[e].incoming}]
<1>1. eng[e] \in EngineState /\ Me(e) \in Node
  BY EngineTypes
<1>20. eng[e].incoming \subseteq Message /\ "blobs" \in Pcs
  BY <1>1 DEF EngineState, Pcs
<1>2. UNION {AttachmentsOf[m] : m \in eng[e].incoming} \subseteq Hash
  BY <1>20 DEF StoreAssumption
<1>21. /\ rows' \in [Node -> SUBSET Message]
       /\ count' \in [Node -> [Conv -> Nat \cup {NoRow}]]
  BY <1>1, <1>20, InsertType DEF InsertMessages, TypeOK
<1>3. r \in EngineState
  BY <1>1, <1>2, <1>20 DEF EngineState
<1>4. eng' = [eng EXCEPT ![e] = r]
  BY DEF InsertMessages
<1>5. /\ r.pc = "blobs"
      /\ r.vv = eng[e].vv
      /\ r.i = eng[e].i
      /\ r.j = 1
      /\ r.remote = eng[e].remote
      /\ r.missing = eng[e].missing
      /\ r.metas = eng[e].metas
      /\ r.pulled = eng[e].pulled
      /\ r.todo = eng[e].todo
      /\ r.cur = eng[e].cur
      /\ r.known = eng[e].known
      /\ r.incoming = eng[e].incoming
      /\ r.clean = eng[e].clean
      /\ r.goal = eng[e].goal
      /\ r.last = eng[e].last
  BY <1>1 DEF EngineState
<1> HIDE DEF r
<1>6. eng' \in [Engine -> EngineState] /\ eng'[e] = r /\ Others(e)
  BY <1>3, <1>4, EngineUpdate DEF Others
<1>7. TypeOK'
  BY <1>6, <1>21 DEF TypeOK, StoreTypeOK, InsertMessages
<1> QED BY <1>5, <1>6, <1>7 DEF InsertMessages

LEMMA AttachmentsDoneEffect ==
  ASSUME TypeOK, SyncAssumption, NEW e \in Engine, AttachmentsDone(e)
  PROVE  TypeOK' /\ MovesOn(e) /\ eng'[e].clean = eng[e].clean
<1> DEFINE s == eng[e]
<1>1. eng[e] \in EngineState
  BY EngineTypes
<1>2. /\ s \in EngineState /\ s.clean = eng[e].clean
      /\ s.i = eng[e].i /\ s.cur = eng[e].cur /\ s.known = eng[e].known
      /\ s.vv = eng[e].vv /\ s.j = eng[e].j /\ s.remote = eng[e].remote
      /\ s.missing = eng[e].missing /\ s.metas = eng[e].metas
      /\ s.pulled = eng[e].pulled /\ s.todo = eng[e].todo /\ s.goal = eng[e].goal
      /\ s.last = eng[e].last
  BY <1>1 DEF EngineState
<1>3. eng' = [eng EXCEPT ![e] = NextPeer(e, s)]
  BY DEF AttachmentsDone
<1> HIDE DEF s
<1>4. eng' \in [Engine -> EngineState] /\ eng'[e] = NextPeer(e, s) /\ Others(e)
  BY <1>2, <1>3, NextPeerType, EngineUpdate DEF Others
<1>5. TypeOK'
  BY <1>4 DEF TypeOK, StoreTypeOK, AttachmentsDone, storeVars
<1> QED BY <1>2, <1>4, <1>5, NextPeerFields DEF MovesOn

\* What a step on an attachment leaves alone.
BlobStep(e) ==
  /\ Others(e)
  /\ eng'[e].pc = eng[e].pc
  /\ eng'[e].vv = eng[e].vv
  /\ eng'[e].i = eng[e].i
  /\ eng'[e].remote = eng[e].remote
  /\ eng'[e].missing = eng[e].missing
  /\ eng'[e].metas = eng[e].metas
  /\ eng'[e].pulled = eng[e].pulled
  /\ eng'[e].todo = eng[e].todo
  /\ eng'[e].cur = eng[e].cur
  /\ eng'[e].known = eng[e].known
  /\ eng'[e].incoming = eng[e].incoming
  /\ eng'[e].goal = eng[e].goal
  /\ eng'[e].last = eng[e].last
  /\ eng'[e].clean => eng[e].clean
  /\ eng'[e].j \in {1, eng[e].j, eng[e].j + 1}
  /\ eng'[e].j = eng[e].j + 1 => eng[e].j = 0 \/ eng[e].j < Len(PeersOf[e])

LEMMA TryNextType ==
  ASSUME NEW e \in Engine, eng[e] \in EngineState
  PROVE  TryNextBlobPeer(e) \in EngineState
<1>1. [eng[e] EXCEPT !.j = @ + 1] \in EngineState
  <2>1. eng[e].j + 1 \in Nat
    BY DEF EngineState
  <2> QED BY <2>1 DEF EngineState
<1>2. [eng[e] EXCEPT !.j = 1, !.hashes = eng[e].hashes \ {CurrentHash(e)}] \in EngineState
  BY DEF EngineState
<1> QED BY <1>1, <1>2 DEF TryNextBlobPeer

LEMMA CurrentHashType ==
  ASSUME NEW e \in Engine, eng[e] \in EngineState, eng[e].hashes # {}
  PROVE  CurrentHash(e) \in Hash
<1>1. CurrentHash(e) \in eng[e].hashes
  BY DEF CurrentHash
<1> QED BY <1>1 DEF EngineState

\* Records that differ from eng[e] in the attachment fields only.
Similar(e, r) ==
  /\ r \in EngineState
  /\ r.pc = eng[e].pc
  /\ r.vv = eng[e].vv
  /\ r.i = eng[e].i
  /\ r.remote = eng[e].remote
  /\ r.missing = eng[e].missing
  /\ r.metas = eng[e].metas
  /\ r.pulled = eng[e].pulled
  /\ r.todo = eng[e].todo
  /\ r.cur = eng[e].cur
  /\ r.known = eng[e].known
  /\ r.incoming = eng[e].incoming
  /\ r.goal = eng[e].goal
  /\ r.last = eng[e].last
  /\ r.clean => eng[e].clean
  /\ r.j \in {1, eng[e].j, eng[e].j + 1}
  /\ r.j = eng[e].j + 1 => eng[e].j = 0 \/ eng[e].j < Len(PeersOf[e])

LEMMA BlobUpdate ==
  ASSUME TypeOK, NEW e \in Engine, NEW r, Similar(e, r), eng' = [eng EXCEPT ![e] = r]
  PROVE  BlobStep(e) /\ eng' \in [Engine -> EngineState]
<1>1. r \in EngineState
  BY DEF Similar
<1>2. eng' \in [Engine -> EngineState] /\ eng'[e] = r /\ Others(e)
  BY <1>1, EngineUpdate DEF Others
<1> QED BY <1>2 DEF BlobStep, Similar

LEMMA DropHash ==
  ASSUME NEW e \in Engine, eng[e] \in EngineState, NEW h
  PROVE  /\ Similar(e, [eng[e] EXCEPT !.hashes = eng[e].hashes \ {h}])
         /\ Similar(e, [eng[e] EXCEPT !.j = 1, !.hashes = eng[e].hashes \ {h}])
<1> DEFINE r == [eng[e] EXCEPT !.hashes = eng[e].hashes \ {h}]
           q == [eng[e] EXCEPT !.j = 1, !.hashes = eng[e].hashes \ {h}]
<1>1. r \in EngineState /\ q \in EngineState
  BY DEF EngineState
<1>2. /\ r.j = eng[e].j /\ r.clean = eng[e].clean
      /\ r.pc = eng[e].pc
      /\ r.vv = eng[e].vv
      /\ r.i = eng[e].i
      /\ r.remote = eng[e].remote
      /\ r.missing = eng[e].missing
      /\ r.metas = eng[e].metas
      /\ r.pulled = eng[e].pulled
      /\ r.todo = eng[e].todo
      /\ r.cur = eng[e].cur
      /\ r.known = eng[e].known
      /\ r.incoming = eng[e].incoming
      /\ r.goal = eng[e].goal
      /\ r.last = eng[e].last
  BY DEF EngineState
<1>3. /\ q.j = 1 /\ q.clean = eng[e].clean
      /\ q.pc = eng[e].pc
      /\ q.vv = eng[e].vv
      /\ q.i = eng[e].i
      /\ q.remote = eng[e].remote
      /\ q.missing = eng[e].missing
      /\ q.metas = eng[e].metas
      /\ q.pulled = eng[e].pulled
      /\ q.todo = eng[e].todo
      /\ q.cur = eng[e].cur
      /\ q.known = eng[e].known
      /\ q.incoming = eng[e].incoming
      /\ q.goal = eng[e].goal
      /\ q.last = eng[e].last
  BY DEF EngineState
<1>4. eng[e].j \in Nat
  BY DEF EngineState
<1> HIDE DEF r, q
<1>5. Similar(e, r)
  BY <1>1, <1>2, <1>4 DEF Similar
<1>6. Similar(e, q)
  BY <1>1, <1>3, <1>4 DEF Similar
<1> QED BY <1>5, <1>6 DEF r, q

LEMMA TryNextSimilar ==
  ASSUME NEW e \in Engine, eng[e] \in EngineState
  PROVE  Similar(e, TryNextBlobPeer(e))
<1> DEFINE r == [eng[e] EXCEPT !.j = eng[e].j + 1]
<1>1. CASE eng[e].j < Len(PeersOf[e])
  <2>1. TryNextBlobPeer(e) = r
    BY <1>1 DEF TryNextBlobPeer
  <2>2. r \in EngineState
    BY <2>1, TryNextType
  <2>3. /\ r.j = eng[e].j + 1 /\ r.clean = eng[e].clean
        /\ r.pc = eng[e].pc
        /\ r.vv = eng[e].vv
        /\ r.i = eng[e].i
        /\ r.remote = eng[e].remote
        /\ r.missing = eng[e].missing
        /\ r.metas = eng[e].metas
        /\ r.pulled = eng[e].pulled
        /\ r.todo = eng[e].todo
        /\ r.cur = eng[e].cur
        /\ r.known = eng[e].known
        /\ r.incoming = eng[e].incoming
        /\ r.goal = eng[e].goal
        /\ r.last = eng[e].last
    BY DEF EngineState
  <2> HIDE DEF r
  <2> QED BY <1>1, <2>1, <2>2, <2>3 DEF Similar
<1>2. CASE ~(eng[e].j < Len(PeersOf[e]))
  BY <1>2, DropHash DEF TryNextBlobPeer
<1> QED BY <1>1, <1>2

LEMMA SkipEffect ==
  ASSUME TypeOK, SyncAssumption, NEW e \in Engine, SkipAttachment(e)
  PROVE  TypeOK' /\ BlobStep(e)
<1>1. eng[e] \in EngineState
  BY EngineTypes
<1>2. eng' = [eng EXCEPT ![e] = [eng[e] EXCEPT !.hashes = eng[e].hashes \ {CurrentHash(e)}]]
  BY DEF SkipAttachment
<1>3. BlobStep(e) /\ eng' \in [Engine -> EngineState]
  BY <1>1, <1>2, DropHash, BlobUpdate
<1> QED BY <1>3 DEF TypeOK, StoreTypeOK, SkipAttachment, storeVars

LEMMA PullAttachmentEffect ==
  ASSUME TypeOK, SyncAssumption, NEW e \in Engine, PullAttachment(e)
  PROVE  TypeOK' /\ BlobStep(e)
<1> DEFINE h == CurrentHash(e)
<1>1. eng[e] \in EngineState /\ Me(e) \in Node
  BY EngineTypes
<1>2. h \in Hash
  BY <1>1, CurrentHashType DEF PullAttachment, WantsBlob
<1>3. blobs' \in [Node -> SUBSET Hash]
  <2>1. UNCHANGED blobs \/ SaveAttachment(Me(e), h)
    BY DEF PullAttachment
  <2> HIDE DEF h
  <2> QED BY <1>1, <1>2, <2>1 DEF SaveAttachment, TypeOK, StoreTypeOK
<1>4. \/ eng' = [eng EXCEPT ![e] = [eng[e] EXCEPT !.j = 1, !.hashes = eng[e].hashes \ {h}]]
      \/ eng' = [eng EXCEPT ![e] = TryNextBlobPeer(e)]
  BY DEF PullAttachment
<1> HIDE DEF h
<1>5. BlobStep(e) /\ eng' \in [Engine -> EngineState]
  BY <1>1, <1>4, DropHash, TryNextSimilar, BlobUpdate
<1> QED BY <1>3, <1>5 DEF TypeOK, StoreTypeOK, PullAttachment

LEMMA PullAttachmentFailsEffect ==
  ASSUME TypeOK, SyncAssumption, NEW e \in Engine, PullAttachmentFails(e)
  PROVE  TypeOK' /\ BlobStep(e)
<1> DEFINE t == TryNextBlobPeer(e)
           r == [t EXCEPT !.clean = FALSE]
<1>1. eng[e] \in EngineState
  BY EngineTypes
<1>2. Similar(e, t)
  BY <1>1, TryNextSimilar
<1>3. eng' = [eng EXCEPT ![e] = r]
  BY DEF PullAttachmentFails
<1> HIDE DEF t
<1>4. t \in EngineState
  BY <1>2 DEF Similar
<1>5. /\ r \in EngineState /\ r.j = t.j /\ r.clean = FALSE
      /\ r.pc = t.pc
      /\ r.vv = t.vv
      /\ r.i = t.i
      /\ r.remote = t.remote
      /\ r.missing = t.missing
      /\ r.metas = t.metas
      /\ r.pulled = t.pulled
      /\ r.todo = t.todo
      /\ r.cur = t.cur
      /\ r.known = t.known
      /\ r.incoming = t.incoming
      /\ r.goal = t.goal
      /\ r.last = t.last
  BY <1>4 DEF EngineState
<1> HIDE DEF r
<1>6. Similar(e, r)
  BY <1>2, <1>5 DEF Similar
<1>7. BlobStep(e) /\ eng' \in [Engine -> EngineState]
  BY <1>3, <1>6, BlobUpdate
<1> QED BY <1>7 DEF TypeOK, StoreTypeOK, PullAttachmentFails, storeVars

LEMMA ListEffect ==
  ASSUME TypeOK, SyncAssumption, NEW e \in Engine, ListForAntiEntropy(e)
  PROVE  /\ TypeOK' /\ Others(e)
         /\ \E listed \in ListConversations(Me(e), ListLimit) :
              /\ eng'[e].pc = eng[e].pc
              /\ eng'[e].vv = eng[e].vv
              /\ eng'[e].i = eng[e].i
              /\ eng'[e].j = eng[e].j
              /\ eng'[e].remote = eng[e].remote
              /\ eng'[e].missing = eng[e].missing
              /\ eng'[e].metas = eng[e].metas
              /\ eng'[e].pulled = eng[e].pulled
              /\ eng'[e].todo = listed
              /\ eng'[e].cur = eng[e].cur
              /\ eng'[e].known = eng[e].known
              /\ eng'[e].incoming = eng[e].incoming
              /\ eng'[e].clean = eng[e].clean
              /\ eng'[e].goal = eng[e].goal
              /\ eng'[e].last = eng[e].last
<1>0. PICK listed \in ListConversations(Me(e), ListLimit) :
        eng' = [eng EXCEPT ![e] = [eng[e] EXCEPT !.todo = listed, !.anti = FALSE]]
  BY DEF ListForAntiEntropy
<1> DEFINE r == [eng[e] EXCEPT
                   !.todo = listed,
                   !.anti = FALSE]
<1>1. eng[e] \in EngineState /\ Me(e) \in Node
  BY EngineTypes
<1>2. listed \subseteq Conv
  BY <1>1, ListedInDirectory DEF Directory
<1>3. r \in EngineState
  BY <1>1, <1>2 DEF EngineState
<1>4. eng' = [eng EXCEPT ![e] = r]
  BY <1>0 DEF ListForAntiEntropy
<1>5. /\ r.pc = eng[e].pc
      /\ r.vv = eng[e].vv
      /\ r.i = eng[e].i
      /\ r.j = eng[e].j
      /\ r.remote = eng[e].remote
      /\ r.missing = eng[e].missing
      /\ r.metas = eng[e].metas
      /\ r.pulled = eng[e].pulled
      /\ r.todo = listed
      /\ r.cur = eng[e].cur
      /\ r.known = eng[e].known
      /\ r.incoming = eng[e].incoming
      /\ r.clean = eng[e].clean
      /\ r.goal = eng[e].goal
      /\ r.last = eng[e].last
  BY <1>1 DEF EngineState
<1> HIDE DEF r
<1>6. eng' \in [Engine -> EngineState] /\ eng'[e] = r /\ Others(e)
  BY <1>3, <1>4, EngineUpdate DEF Others
<1>7. TypeOK'
  BY <1>6 DEF TypeOK, StoreTypeOK, ListForAntiEntropy, storeVars
<1> QED BY <1>0, <1>5, <1>6, <1>7

LEMMA FinishEffect ==
  ASSUME TypeOK, SyncAssumption, NEW e \in Engine, FinishSync(e)
  PROVE  /\ TypeOK' /\ Others(e)
         /\ eng'[e].pc = "idle"
         /\ eng'[e].vv = eng[e].vv
         /\ eng'[e].i = 0
         /\ eng'[e].j = 0
         /\ eng'[e].remote = ZeroVector
         /\ eng'[e].missing = FALSE
         /\ eng'[e].metas = {}
         /\ eng'[e].pulled = {}
         /\ eng'[e].todo = {}
         /\ eng'[e].cur = NoConv
         /\ eng'[e].known = {}
         /\ eng'[e].incoming = {}
         /\ eng'[e].clean = TRUE
         /\ eng'[e].goal = eng[e].goal
         /\ eng'[e].last = IF eng[e].clean THEN "clean" ELSE "lossy"
<1> DEFINE r == [IdleEngine EXCEPT
                   !.vv = eng[e].vv,
                   !.goal = eng[e].goal,
                   !.last = IF eng[e].clean THEN "clean" ELSE "lossy"]
<1>1. eng[e] \in EngineState /\ Me(e) \in Node
  BY EngineTypes
<1>2. (IF eng[e].clean THEN "clean" ELSE "lossy") \in Outcomes
  BY DEF Outcomes
<1>3. r \in EngineState
  BY <1>1, <1>2, IdleEngineType DEF EngineState
<1>4. eng' = [eng EXCEPT ![e] = r]
  BY DEF FinishSync
<1>5. /\ r.pc = "idle"
      /\ r.vv = eng[e].vv
      /\ r.i = 0
      /\ r.j = 0
      /\ r.remote = ZeroVector
      /\ r.missing = FALSE
      /\ r.metas = {}
      /\ r.pulled = {}
      /\ r.todo = {}
      /\ r.cur = NoConv
      /\ r.known = {}
      /\ r.incoming = {}
      /\ r.clean = TRUE
      /\ r.goal = eng[e].goal
      /\ r.last = IF eng[e].clean THEN "clean" ELSE "lossy"
  BY <1>1 DEF EngineState, IdleEngine
<1> HIDE DEF r
<1>6. eng' \in [Engine -> EngineState] /\ eng'[e] = r /\ Others(e)
  BY <1>3, <1>4, EngineUpdate DEF Others
<1>7. TypeOK'
  BY <1>6 DEF TypeOK, StoreTypeOK, FinishSync, storeVars
<1> QED BY <1>5, <1>6, <1>7

LEMMA TypeDevice ==
  ASSUME TypeOK, SyncAssumption, StoreAssumption, NEW n \in Node, DeviceNext(n)
  PROVE  TypeOK'
<1>1. ASSUME NEW m \in Message, AuthorMessage(n, m)
      PROVE  TypeOK'
  <2>1. ConvOf[m] \in Conv /\ AttachmentsOf[m] \subseteq Hash
    BY DEF StoreAssumption
  <2>2. count' \in [Node -> [Conv -> Nat \cup {NoRow}]]
    BY <1>1, <2>1 DEF AuthorMessage, AppendMessage, TypeOK, StoreTypeOK, NoRow
  <2> QED BY <1>1, <2>1, <2>2 DEF AuthorMessage, AppendMessage, TypeOK, StoreTypeOK
<1>2. ASSUME NEW c \in Conv, OpenConversation(n, c)
      PROVE  TypeOK'
  BY <1>2, UpsertType DEF OpenConversation, TypeOK, StoreTypeOK
<1>3. ASSUME NEW q \in Node, NEW c \in Conv, RunTurnMetadata(n, q, c)
      PROVE  TypeOK'
  <2>1. count[q][c] \in Nat \cup {NoRow}
    BY DEF TypeOK, StoreTypeOK
  <2> QED BY <1>3, <2>1, UpsertType DEF RunTurnMetadata, TypeOK, StoreTypeOK
<1> QED BY <1>1, <1>2, <1>3 DEF DeviceNext

(***************************************************************************)
(* The stores only grow, and the author of a message never changes.        *)
(***************************************************************************)
StoreGrows ==
  /\ \A n \in Node : rows[n] \subseteq rows'[n] /\ Directory(n) \subseteq Directory(n)'
  /\ \A m \in Message : author[m] \in Node => author'[m] = author[m]

LEMMA UpsertGrows ==
  ASSUME StoreTypeOK, NEW n \in Node, NEW c \in Conv, NEW k \in Nat,
         UpsertConversationMetadata(n, c, k), UNCHANGED <<rows, author>>
  PROVE  StoreGrows /\ c \in Directory(n)'
<1>1. \A p \in Node, d \in Conv :
        count'[p][d] = IF p = n /\ d = c THEN k ELSE count[p][d]
  BY DEF UpsertConversationMetadata, StoreTypeOK
<1>2. k # NoRow
  BY DEF NoRow
<1> QED BY <1>1, <1>2 DEF StoreGrows, Directory

LEMMA AuthorGrows ==
  ASSUME TypeOK, SyncAssumption, StoreAssumption, NEW n \in Node, NEW m \in Message,
         AuthorMessage(n, m)
  PROVE  /\ StoreGrows
         /\ ConvOf[m] \in Directory(n)'
         /\ author'[m] = n /\ m \in rows'[n]
         /\ \A p \in Node : rows'[p] \subseteq rows[p] \cup {x \in {m} : p = n}
<1> DEFINE c == ConvOf[m]
           k == IF count[n][c] = NoRow THEN 1 ELSE count[n][c] + 1
<1>1. c \in Conv /\ count[n][c] \in Nat \cup {NoRow}
  BY DEF StoreAssumption, TypeOK, StoreTypeOK
<1>2. count' = [count EXCEPT ![n][c] = k]
  BY DEF AuthorMessage, AppendMessage
<1>3. k \in Nat /\ k # NoRow
  BY <1>1 DEF NoRow
<1> HIDE DEF c, k
<1>4. \A p \in Node, d \in Conv :
        count'[p][d] = IF p = n /\ d = c THEN k ELSE count[p][d]
  BY <1>1, <1>2 DEF TypeOK, StoreTypeOK
<1>5. \A p \in Node : Directory(p) \subseteq Directory(p)'
  BY <1>3, <1>4 DEF Directory
<1>6. c \in Directory(n)'
  BY <1>1, <1>3, <1>4 DEF Directory
<1>7. /\ author'[m] = n /\ author[m] = NoNode
      /\ \A x \in Message : x # m => author'[x] = author[x]
  BY DEF AuthorMessage, TypeOK
<1>8. \A p \in Node : rows'[p] = IF p = n THEN rows[p] \cup {m} ELSE rows[p]
  BY DEF AuthorMessage, AppendMessage, TypeOK, StoreTypeOK
<1> QED BY <1>5, <1>6, <1>7, <1>8 DEF StoreGrows, SyncAssumption, c

LEMMA InsertGrows ==
  ASSUME TypeOK, StoreAssumption, NEW n \in Node, NEW ms \in SUBSET Message,
         InsertMessagesIfAbsent(n, ms), UNCHANGED author
  PROVE  /\ StoreGrows
         /\ \A p \in Node : rows'[p] = IF p = n THEN rows[p] \cup ms ELSE rows[p]
<1> DEFINE after == rows[n] \cup ms
           row == [c \in Conv |-> IF c \in Affected(n, ms) /\ count[n][c] # NoRow
                                  THEN Cardinality(MessagesOf(after, c))
                                  ELSE count[n][c]]
<1>1. after \in SUBSET Message
  BY DEF TypeOK, StoreTypeOK
<1>2. \A c \in Conv : Cardinality(MessagesOf(after, c)) \in Nat
  BY <1>1, CountType
<1>3. \A c \in Conv : count[n][c] # NoRow => row[c] # NoRow
  <2> HIDE DEF after
  <2> QED BY <1>2 DEF NoRow
<1>4. count' = [count EXCEPT ![n] = row]
  BY DEF InsertMessagesIfAbsent
<1>5. rows' = [rows EXCEPT ![n] = after]
  BY DEF InsertMessagesIfAbsent
<1> HIDE DEF row
<1>6. \A p \in Node : count'[p] = IF p = n THEN row ELSE count[p]
  BY <1>4 DEF TypeOK, StoreTypeOK
<1>7. \A p \in Node : rows'[p] = IF p = n THEN after ELSE rows[p]
  BY <1>5 DEF TypeOK, StoreTypeOK
<1>8. \A p \in Node : Directory(p) \subseteq Directory(p)'
  BY <1>3, <1>6 DEF Directory
<1> QED BY <1>7, <1>8 DEF StoreGrows

LEMMA UnchangedGrows ==
  ASSUME UNCHANGED <<rows, count, author>>
  PROVE  StoreGrows
BY DEF StoreGrows, Directory

\* An engine that does not move keeps its part of the invariant.
LEMMA OtherEngine ==
  ASSUME TypeOK, SyncAssumption, StoreGrows, NEW f \in Engine, eng'[f] = eng[f],
         EngineInv(f)
  PROVE  EngineInv(f)'
<1>1. eng[f].incoming \subseteq Message
  BY EngineTypes DEF EngineState
<1>2. Me(f) \in Node
  BY EngineTypes
<1>3. IndexAt(f)'
  BY DEF EngineInv, IndexAt
<1>4. InFlightAt(f)'
  BY <1>1 DEF EngineInv, InFlightAt, StoreGrows
<1>5. PulledAt(f)'
  BY <1>2 DEF EngineInv, PulledAt, StoreGrows, Me
<1> QED BY <1>3, <1>4, <1>5 DEF EngineInv


(***************************************************************************)
(* Every action of an engine keeps its own part of the invariant.          *)
(***************************************************************************)
LEMMA PeerCount ==
  ASSUME TypeOK, SyncAssumption, NEW e \in Engine
  PROVE  /\ Len(PeersOf[e]) \in Nat
         /\ eng[e].i \in Nat /\ eng[e].j \in Nat
         /\ PeersOf[e] # <<>> => Len(PeersOf[e]) >= 1
BY EngineTypes DEF EngineState

LEMMA StartInv ==
  ASSUME IInv, SyncAssumption, NEW e \in Engine, NEW mode \in Modes, StartSync(e, mode)
  PROVE  EngineInv(e)'
<1>1. PeersOf[e] # <<>> /\ TypeOK
  BY DEF StartSync, IInv
<1>2. Len(PeersOf[e]) \in Nat /\ Len(PeersOf[e]) >= 1
  BY <1>1, PeerCount
<1>3. /\ eng'[e].pc = "exchange" /\ eng'[e].i = 1 /\ eng'[e].incoming = {}
      /\ eng'[e].pulled = {} /\ eng'[e].todo = {}
  BY <1>1, StartEffect
<1> QED BY <1>2, <1>3 DEF EngineInv, IndexAt, InFlightAt, PulledAt

LEMMA ExchangeInv ==
  ASSUME IInv, SyncAssumption, NEW e \in Engine, ExchangeVersionVector(e)
  PROVE  EngineInv(e)'
<1>1. /\ eng'[e].pc = "metadata" /\ eng'[e].i = eng[e].i
      /\ eng'[e].incoming = eng[e].incoming
      /\ eng'[e].pulled = eng[e].pulled /\ eng'[e].todo = eng[e].todo
  BY ExchangeEffect DEF IInv
<1>2. eng[e].pc = "exchange" /\ EngineInv(e) /\ UNCHANGED <<rows, count, author>>
  BY DEF ExchangeVersionVector, IInv, storeVars
<1> QED BY <1>1, <1>2 DEF EngineInv, IndexAt, InFlightAt, PulledAt, Directory, Me

LEMMA MetadataInv ==
  ASSUME IInv, SyncAssumption, NEW e \in Engine, PullMissingMetadata(e)
  PROVE  EngineInv(e)'
<1>1. /\ eng'[e].pc = "upsert" /\ eng'[e].i = eng[e].i
      /\ eng'[e].incoming = eng[e].incoming
      /\ eng'[e].pulled = eng[e].pulled /\ eng'[e].todo = eng[e].todo
  BY MetadataEffect DEF IInv, EngineInv
<1>2. eng[e].pc = "metadata" /\ EngineInv(e) /\ UNCHANGED <<rows, count, author>>
  BY DEF PullMissingMetadata, IInv, storeVars
<1> QED BY <1>1, <1>2 DEF EngineInv, IndexAt, InFlightAt, PulledAt, Directory, Me

LEMMA UpsertInv ==
  ASSUME IInv, SyncAssumption, NEW e \in Engine, UpsertOne(e)
  PROVE  EngineInv(e)' /\ StoreGrows
<1>1. PICK r \in eng[e].metas :
        /\ UpsertConversationMetadata(Me(e), r.conv, r.count)
        /\ eng'[e].pc = eng[e].pc /\ eng'[e].i = eng[e].i
        /\ eng'[e].incoming = eng[e].incoming
        /\ eng'[e].pulled = eng[e].pulled \cup {r.conv} /\ eng'[e].todo = eng[e].todo
  BY UpsertEffect DEF IInv
<1>2. /\ eng[e].pc = "upsert" /\ EngineInv(e) /\ UNCHANGED <<rows, author>>
      /\ eng[e].incoming \subseteq Message
  BY EngineTypes DEF UpsertOne, IInv, storeVars, EngineState
<1>3. r.conv \in Conv /\ r.count \in Nat /\ Me(e) \in Node
  BY EngineTypes DEF EngineState, MetaRecord, IInv
<1>4. StoreGrows /\ r.conv \in Directory(Me(e))'
  BY <1>1, <1>2, <1>3, UpsertGrows DEF IInv, TypeOK
<1>5. IndexAt(e)'
  BY <1>1, <1>2 DEF EngineInv, IndexAt
<1>6. InFlightAt(e)'
  BY <1>1, <1>2, <1>4 DEF EngineInv, InFlightAt, StoreGrows
<1>7. Directory(Me(e)) \subseteq Directory(Me(e))'
  BY <1>3, <1>4 DEF StoreGrows, Me
<1>8. PulledAt(e)'
  BY <1>1, <1>2, <1>4, <1>7 DEF EngineInv, PulledAt
<1> QED BY <1>4, <1>5, <1>6, <1>8 DEF EngineInv

LEMMA FinishPeerInv ==
  ASSUME IInv, SyncAssumption, NEW e \in Engine, FinishPeer(e)
  PROVE  EngineInv(e)'
<1>1. /\ eng'[e].pc = IF LastPeer(e) THEN "choose" ELSE "exchange"
      /\ eng'[e].i = IF LastPeer(e) THEN eng[e].i ELSE eng[e].i + 1
      /\ eng'[e].pulled = IF LastPeer(e) THEN {} ELSE eng[e].pulled
      /\ eng'[e].todo = IF LastPeer(e) THEN eng[e].pulled ELSE {}
      /\ eng'[e].incoming = eng[e].incoming
  BY FinishPeerEffect DEF IInv
<1>2. /\ eng[e].pc = "upsert" /\ EngineInv(e) /\ UNCHANGED <<rows, count, author>>
      /\ Len(PeersOf[e]) \in Nat /\ eng[e].i \in Nat
  BY PeerCount DEF FinishPeer, IInv, storeVars
<1>3. IndexAt(e)'
  BY <1>1, <1>2 DEF EngineInv, IndexAt, LastPeer
<1>4. InFlightAt(e)'
  BY <1>1, <1>2 DEF EngineInv, InFlightAt
<1>5. PulledAt(e)'
  BY <1>1, <1>2 DEF EngineInv, PulledAt, Directory, Me
<1> QED BY <1>3, <1>4, <1>5 DEF EngineInv

LEMMA SyncFailsInv ==
  ASSUME IInv, SyncAssumption, NEW e \in Engine, SyncFails(e)
  PROVE  EngineInv(e)'
BY SyncFailsEffect DEF IInv, EngineInv, IndexAt, InFlightAt, PulledAt

LEMMA ChooseInv ==
  ASSUME IInv, SyncAssumption, NEW e \in Engine, ChooseConversation(e)
  PROVE  EngineInv(e)'
<1>1. PICK c \in eng[e].todo :
        /\ eng'[e].pc = "messages" /\ eng'[e].i = 1 /\ eng'[e].cur = c
        /\ eng'[e].incoming = eng[e].incoming
        /\ eng'[e].pulled = eng[e].pulled /\ eng'[e].todo = eng[e].todo \ {c}
  BY ChooseEffect DEF IInv
<1>2. eng[e].pc = "choose" /\ EngineInv(e) /\ UNCHANGED <<rows, count, author>>
  BY DEF ChooseConversation, IInv, storeVars
<1>3. Len(PeersOf[e]) \in Nat /\ Len(PeersOf[e]) >= 1
  BY PeerCount, <1>2 DEF IInv, EngineInv, IndexAt
<1> QED BY <1>1, <1>2, <1>3 DEF EngineInv, IndexAt, InFlightAt, PulledAt, Directory, Me

\* The indices after moving on to the next peer.
LEMMA MovesOnInv ==
  ASSUME TypeOK, SyncAssumption, NEW e \in Engine, EngineInv(e), MovesOn(e), StoreGrows,
         eng[e].pc \in {"messages", "insert", "blobs"}
  PROVE  EngineInv(e)'
<1>1. /\ eng'[e].pc = IF LastPeer(e) THEN "choose" ELSE "messages"
      /\ eng'[e].i = IF LastPeer(e) THEN eng[e].i ELSE eng[e].i + 1
      /\ eng'[e].cur = IF LastPeer(e) THEN NoConv ELSE eng[e].cur
      /\ eng'[e].incoming = {}
      /\ eng'[e].pulled = eng[e].pulled /\ eng'[e].todo = eng[e].todo
  BY DEF MovesOn
<1>2. Len(PeersOf[e]) \in Nat /\ eng[e].i \in Nat
  BY PeerCount
<1>3. IndexAt(e)'
  BY <1>1, <1>2 DEF EngineInv, IndexAt, LastPeer
<1>4. Directory(Me(e)) \subseteq Directory(Me(e))'
  BY EngineTypes DEF StoreGrows, Me
<1>5. PulledAt(e)'
  BY <1>1, <1>4 DEF EngineInv, PulledAt
<1> QED BY <1>1, <1>3, <1>5 DEF EngineInv, InFlightAt

LEMMA PullMessagesInv ==
  ASSUME IInv, SyncAssumption, NEW e \in Engine, PullMissingMessages(e)
  PROVE  EngineInv(e)'
<1> DEFINE missing == GetMessages(Peer(e), eng[e].cur) \ eng[e].known
<1>1. /\ eng[e].pc = "messages" /\ EngineInv(e) /\ UNCHANGED <<rows, count, author>>
      /\ TypeOK
  BY DEF PullMissingMessages, IInv, storeVars
<1>2. StoreGrows
  BY <1>1, UnchangedGrows
<1>3. \/ MovesOn(e)
      \/ /\ eng'[e].pc = "insert" /\ eng'[e].i = eng[e].i /\ eng'[e].cur = eng[e].cur
         /\ eng'[e].incoming = missing
         /\ eng'[e].pulled = eng[e].pulled /\ eng'[e].todo = eng[e].todo
  BY <1>1, PullMessagesEffect DEF EngineInv
<1>4. CASE MovesOn(e)
  BY <1>1, <1>2, <1>4, MovesOnInv
<1>5. CASE /\ eng'[e].pc = "insert" /\ eng'[e].i = eng[e].i /\ eng'[e].cur = eng[e].cur
           /\ eng'[e].incoming = missing
           /\ eng'[e].pulled = eng[e].pulled /\ eng'[e].todo = eng[e].todo
  <2>1. Peer(e) \in Node
    BY <1>1, EngineTypes DEF EngineInv, IndexAt, Peer
  <2>2. \A m \in missing : m \in rows[Peer(e)] /\ ConvOf[m] = eng[e].cur
    BY DEF GetMessages, MessagesOf
  <2>3. \A m \in missing : author[m] \in Node /\ m \in rows[author[m]]
    BY <2>1, <2>2 DEF IInv, Provenance
  <2> HIDE DEF missing
  <2> QED BY <1>1, <1>5, <2>2, <2>3
          DEF EngineInv, IndexAt, InFlightAt, PulledAt, Directory, Me
<1> QED BY <1>3, <1>4, <1>5

LEMMA PullFailsInv ==
  ASSUME IInv, SyncAssumption, NEW e \in Engine, PullMessagesFails(e)
  PROVE  EngineInv(e)'
<1>1. /\ eng[e].pc = "messages" /\ EngineInv(e) /\ UNCHANGED <<rows, count, author>>
      /\ TypeOK
  BY DEF PullMessagesFails, IInv, storeVars
<1> QED BY <1>1, UnchangedGrows, PullFailsEffect, MovesOnInv

LEMMA InsertInv ==
  ASSUME IInv, SyncAssumption, StoreAssumption, NEW e \in Engine, InsertMessages(e)
  PROVE  /\ EngineInv(e)' /\ StoreGrows
         /\ \A p \in Node : rows'[p] = IF p = Me(e) THEN rows[p] \cup eng[e].incoming
                                       ELSE rows[p]
<1>1. /\ eng[e].pc = "insert" /\ EngineInv(e) /\ UNCHANGED author /\ TypeOK
      /\ InsertMessagesIfAbsent(Me(e), eng[e].incoming)
      /\ eng[e].incoming \in SUBSET Message /\ Me(e) \in Node
  BY EngineTypes DEF InsertMessages, IInv, EngineState
<1>2. /\ StoreGrows
      /\ \A p \in Node : rows'[p] = IF p = Me(e) THEN rows[p] \cup eng[e].incoming
                                    ELSE rows[p]
  BY <1>1, InsertGrows
<1>3. /\ eng'[e].pc = "blobs" /\ eng'[e].j = 1 /\ eng'[e].i = eng[e].i
      /\ eng'[e].cur = eng[e].cur /\ eng'[e].incoming = eng[e].incoming
      /\ eng'[e].pulled = eng[e].pulled /\ eng'[e].todo = eng[e].todo
  BY <1>1, InsertEffect
<1>4. IndexAt(e)'
  BY <1>1, <1>3, PeerCount DEF EngineInv, IndexAt
<1>5. InFlightAt(e)'
  BY <1>1, <1>2, <1>3 DEF EngineInv, InFlightAt, StoreGrows
<1>6. Directory(Me(e)) \subseteq Directory(Me(e))'
  BY <1>1, <1>2 DEF StoreGrows, Me
<1>7. PulledAt(e)'
  BY <1>1, <1>3, <1>6 DEF EngineInv, PulledAt
<1> QED BY <1>2, <1>4, <1>5, <1>7 DEF EngineInv

LEMMA AttachmentsDoneInv ==
  ASSUME IInv, SyncAssumption, NEW e \in Engine, AttachmentsDone(e)
  PROVE  EngineInv(e)'
<1>1. /\ eng[e].pc = "blobs" /\ EngineInv(e) /\ UNCHANGED <<rows, count, author>>
      /\ TypeOK
  BY DEF AttachmentsDone, IInv, storeVars
<1> QED BY <1>1, UnchangedGrows, AttachmentsDoneEffect, MovesOnInv

LEMMA BlobStepInv ==
  ASSUME IInv, SyncAssumption, NEW e \in Engine, BlobStep(e), eng[e].pc = "blobs",
         UNCHANGED <<rows, count, author>>
  PROVE  EngineInv(e)'
<1>1. /\ eng'[e].pc = eng[e].pc /\ eng'[e].i = eng[e].i /\ eng'[e].cur = eng[e].cur
      /\ eng'[e].incoming = eng[e].incoming
      /\ eng'[e].pulled = eng[e].pulled /\ eng'[e].todo = eng[e].todo
      /\ eng'[e].j \in {1, eng[e].j, eng[e].j + 1}
      /\ eng'[e].j = eng[e].j + 1 => eng[e].j = 0 \/ eng[e].j < Len(PeersOf[e])
  BY DEF BlobStep
<1>2. /\ EngineInv(e) /\ Len(PeersOf[e]) \in Nat /\ eng[e].j \in Nat
  BY PeerCount DEF IInv
<1>3. eng[e].j \in 1..Len(PeersOf[e]) /\ Len(PeersOf[e]) >= 1
  BY <1>2 DEF EngineInv, IndexAt
<1>4. eng'[e].j \in 1..Len(PeersOf[e])
  BY <1>1, <1>2, <1>3
<1> QED BY <1>1, <1>2, <1>4 DEF EngineInv, IndexAt, InFlightAt, PulledAt, Directory, Me

LEMMA ListInv ==
  ASSUME IInv, SyncAssumption, NEW e \in Engine, ListForAntiEntropy(e)
  PROVE  EngineInv(e)'
<1>1. PICK listed \in ListConversations(Me(e), ListLimit) :
        /\ eng'[e].pc = eng[e].pc /\ eng'[e].i = eng[e].i /\ eng'[e].cur = eng[e].cur
        /\ eng'[e].incoming = eng[e].incoming
        /\ eng'[e].pulled = eng[e].pulled /\ eng'[e].todo = listed
  BY ListEffect DEF IInv
<1>2. eng[e].pc = "choose" /\ EngineInv(e) /\ UNCHANGED <<rows, count, author>>
  BY DEF ListForAntiEntropy, IInv, storeVars
<1>3. listed \subseteq Directory(Me(e))
  BY EngineTypes, ListedInDirectory DEF IInv
<1> QED BY <1>1, <1>2, <1>3 DEF EngineInv, IndexAt, InFlightAt, PulledAt, Directory, Me

LEMMA FinishInv ==
  ASSUME IInv, SyncAssumption, NEW e \in Engine, FinishSync(e)
  PROVE  EngineInv(e)'
BY FinishEffect DEF IInv, EngineInv, IndexAt, InFlightAt, PulledAt

(***************************************************************************)
(* The invariant of the specification.                                     *)
(***************************************************************************)
LEMMA InitInv == SyncAssumption /\ StoreAssumption /\ Init => IInv
<1> SUFFICES ASSUME SyncAssumption, StoreAssumption, Init PROVE IInv
  OBVIOUS
<1>1. TypeOK
  BY IdleEngineType DEF Init, StoreInit, TypeOK, StoreTypeOK
<1>2. \A n \in Node : rows[n] = {}
  BY DEF Init, StoreInit
<1>3. Provenance /\ NoOrphanMessages
  BY <1>2 DEF Provenance, NoOrphanMessages
<1>4. \A e \in Engine : eng[e] = IdleEngine
  BY DEF Init
<1>5. /\ IdleEngine.pc = "idle" /\ IdleEngine.incoming = {}
      /\ IdleEngine.pulled = {} /\ IdleEngine.todo = {}
  BY DEF IdleEngine
<1>6. \A e \in Engine : EngineInv(e)
  BY <1>4, <1>5 DEF EngineInv, IndexAt, InFlightAt, PulledAt
<1> QED BY <1>1, <1>3, <1>6 DEF IInv

\* What a step of one engine does to what the other components rely on.
EngineStep(e) ==
  /\ TypeOK' /\ Others(e) /\ EngineInv(e)' /\ StoreGrows /\ author' = author
  /\ \/ rows' = rows
     \/ /\ eng[e].pc = "insert"
        /\ \A p \in Node : rows'[p] = IF p = Me(e) THEN rows[p] \cup eng[e].incoming
                                      ELSE rows[p]

LEMMA EngineStepLemma ==
  ASSUME IInv, SyncAssumption, StoreAssumption, NEW e \in Engine, EngineNext(e)
  PROVE  EngineStep(e)
<1>0. TypeOK /\ EngineInv(e) /\ IndexAt(e)
  BY DEF IInv, EngineInv
<1>1. ASSUME NEW mode \in Modes, StartSync(e, mode) PROVE EngineStep(e)
  BY <1>0, <1>1, StartEffect, StartInv, UnchangedGrows DEF EngineStep, StartSync, storeVars
<1>2. CASE ExchangeVersionVector(e)
  BY <1>0, <1>2, ExchangeEffect, ExchangeInv, UnchangedGrows
     DEF EngineStep, ExchangeVersionVector, storeVars
<1>3. CASE PullMissingMetadata(e)
  BY <1>0, <1>3, MetadataEffect, MetadataInv, UnchangedGrows
     DEF EngineStep, PullMissingMetadata, storeVars
<1>4. CASE PullMissingMessages(e)
  BY <1>0, <1>4, PullMessagesEffect, PullMessagesInv, UnchangedGrows
     DEF EngineStep, PullMissingMessages, storeVars, MovesOn
<1>5. CASE PullAttachment(e)
  <2>1. TypeOK' /\ BlobStep(e)
    BY <1>0, <1>5, PullAttachmentEffect
  <2>2. eng[e].pc = "blobs" /\ UNCHANGED <<rows, count, author>>
    BY <1>5 DEF PullAttachment, WantsBlob
  <2> QED BY <2>1, <2>2, BlobStepInv, UnchangedGrows DEF EngineStep, BlobStep
<1>6. CASE UpsertOne(e)
  BY <1>0, <1>6, UpsertEffect, UpsertInv DEF EngineStep, UpsertOne
<1>7. CASE FinishPeer(e)
  BY <1>0, <1>7, FinishPeerEffect, FinishPeerInv, UnchangedGrows
     DEF EngineStep, FinishPeer, storeVars
<1>8. CASE ChooseConversation(e)
  BY <1>0, <1>8, ChooseEffect, ChooseInv, UnchangedGrows
     DEF EngineStep, ChooseConversation, storeVars
<1>9. CASE InsertMessages(e)
  BY <1>0, <1>9, InsertEffect, InsertInv DEF EngineStep, InsertMessages
<1>10. CASE AttachmentsDone(e)
  BY <1>0, <1>10, AttachmentsDoneEffect, AttachmentsDoneInv, UnchangedGrows
     DEF EngineStep, AttachmentsDone, storeVars, MovesOn
<1>11. CASE SkipAttachment(e)
  <2>1. TypeOK' /\ BlobStep(e)
    BY <1>0, <1>11, SkipEffect
  <2>2. eng[e].pc = "blobs" /\ UNCHANGED <<rows, count, author>>
    BY <1>11 DEF SkipAttachment, storeVars
  <2> QED BY <2>1, <2>2, BlobStepInv, UnchangedGrows DEF EngineStep, BlobStep
<1>12. CASE ListForAntiEntropy(e)
  BY <1>0, <1>12, ListEffect, ListInv, UnchangedGrows
     DEF EngineStep, ListForAntiEntropy, storeVars
<1>13. CASE FinishSync(e)
  BY <1>0, <1>13, FinishEffect, FinishInv, UnchangedGrows DEF EngineStep, FinishSync, storeVars
<1>14. CASE SyncFails(e)
  BY <1>0, <1>14, SyncFailsEffect, SyncFailsInv, UnchangedGrows DEF EngineStep, SyncFails, storeVars
<1>15. CASE PullMessagesFails(e)
  BY <1>0, <1>15, PullFailsEffect, PullFailsInv, UnchangedGrows
     DEF EngineStep, PullMessagesFails, storeVars, MovesOn
<1>16. CASE PullAttachmentFails(e)
  <2>1. TypeOK' /\ BlobStep(e)
    BY <1>0, <1>16, PullAttachmentFailsEffect
  <2>2. eng[e].pc = "blobs" /\ UNCHANGED <<rows, count, author>>
    BY <1>16 DEF PullAttachmentFails, WantsBlob, storeVars
  <2> QED BY <2>1, <2>2, BlobStepInv, UnchangedGrows DEF EngineStep, BlobStep
<1> QED BY <1>1, <1>2, <1>3, <1>4, <1>5, <1>6, <1>7, <1>8, <1>9, <1>10, <1>11, <1>12,
           <1>13, <1>14, <1>15, <1>16
        DEF EngineNext, Start, Request, Continue, Fail

LEMMA EngineKeepsInv ==
  ASSUME IInv, SyncAssumption, StoreAssumption, NEW e \in Engine, EngineNext(e)
  PROVE  IInv'
<1>1. EngineStep(e) /\ TypeOK
  BY EngineStepLemma DEF IInv
<1>2. /\ TypeOK' /\ StoreGrows /\ author' = author
      /\ Others(e) /\ EngineInv(e)'
  BY <1>1 DEF EngineStep
<1>3. \A f \in Engine : EngineInv(f)'
  <2> TAKE f \in Engine
  <2>1. CASE f = e
    BY <1>2, <2>1
  <2>2. CASE f # e
    BY <1>1, <1>2, <2>2, OtherEngine DEF Others, IInv
  <2> QED BY <2>1, <2>2
<1>4. ASSUME NEW p \in Node, NEW m \in rows'[p]
      PROVE  \/ m \in rows[p]
             \/ /\ m \in eng[e].incoming /\ p = Me(e)
                /\ eng[e].pc = "insert"
  BY <1>1, <1>4 DEF EngineStep
<1>5. ASSUME NEW p \in Node, NEW m \in rows'[p]
      PROVE  author[m] \in Node /\ m \in rows[author[m]] /\ m \in Message
  <2>1. CASE m \in rows[p]
    BY <1>1, <1>5, <2>1 DEF IInv, Provenance, TypeOK, StoreTypeOK
  <2>2. CASE m \in eng[e].incoming
    BY <1>1, <2>2, EngineTypes DEF IInv, EngineInv, InFlightAt, EngineState
  <2> QED BY <1>4, <1>5, <2>1, <2>2
<1>6. Provenance'
  BY <1>2, <1>5 DEF Provenance, StoreGrows
<1>7. ASSUME NEW p \in Node, NEW m \in rows'[p]
      PROVE  ConvOf[m] \in Directory(p)
  <2>1. CASE m \in rows[p]
    BY <1>7, <2>1 DEF IInv, NoOrphanMessages
  <2>2. CASE m \in eng[e].incoming /\ p = Me(e) /\ eng[e].pc = "insert"
    BY <2>2 DEF IInv, EngineInv, PulledAt
  <2> QED BY <1>4, <1>7, <2>1, <2>2
<1>8. NoOrphanMessages'
  BY <1>2, <1>7 DEF NoOrphanMessages, StoreGrows
<1> QED BY <1>2, <1>3, <1>6, <1>8 DEF IInv

\* A step of a device's own operations.
LEMMA DeviceKeepsInv ==
  ASSUME IInv, SyncAssumption, StoreAssumption, NEW n \in Node, DeviceNext(n)
  PROVE  IInv' /\ StoreGrows /\ eng' = eng
<1>0. TypeOK /\ TypeOK' /\ StoreTypeOK
  BY TypeDevice DEF IInv, TypeOK
<1>1. ASSUME NEW m \in Message, AuthorMessage(n, m)
      PROVE  StoreGrows /\ eng' = eng /\ Provenance' /\ NoOrphanMessages'
  <2>1. /\ StoreGrows /\ ConvOf[m] \in Directory(n)'
        /\ author'[m] = n /\ m \in rows'[n]
        /\ \A p \in Node : rows'[p] \subseteq rows[p] \cup {x \in {m} : p = n}
    BY <1>0, <1>1, AuthorGrows
  <2>2. ASSUME NEW p \in Node, NEW x \in rows'[p]
        PROVE  x \in rows[p] \/ (x = m /\ p = n)
    BY <2>1, <2>2
  <2>3. Provenance'
    <3> SUFFICES ASSUME NEW p \in Node, NEW x \in rows'[p]
                 PROVE  author'[x] \in Node /\ x \in rows'[author'[x]]
      BY DEF Provenance
    <3>1. CASE x \in rows[p]
      BY <1>0, <2>1, <3>1 DEF IInv, Provenance, StoreGrows, TypeOK, StoreTypeOK
    <3>2. CASE x = m /\ p = n
      BY <2>1, <3>2
    <3> QED BY <2>2, <3>1, <3>2
  <2>4. NoOrphanMessages'
    BY <2>1, <2>2 DEF NoOrphanMessages, IInv, StoreGrows
  <2> QED BY <1>1, <2>1, <2>3, <2>4 DEF AuthorMessage
<1>2. ASSUME NEW c \in Conv, OpenConversation(n, c)
      PROVE  StoreGrows /\ eng' = eng /\ Provenance' /\ NoOrphanMessages'
  <2>1. StoreGrows /\ UNCHANGED <<rows, author, eng>>
    BY <1>0, <1>2, UpsertGrows DEF OpenConversation
  <2> QED BY <2>1 DEF IInv, Provenance, NoOrphanMessages, StoreGrows
<1>3. ASSUME NEW q \in Node, NEW c \in Conv, RunTurnMetadata(n, q, c)
      PROVE  StoreGrows /\ eng' = eng /\ Provenance' /\ NoOrphanMessages'
  <2>1. count[q][c] \in Nat
    BY <1>0, <1>3 DEF RunTurnMetadata, StoreTypeOK
  <2>2. StoreGrows /\ UNCHANGED <<rows, author, eng>>
    BY <1>0, <1>3, <2>1, UpsertGrows DEF RunTurnMetadata
  <2> QED BY <2>2 DEF IInv, Provenance, NoOrphanMessages, StoreGrows
<1>4. StoreGrows /\ eng' = eng /\ Provenance' /\ NoOrphanMessages'
  BY <1>1, <1>2, <1>3 DEF DeviceNext
<1>5. \A f \in Engine : EngineInv(f)'
  BY <1>0, <1>4, OtherEngine DEF IInv
<1> QED BY <1>0, <1>4, <1>5 DEF IInv

LEMMA StepInv == IInv /\ SyncAssumption /\ StoreAssumption /\ [Next]_vars => IInv'
<1> SUFFICES ASSUME IInv, SyncAssumption, StoreAssumption, [Next]_vars PROVE IInv'
  OBVIOUS
<1>1. CASE Next
  BY <1>1, EngineKeepsInv, DeviceKeepsInv DEF Next
<1>2. CASE UNCHANGED vars
  BY <1>2 DEF vars, IInv, TypeOK, StoreTypeOK, Provenance, NoOrphanMessages, EngineInv,
              IndexAt, InFlightAt, PulledAt, Directory, Me
<1> QED BY <1>1, <1>2

\* The inductive invariant holds in every reachable state.
THEOREM Invariant == Spec => []IInv
<1>1. Init => IInv
  BY InitInv, SyncAssumption, StoreAssumption
<1>2. IInv /\ [Next]_vars => IInv'
  BY StepInv, SyncAssumption, StoreAssumption
<1> QED BY <1>1, <1>2, PTL DEF Spec

\* Type correctness of stores, engines and history.
THEOREM TypeCorrect == Spec => []TypeOK
<1>1. IInv => TypeOK
  BY DEF IInv
<1> QED BY <1>1, Invariant, PTL

\* Every stored message is stored by the device that appended it.
THEOREM MessagesHaveProvenance == Spec => []Provenance
<1>1. IInv => Provenance
  BY DEF IInv
<1> QED BY <1>1, Invariant, PTL

\* Every stored message belongs to a listed conversation.
THEOREM NoOrphans == Spec => []NoOrphanMessages
<1>1. IInv => NoOrphanMessages
  BY DEF IInv
<1> QED BY <1>1, Invariant, PTL

(***************************************************************************)
(* Refinement of the replicated set of messages.                           *)
(***************************************************************************)
LEMMA RefineInit == Init => Replicated!Init
BY DEF Init, StoreInit, Replicated!Init

LEMMA RefineEngine ==
  ASSUME IInv, SyncAssumption, StoreAssumption, NEW e \in Engine, EngineNext(e)
  PROVE  [Replicated!Next]_<<rows, author>>
<1>1. EngineStep(e) /\ TypeOK /\ EngineInv(e)
  BY EngineStepLemma DEF IInv
<1>2. author' = author /\ TypeOK'
  BY <1>1 DEF EngineStep
<1>3. CASE rows' = rows
  BY <1>2, <1>3
<1>4. CASE \A p \in Node : rows'[p] = IF p = Me(e) THEN rows[p] \cup eng[e].incoming
                                      ELSE rows[p]
  <2>1. Me(e) \in Node /\ eng[e].incoming \in SUBSET Message
    BY <1>1, EngineTypes DEF EngineState
  <2>2. rows' = [rows EXCEPT ![Me(e)] = rows[Me(e)] \cup eng[e].incoming]
    BY <1>1, <1>2, <1>4, <2>1 DEF TypeOK, StoreTypeOK
  <2>3. eng[e].incoming \subseteq Replicated!Held
    BY <1>1 DEF EngineInv, InFlightAt, Replicated!Held
  <2>4. Replicated!Deliver(Me(e), eng[e].incoming)
    BY <1>2, <2>2, <2>3 DEF Replicated!Deliver
  <2> QED BY <2>1, <2>4 DEF Replicated!Next
<1> QED BY <1>1, <1>3, <1>4 DEF EngineStep

LEMMA RefineDevice ==
  ASSUME NEW n \in Node, DeviceNext(n)
  PROVE  [Replicated!Next]_<<rows, author>>
<1>1. ASSUME NEW m \in Message, AuthorMessage(n, m)
      PROVE  Replicated!Next
  <2>1. Replicated!Write(n, m)
    BY <1>1 DEF AuthorMessage, AppendMessage, Replicated!Write
  <2> QED BY <2>1 DEF Replicated!Next
<1>2. ASSUME NEW c \in Conv, OpenConversation(n, c)
      PROVE  UNCHANGED <<rows, author>>
  BY <1>2 DEF OpenConversation
<1>3. ASSUME NEW q \in Node, NEW c \in Conv, RunTurnMetadata(n, q, c)
      PROVE  UNCHANGED <<rows, author>>
  BY <1>3 DEF RunTurnMetadata
<1> QED BY <1>1, <1>2, <1>3 DEF DeviceNext

\* Synchronisation implements the replicated set: initial states map to initial
\* states and every step to a write, a delivery or a stutter.
THEOREM Refinement == Spec => RefinesReplicated
<1>1. IInv /\ [Next]_vars => [Replicated!Next]_<<rows, author>>
  <2> SUFFICES ASSUME IInv, [Next]_vars PROVE [Replicated!Next]_<<rows, author>>
    OBVIOUS
  <2>1. CASE UNCHANGED vars
    BY <2>1 DEF vars
  <2> QED BY <2>1, RefineEngine, RefineDevice, SyncAssumption, StoreAssumption DEF Next
<1> QED BY <1>1, RefineInit, Invariant, PTL
        DEF Spec, RefinesReplicated, Replicated!Spec

------------------------------------------------------------------------------
(***************************************************************************)
(* Delivery: a call of the sync engine that met no failed request leaves   *)
(* the device with every message its peers stored when the call began, for *)
(* hosts that answer with empty version vectors, as the bundled ones do,   *)
(* and a directory that fits the listing limit.                            *)
(***************************************************************************)

PlainHosts ==
  /\ HostVectors \subseteq {ZeroVector}
  /\ MissingReports \subseteq {FALSE}
  /\ IsFiniteSet(Conv)
  /\ Cardinality(Conv) <= ListLimit

\* Under the limit a listing is the whole directory.
LEMMA ListsAll ==
  ASSUME PlainHosts, SyncAssumption, NEW n, NEW listed \in ListConversations(n, ListLimit)
  PROVE  listed = Directory(n)
<1>1. Directory(n) \subseteq Conv
  BY DEF Directory
<1>2. Cardinality(Directory(n)) <= Cardinality(Conv)
  BY <1>1, FS_Subset DEF PlainHosts
<1>3. Cardinality(Directory(n)) \in Nat /\ Cardinality(Conv) \in Nat
  BY <1>1, FS_Subset, FS_CardinalityType DEF PlainHosts
<1>4. Cardinality(Directory(n)) <= ListLimit
  BY <1>2, <1>3 DEF PlainHosts, SyncAssumption
<1> QED BY <1>4 DEF ListConversations

\* A row of a peer is offered to a caller whose vector is zero.
LEMMA OfferedRow ==
  ASSUME TypeOK, SyncAssumption, NEW e \in Engine, Peer(e) \in Node,
         eng[e].vv = ZeroVector, NEW c \in Directory(Peer(e))
  PROVE  \E r \in Offered(e, Directory(Peer(e))) : r.conv = c
<1>1. c \in Conv /\ count[Peer(e)][c] \in Nat
  BY DEF Directory, TypeOK, StoreTypeOK
<1>2. eng[e].vv[OriginOf[c]] = 0
  BY <1>1 DEF ZeroVector, SyncAssumption
<1>3. ShouldSend(count[Peer(e)][c], eng[e].vv[OriginOf[c]])
  BY <1>1, <1>2 DEF ShouldSend
<1>4. [conv |-> c, count |-> count[Peer(e)][c]] \in Offered(e, Directory(Peer(e)))
  BY <1>3 DEF Offered
<1> QED BY <1>4

LEMMA AheadGrows ==
  ASSUME SyncAssumption, StoreGrows, NEW e \in Engine, NEW k, NEW m, Ahead(e, k, m)
  PROVE  Ahead(e, k, m)'
<1>1. \A l \in 1..Len(PeersOf[e]) : PeersOf[e][l] \in Node
  BY DEF SyncAssumption
<1> QED BY <1>1 DEF Ahead, StoreGrows

\* Who is ahead of k is at k or ahead of k + 1.
LEMMA AheadStep ==
  ASSUME NEW e \in Engine, NEW k \in Nat, NEW m, Ahead(e, k, m)
  PROVE  m \in rows[PeersOf[e][k]] \/ Ahead(e, k + 1, m)
BY DEF Ahead

LEMMA NobodyAhead ==
  ASSUME TypeOK, SyncAssumption, NEW e \in Engine, LastPeer(e), NEW m
  PROVE  ~Ahead(e, eng[e].i + 1, m)
BY PeerCount DEF Ahead, LastPeer

LEMMA DeliveryOther ==
  ASSUME TypeOK, SyncAssumption, StoreGrows, NEW f \in Engine, eng'[f] = eng[f],
         DeliveryAt(f)
  PROVE  DeliveryAt(f)'
<1>1. Me(f) \in Node /\ rows[Me(f)] \subseteq rows'[Me(f)]
  BY EngineTypes DEF StoreGrows
<1>2. \A k, m : Ahead(f, k, m) => Ahead(f, k, m)'
  BY AheadGrows
<1>3. \A m : StillComing(f, m) => StillComing(f, m)'
  BY <1>1, <1>2 DEF StillComing, Me
<1> QED BY <1>1, <1>2, <1>3 DEF DeliveryAt, Me

(***************************************************************************)
(* The steps of an engine.                                                 *)
(***************************************************************************)
LEMMA StartDelivers ==
  ASSUME IInv, PlainHosts, SyncAssumption, StoreAssumption, NEW e \in Engine, DeliveryAt(e),
         NEW mode \in Modes, StartSync(e, mode)
  PROVE  DeliveryAt(e)'
<1>1. /\ eng'[e].pc = "exchange" /\ eng'[e].i = 1 /\ eng'[e].goal = PeerRows(e)
      /\ eng'[e].vv = ZeroVector /\ eng'[e].remote = ZeroVector
      /\ eng'[e].missing = FALSE
  BY StartEffect DEF IInv, DeliveryAt
<1>2. UNCHANGED rows
  BY DEF StartSync, storeVars
<1>3. \A m \in PeerRows(e) : Ahead(e, 1, m)'
  BY <1>2 DEF PeerRows, Ahead
<1> QED BY <1>1, <1>2, <1>3 DEF DeliveryAt, StillComing

LEMMA ExchangeDelivers ==
  ASSUME IInv, PlainHosts, SyncAssumption, StoreAssumption, NEW e \in Engine, DeliveryAt(e),
         ExchangeVersionVector(e)
  PROVE  DeliveryAt(e)'
<1>1. PICK remote \in HostVectors, missing \in MissingReports :
        /\ eng'[e].pc = "metadata" /\ eng'[e].i = eng[e].i
        /\ eng'[e].goal = eng[e].goal /\ eng'[e].clean = eng[e].clean
        /\ eng'[e].pulled = eng[e].pulled /\ eng'[e].vv = eng[e].vv
        /\ eng'[e].remote = remote /\ eng'[e].missing = missing
  BY ExchangeEffect DEF IInv
<1>2. remote = ZeroVector /\ missing = FALSE
  BY DEF PlainHosts
<1>3. UNCHANGED rows /\ eng[e].pc = "exchange"
  BY DEF ExchangeVersionVector, storeVars
<1> QED BY <1>1, <1>2, <1>3 DEF DeliveryAt, StillComing, Ahead

LEMMA MetadataDelivers ==
  ASSUME IInv, PlainHosts, SyncAssumption, StoreAssumption, NEW e \in Engine, DeliveryAt(e),
         PullMissingMetadata(e)
  PROVE  DeliveryAt(e)'
<1>0. TypeOK /\ EngineInv(e) /\ IndexAt(e)
  BY DEF IInv, EngineInv
<1>1. PICK listed \in ListConversations(Peer(e), ListLimit) :
        /\ eng'[e].pc = "upsert" /\ eng'[e].i = eng[e].i
        /\ eng'[e].goal = eng[e].goal /\ eng'[e].clean = eng[e].clean
        /\ eng'[e].pulled = eng[e].pulled /\ eng'[e].vv = eng[e].vv
        /\ eng'[e].remote = eng[e].remote /\ eng'[e].missing = eng[e].missing
        /\ eng'[e].metas = Offered(e, listed)
  BY <1>0, MetadataEffect
<1>2. UNCHANGED rows /\ eng[e].pc = "metadata"
  BY DEF PullMissingMetadata, storeVars
<1>3. Peer(e) \in Node /\ eng[e].i \in Nat
  BY <1>0, <1>2, EngineTypes, PeerCount DEF IndexAt, Peer
<1>4. listed = Directory(Peer(e))
  BY ListsAll
<1>5. ASSUME NEW m \in eng[e].goal, eng[e].clean
      PROVE  StillComing(e, m)'
  <2>1. Ahead(e, eng[e].i, m) \/ ConvOf[m] \in eng[e].pulled
    BY <1>2, <1>5 DEF DeliveryAt, StillComing
  <2>2. CASE m \in rows[Peer(e)]
    <3>1. ConvOf[m] \in Directory(Peer(e))
      BY <1>3, <2>2 DEF IInv, NoOrphanMessages
    <3>2. \E r \in Offered(e, Directory(Peer(e))) : r.conv = ConvOf[m]
      <4>1. eng[e].vv = ZeroVector
        BY DEF DeliveryAt
      <4> QED BY <1>0, <1>3, <3>1, <4>1, OfferedRow
    <3> QED BY <1>1, <1>4, <3>2 DEF StillComing
  <2>3. CASE Ahead(e, eng[e].i + 1, m) \/ ConvOf[m] \in eng[e].pulled
    BY <1>1, <1>2, <2>3 DEF StillComing, Ahead
  <2> QED BY <1>3, <2>1, <2>2, <2>3, AheadStep DEF Peer
<1> QED BY <1>1, <1>2, <1>5 DEF DeliveryAt, Ahead

LEMMA UpsertDelivers ==
  ASSUME IInv, PlainHosts, SyncAssumption, StoreAssumption, NEW e \in Engine, DeliveryAt(e),
         UpsertOne(e)
  PROVE  DeliveryAt(e)'
<1>1. PICK r \in eng[e].metas :
        /\ eng'[e].pc = eng[e].pc /\ eng'[e].i = eng[e].i
        /\ eng'[e].goal = eng[e].goal /\ eng'[e].clean = eng[e].clean
        /\ eng'[e].metas = eng[e].metas \ {r}
        /\ eng'[e].pulled = eng[e].pulled \cup {r.conv} /\ eng'[e].vv = eng[e].vv
        /\ eng'[e].remote = eng[e].remote /\ eng'[e].missing = eng[e].missing
  BY UpsertEffect DEF IInv
<1>2. UNCHANGED rows /\ eng[e].pc = "upsert"
  BY DEF UpsertOne
<1>3. \A m \in eng[e].goal : StillComing(e, m) => StillComing(e, m)'
  BY <1>1, <1>2 DEF StillComing, Ahead
<1> QED BY <1>1, <1>2, <1>3 DEF DeliveryAt, Ahead

LEMMA FinishPeerDelivers ==
  ASSUME IInv, PlainHosts, SyncAssumption, StoreAssumption, NEW e \in Engine, DeliveryAt(e),
         FinishPeer(e)
  PROVE  DeliveryAt(e)'
<1>0. TypeOK
  BY DEF IInv
<1>1. /\ eng'[e].pc = IF LastPeer(e) THEN "choose" ELSE "exchange"
      /\ eng'[e].i = IF LastPeer(e) THEN eng[e].i ELSE eng[e].i + 1
      /\ eng'[e].pulled = IF LastPeer(e) THEN {} ELSE eng[e].pulled
      /\ eng'[e].todo = IF LastPeer(e) THEN eng[e].pulled ELSE {}
      /\ eng'[e].goal = eng[e].goal /\ eng'[e].clean = eng[e].clean
      /\ eng'[e].vv = MergedVector(e)
      /\ eng'[e].remote = ZeroVector /\ eng'[e].missing = FALSE
  BY <1>0, FinishPeerEffect
<1>2. UNCHANGED rows /\ eng[e].pc = "upsert" /\ eng[e].metas = {}
  BY DEF FinishPeer, storeVars
<1>3. MergedVector(e) = ZeroVector
  BY DEF MergedVector, Merge, ZeroVector, DeliveryAt
<1>4. ASSUME NEW m \in eng[e].goal, StillComing(e, m)
      PROVE  StillComing(e, m)'
  <2>1. Ahead(e, eng[e].i + 1, m) \/ ConvOf[m] \in eng[e].pulled
    BY <1>2, <1>4 DEF StillComing
  <2>2. CASE LastPeer(e)
    BY <1>0, <1>1, <2>1, <2>2, NobodyAhead DEF StillComing
  <2>3. CASE ~LastPeer(e)
    BY <1>1, <1>2, <2>1, <2>3 DEF StillComing, Ahead
  <2> QED BY <2>2, <2>3
<1> QED BY <1>1, <1>2, <1>3, <1>4 DEF DeliveryAt, Ahead

LEMMA SyncFailsDelivers ==
  ASSUME IInv, PlainHosts, SyncAssumption, StoreAssumption, NEW e \in Engine, DeliveryAt(e),
         SyncFails(e)
  PROVE  DeliveryAt(e)'
BY SyncFailsEffect DEF IInv, DeliveryAt

LEMMA ChooseDelivers ==
  ASSUME IInv, PlainHosts, SyncAssumption, StoreAssumption, NEW e \in Engine, DeliveryAt(e),
         ChooseConversation(e)
  PROVE  DeliveryAt(e)'
<1>1. PICK c \in eng[e].todo :
        /\ eng'[e].pc = "messages" /\ eng'[e].i = 1 /\ eng'[e].cur = c
        /\ eng'[e].todo = eng[e].todo \ {c} /\ eng'[e].known = GetMessages(Me(e), c)
        /\ eng'[e].goal = eng[e].goal /\ eng'[e].clean = eng[e].clean
        /\ eng'[e].vv = eng[e].vv
        /\ eng'[e].remote = eng[e].remote /\ eng'[e].missing = eng[e].missing
  BY ChooseEffect DEF IInv
<1>2. UNCHANGED rows /\ eng[e].pc = "choose"
  BY DEF ChooseConversation, storeVars
<1>3. ASSUME NEW m \in eng[e].goal, StillComing(e, m)
      PROVE  StillComing(e, m)'
  <2>1. ConvOf[m] \in eng[e].todo \/ m \in rows[Me(e)]
    BY <1>2, <1>3 DEF StillComing
  <2>2. Ahead(e, 1, m)
    BY <1>2 DEF DeliveryAt
  <2> QED BY <1>1, <1>2, <2>1, <2>2 DEF StillComing, Ahead, Me
<1>4. GetMessages(Me(e), c) \subseteq rows[Me(e)]
  BY DEF GetMessages, MessagesOf
<1> QED BY <1>1, <1>2, <1>3, <1>4 DEF DeliveryAt, Ahead, Me

\* After moving on to the next peer, nothing is lost that was with a later peer.
LEMMA MovesOnDelivers ==
  ASSUME TypeOK, SyncAssumption, NEW e \in Engine, DeliveryAt(e), MovesOn(e),
         UNCHANGED rows, eng[e].pc \in {"messages", "blobs"},
         eng'[e].clean => eng[e].clean,
         eng'[e].clean => \A m \in eng[e].goal :
           \/ ConvOf[m] \in eng[e].todo
           \/ m \in rows[Me(e)]
           \/ ConvOf[m] = eng[e].cur /\ Ahead(e, eng[e].i + 1, m)
  PROVE  DeliveryAt(e)'
<1>1. /\ eng'[e].pc = IF LastPeer(e) THEN "choose" ELSE "messages"
      /\ eng'[e].i = IF LastPeer(e) THEN eng[e].i ELSE eng[e].i + 1
      /\ eng'[e].cur = IF LastPeer(e) THEN NoConv ELSE eng[e].cur
      /\ eng'[e].known = IF LastPeer(e) THEN {} ELSE eng[e].known
      /\ eng'[e].todo = eng[e].todo /\ eng'[e].goal = eng[e].goal
      /\ eng'[e].vv = eng[e].vv
      /\ eng'[e].remote = eng[e].remote /\ eng'[e].missing = eng[e].missing
  BY DEF MovesOn
<1>2. ASSUME NEW m \in eng[e].goal, eng'[e].clean
      PROVE  StillComing(e, m)'
  <2>1. CASE LastPeer(e)
    <3>1. ~Ahead(e, eng[e].i + 1, m)
      BY <2>1, NobodyAhead
    <3>2. ConvOf[m] \in eng[e].todo \/ m \in rows[Me(e)]
      BY <1>2, <3>1
    <3> QED BY <1>1, <2>1, <3>2 DEF StillComing, Me
  <2>2. CASE ~LastPeer(e)
    <3>1. /\ eng'[e].pc = "messages" /\ eng'[e].i = eng[e].i + 1
          /\ eng'[e].cur = eng[e].cur /\ eng'[e].todo = eng[e].todo
      BY <1>1, <2>2
    <3> QED BY <1>2, <3>1 DEF StillComing, Ahead, Me
  <2> QED BY <2>1, <2>2
<1>3. eng[e].known \subseteq rows[Me(e)]
  BY DEF DeliveryAt
<1>4. \A m \in eng'[e].goal : Ahead(e, 1, m)'
  BY <1>1 DEF DeliveryAt, Ahead
<1>5. eng'[e].known \subseteq rows'[Me(e)'] /\ eng'[e].pc # "idle"
  BY <1>1, <1>3 DEF Me
<1> QED BY <1>1, <1>2, <1>4, <1>5 DEF DeliveryAt

LEMMA PullMessagesDelivers ==
  ASSUME IInv, PlainHosts, SyncAssumption, StoreAssumption, NEW e \in Engine, DeliveryAt(e),
         PullMissingMessages(e)
  PROVE  DeliveryAt(e)'
<1> DEFINE missing == GetMessages(Peer(e), eng[e].cur) \ eng[e].known
<1>0. TypeOK /\ EngineInv(e) /\ IndexAt(e) /\ eng[e].i \in Nat
  BY PeerCount DEF IInv, EngineInv
<1>1. \/ missing = {} /\ MovesOn(e) /\ eng'[e].clean = eng[e].clean
      \/ /\ eng'[e].pc = "insert" /\ eng'[e].i = eng[e].i /\ eng'[e].cur = eng[e].cur
         /\ eng'[e].incoming = missing /\ eng'[e].todo = eng[e].todo
         /\ eng'[e].goal = eng[e].goal /\ eng'[e].clean = eng[e].clean
         /\ eng'[e].known = eng[e].known /\ eng'[e].vv = eng[e].vv
         /\ eng'[e].remote = eng[e].remote /\ eng'[e].missing = eng[e].missing
  BY <1>0, PullMessagesEffect
<1>2. UNCHANGED rows /\ eng[e].pc = "messages"
  BY DEF PullMissingMessages, storeVars
<1>3. ASSUME NEW m \in eng[e].goal, eng[e].clean
      PROVE  \/ ConvOf[m] \in eng[e].todo
             \/ m \in rows[Me(e)]
             \/ ConvOf[m] = eng[e].cur /\ Ahead(e, eng[e].i + 1, m)
             \/ m \in missing
  <2>1. \/ ConvOf[m] \in eng[e].todo
        \/ m \in rows[Me(e)]
        \/ ConvOf[m] = eng[e].cur /\ Ahead(e, eng[e].i, m)
    BY <1>2, <1>3 DEF DeliveryAt, StillComing
  <2>2. CASE ConvOf[m] = eng[e].cur /\ m \in rows[Peer(e)]
    <3>1. m \in missing \/ m \in eng[e].known
      BY <2>2 DEF GetMessages, MessagesOf
    <3> QED BY <1>2, <3>1 DEF DeliveryAt
  <2> QED BY <1>0, <2>1, <2>2, AheadStep DEF Peer
<1> HIDE DEF missing
<1>4. CASE missing = {} /\ MovesOn(e) /\ eng'[e].clean = eng[e].clean
  BY <1>0, <1>2, <1>3, <1>4, MovesOnDelivers
<1>5. CASE /\ eng'[e].pc = "insert" /\ eng'[e].i = eng[e].i /\ eng'[e].cur = eng[e].cur
           /\ eng'[e].incoming = missing /\ eng'[e].todo = eng[e].todo
           /\ eng'[e].goal = eng[e].goal /\ eng'[e].clean = eng[e].clean
           /\ eng'[e].known = eng[e].known /\ eng'[e].vv = eng[e].vv
           /\ eng'[e].remote = eng[e].remote /\ eng'[e].missing = eng[e].missing
  <2>1. \A m \in eng[e].goal : eng[e].clean => StillComing(e, m)'
    BY <1>2, <1>3, <1>5 DEF StillComing, Ahead, Me
  <2> QED BY <1>2, <1>5, <2>1 DEF DeliveryAt, Ahead, Me
<1> QED BY <1>1, <1>4, <1>5

LEMMA PullFailsDelivers ==
  ASSUME IInv, PlainHosts, SyncAssumption, StoreAssumption, NEW e \in Engine, DeliveryAt(e),
         PullMessagesFails(e)
  PROVE  DeliveryAt(e)'
<1>1. TypeOK /\ MovesOn(e) /\ eng'[e].clean = FALSE
  BY PullFailsEffect DEF IInv
<1>2. UNCHANGED rows /\ eng[e].pc = "messages"
  BY DEF PullMessagesFails, storeVars
<1> QED BY <1>1, <1>2, MovesOnDelivers

LEMMA InsertDelivers ==
  ASSUME IInv, PlainHosts, SyncAssumption, StoreAssumption, NEW e \in Engine, DeliveryAt(e),
         InsertMessages(e)
  PROVE  DeliveryAt(e)'
<1>0. TypeOK /\ Me(e) \in Node
  BY EngineTypes DEF IInv
<1>1. /\ eng'[e].pc = "blobs" /\ eng'[e].i = eng[e].i /\ eng'[e].cur = eng[e].cur
      /\ eng'[e].todo = eng[e].todo /\ eng'[e].goal = eng[e].goal
      /\ eng'[e].clean = eng[e].clean /\ eng'[e].known = eng[e].known
      /\ eng'[e].vv = eng[e].vv
      /\ eng'[e].remote = eng[e].remote /\ eng'[e].missing = eng[e].missing
  BY <1>0, InsertEffect
<1>2. StoreGrows /\ rows'[Me(e)] = rows[Me(e)] \cup eng[e].incoming
  BY <1>0, InsertInv
<1>3. eng[e].pc = "insert"
  BY DEF InsertMessages
<1>4. \A k, m : Ahead(e, k, m) => Ahead(e, k, m)'
  BY <1>2, AheadGrows
<1>5. \A m \in eng[e].goal : StillComing(e, m) => StillComing(e, m)'
  BY <1>1, <1>2, <1>3, <1>4 DEF StillComing, Me
<1> QED BY <1>1, <1>2, <1>3, <1>4, <1>5 DEF DeliveryAt, Me

LEMMA AttachmentsDoneDelivers ==
  ASSUME IInv, PlainHosts, SyncAssumption, StoreAssumption, NEW e \in Engine, DeliveryAt(e),
         AttachmentsDone(e)
  PROVE  DeliveryAt(e)'
<1>1. TypeOK /\ MovesOn(e) /\ eng'[e].clean = eng[e].clean
  BY AttachmentsDoneEffect DEF IInv
<1>2. UNCHANGED rows /\ eng[e].pc = "blobs"
  BY DEF AttachmentsDone, storeVars
<1>3. \A m \in eng[e].goal : eng[e].clean =>
        \/ ConvOf[m] \in eng[e].todo
        \/ m \in rows[Me(e)]
        \/ ConvOf[m] = eng[e].cur /\ Ahead(e, eng[e].i + 1, m)
  BY <1>2 DEF DeliveryAt, StillComing
<1> QED BY <1>1, <1>2, <1>3, MovesOnDelivers

LEMMA BlobDelivers ==
  ASSUME IInv, PlainHosts, SyncAssumption, StoreAssumption, NEW e \in Engine, DeliveryAt(e),
         BlobStep(e), eng[e].pc = "blobs", UNCHANGED rows
  PROVE  DeliveryAt(e)'
<1>1. /\ eng'[e].pc = eng[e].pc /\ eng'[e].i = eng[e].i /\ eng'[e].cur = eng[e].cur
      /\ eng'[e].todo = eng[e].todo /\ eng'[e].goal = eng[e].goal
      /\ eng'[e].clean => eng[e].clean
      /\ eng'[e].known = eng[e].known /\ eng'[e].vv = eng[e].vv
      /\ eng'[e].remote = eng[e].remote /\ eng'[e].missing = eng[e].missing
  BY DEF BlobStep
<1>2. \A m \in eng[e].goal : StillComing(e, m) => StillComing(e, m)'
  BY <1>1 DEF StillComing, Ahead, Me
<1> QED BY <1>1, <1>2 DEF DeliveryAt, Ahead, Me

LEMMA ListDelivers ==
  ASSUME IInv, PlainHosts, SyncAssumption, StoreAssumption, NEW e \in Engine, DeliveryAt(e),
         ListForAntiEntropy(e)
  PROVE  DeliveryAt(e)'
<1>1. /\ eng'[e].pc = eng[e].pc /\ eng'[e].goal = eng[e].goal
      /\ eng'[e].clean = eng[e].clean /\ eng'[e].vv = eng[e].vv
      /\ eng'[e].remote = eng[e].remote /\ eng'[e].missing = eng[e].missing
  BY ListEffect DEF IInv
<1>2. UNCHANGED rows /\ eng[e].pc = "choose" /\ eng[e].todo = {}
  BY DEF ListForAntiEntropy, storeVars
<1>3. \A m \in eng[e].goal : StillComing(e, m) => StillComing(e, m)'
  BY <1>1, <1>2 DEF StillComing, Me
<1> QED BY <1>1, <1>2, <1>3 DEF DeliveryAt, Ahead

LEMMA FinishDelivers ==
  ASSUME IInv, PlainHosts, SyncAssumption, StoreAssumption, NEW e \in Engine, DeliveryAt(e),
         FinishSync(e)
  PROVE  DeliveryAt(e)'
<1>1. /\ eng'[e].pc = "idle" /\ eng'[e].goal = eng[e].goal /\ eng'[e].vv = eng[e].vv
      /\ eng'[e].last = IF eng[e].clean THEN "clean" ELSE "lossy"
      /\ eng'[e].remote = ZeroVector /\ eng'[e].missing = FALSE
  BY FinishEffect DEF IInv
<1>2. UNCHANGED rows /\ eng[e].pc = "choose" /\ eng[e].todo = {}
  BY DEF FinishSync, storeVars
<1>3. eng[e].clean => eng[e].goal \subseteq rows[Me(e)]
  BY <1>2 DEF DeliveryAt, StillComing
<1>4. eng'[e].last = "clean" => eng[e].clean
  BY <1>1
<1> QED BY <1>1, <1>2, <1>3, <1>4 DEF DeliveryAt, Me

(***************************************************************************)
(* The invariant and the theorem.                                          *)
(***************************************************************************)
LEMMA EngineDelivers ==
  ASSUME IInv, PlainHosts, SyncAssumption, StoreAssumption, NEW e \in Engine, DeliveryAt(e),
         EngineNext(e)
  PROVE  DeliveryAt(e)'
<1>0. TypeOK
  BY DEF IInv
<1>1. CASE PullAttachment(e)
  <2>1. BlobStep(e)
    BY <1>0, <1>1, PullAttachmentEffect
  <2> QED BY <1>1, <2>1, BlobDelivers DEF PullAttachment, WantsBlob
<1>2. CASE SkipAttachment(e)
  <2>1. BlobStep(e)
    BY <1>0, <1>2, SkipEffect
  <2> QED BY <1>2, <2>1, BlobDelivers DEF SkipAttachment, storeVars
<1>3. CASE PullAttachmentFails(e)
  <2>1. BlobStep(e)
    BY <1>0, <1>3, PullAttachmentFailsEffect
  <2> QED BY <1>3, <2>1, BlobDelivers DEF PullAttachmentFails, WantsBlob, storeVars
<1> QED BY <1>1, <1>2, <1>3, StartDelivers, ExchangeDelivers, MetadataDelivers,
           UpsertDelivers, FinishPeerDelivers, SyncFailsDelivers, ChooseDelivers,
           PullMessagesDelivers, PullFailsDelivers, InsertDelivers,
           AttachmentsDoneDelivers, ListDelivers, FinishDelivers
        DEF EngineNext, Start, Request, Continue, Fail

LEMMA StepDelivers ==
  ASSUME IInv, DeliveryInv, PlainHosts, SyncAssumption, StoreAssumption, [Next]_vars
  PROVE  DeliveryInv'
<1>0. TypeOK
  BY DEF IInv
<1>1. ASSUME NEW n \in Node, DeviceNext(n)
      PROVE  DeliveryInv'
  BY <1>0, <1>1, DeviceKeepsInv, DeliveryOther DEF DeliveryInv
<1>2. ASSUME NEW e \in Engine, EngineNext(e)
      PROVE  DeliveryInv'
  <2>1. StoreGrows /\ Others(e)
    BY <1>2, EngineStepLemma DEF EngineStep
  <2>2. SUFFICES ASSUME NEW f \in Engine PROVE DeliveryAt(f)'
    BY DEF DeliveryInv
  <2>3. CASE f = e
    BY <1>2, <2>3, EngineDelivers DEF DeliveryInv
  <2>4. CASE f # e
    BY <1>0, <2>1, <2>4, DeliveryOther DEF Others, DeliveryInv
  <2> QED BY <2>3, <2>4
<1>3. CASE UNCHANGED vars
  BY <1>3 DEF vars, DeliveryInv, DeliveryAt, StillComing, Ahead, Me
<1> QED BY <1>1, <1>2, <1>3 DEF Next

\* A call that met no failure delivers what the peers stored when it began.
THEOREM Delivery ==
  ASSUME PlainHosts
  PROVE  Spec => []SyncDelivers
<1>1. Init => DeliveryInv
  BY DEF Init, DeliveryInv, DeliveryAt, IdleEngine
<1>2. IInv /\ DeliveryInv /\ [Next]_vars => DeliveryInv'
  BY StepDelivers, SyncAssumption, StoreAssumption
<1>3. DeliveryInv => SyncDelivers
  BY DEF DeliveryInv, DeliveryAt, SyncDelivers
<1> QED BY <1>1, <1>2, <1>3, Invariant, PTL DEF Spec

(***************************************************************************)
(* Attachments.  An engine asks its peers for the attachments of what it   *)
(* received.  A peer that pulled the message itself may not have them yet, *)
(* but the device that appended the message has.                           *)
(***************************************************************************)

\* Every engine asks each device that may append messages, or is that device's.
Mesh ==
  \A e \in Engine, m \in Message :
    WritersOf[m] \subseteq {Me(e)} \cup {PeersOf[e][k] : k \in 1..Len(PeersOf[e])}

\* What the host stored with a message stays where the message was appended.
AuthorHolds(m) ==
  author[m] \in Node => author[m] \in WritersOf[m] /\ AttachmentsOf[m] \subseteq blobs[author[m]]

\* A hash an engine still has to fetch is stored by now, or with a peer that is to be asked for it.
HashComes(e, h) ==
  \/ h \in blobs[Me(e)]
  \/ \E k \in 1..Len(PeersOf[e]) :
       /\ h = CurrentHash(e) => k >= eng[e].j
       /\ h \in blobs[PeersOf[e][k]]

Fetches(e) == eng[e].pc = "blobs" => \A h \in eng[e].hashes : HashComes(e, h)

Fetching(e, h) == eng[e].pc = "blobs" /\ h \in eng[e].hashes

\* An attachment of a stored message is stored or being fetched.
Attached(n, h) == h \in blobs[n] \/ \E e \in Engine : Me(e) = n /\ Fetching(e, h)

BlobInv ==
  /\ \A m \in Message : AuthorHolds(m)
  /\ failures = 0 => \A e \in Engine : Fetches(e)
  /\ failures = 0 => \A n \in Node : \A m \in rows[n] : \A h \in AttachmentsOf[m] : Attached(n, h)

BlobsGrow == \A n \in Node : blobs[n] \subseteq blobs'[n]

PeerNode == \A e \in Engine : Me(e) \in Node /\ \A k \in 1..Len(PeersOf[e]) : PeersOf[e][k] \in Node

LEMMA PeersAreNodes == SyncAssumption => PeerNode
<1> SUFFICES ASSUME SyncAssumption, NEW e \in Engine
             PROVE  Me(e) \in Node /\ \A k \in 1..Len(PeersOf[e]) : PeersOf[e][k] \in Node
  BY DEF PeerNode
<1>1. PeersOf[e] \in Seq(Node) /\ Me(e) \in Node
  BY DEF SyncAssumption, Me
<1> QED BY <1>1

LEMMA SaveGrows ==
  ASSUME StoreTypeOK, NEW n \in Node, NEW h, SaveAttachment(n, h)
  PROVE  BlobsGrow
BY DEF SaveAttachment, StoreTypeOK, BlobsGrow

LEMMA SameEngineFetches ==
  ASSUME PeerNode, BlobsGrow, NEW f \in Engine, eng'[f] = eng[f], Fetches(f)
  PROVE  Fetches(f)' /\ \A h : Fetching(f, h) => Fetching(f, h)'
<1>1. Me(f)' = Me(f) /\ CurrentHash(f)' = CurrentHash(f)
  BY DEF Me, CurrentHash
<1> QED BY <1>1 DEF Fetches, Fetching, HashComes, BlobsGrow, PeerNode

\* What a step of an engine without a failed request does to attachments and messages.
BlobsKept(e) ==
  /\ BlobsGrow /\ Others(e) /\ author' = author
  /\ Fetches(e)'
  /\ \A h : Fetching(e, h) => Fetching(e, h)' \/ h \in blobs'[Me(e)]
  /\ \A n \in Node : \A m \in rows'[n] :
       m \in rows[n] \/ (n = Me(e) /\ \A h \in AttachmentsOf[m] : Fetching(e, h)')

\* Steps outside the loop over the attachments.
LEMMA QuietKeepsBlobs ==
  ASSUME NEW e \in Engine, Others(e), UNCHANGED <<rows, blobs, author>>, eng'[e].pc # "blobs",
         eng[e].pc = "blobs" => eng[e].hashes = {}
  PROVE  BlobsKept(e)
<1>1. Fetches(e)' /\ \A h : ~Fetching(e, h)
  BY DEF Fetches, Fetching
<1> QED BY <1>1 DEF BlobsKept, BlobsGrow

\* An answer arrives with messages whose author is asked for their attachments.
LEMMA InsertKeepsBlobs ==
  ASSUME IInv, SyncAssumption, StoreAssumption, Mesh, BlobInv, NEW e \in Engine, InsertMessages(e)
  PROVE  BlobsKept(e)
<1>1. TypeOK /\ EngineInv(e) /\ eng[e] \in EngineState /\ Me(e) \in Node
  BY EngineTypes DEF IInv
<1>2. eng[e].incoming \subseteq Message
  BY <1>1 DEF EngineState
<1> DEFINE wanted == UNION {AttachmentsOf[m] : m \in eng[e].incoming}
<1>3. eng' = [eng EXCEPT ![e] = [eng[e] EXCEPT !.pc = "blobs", !.j = 1, !.hashes = wanted]]
      /\ UNCHANGED <<blobs, author>>
  BY DEF InsertMessages
<1>4. Others(e) /\ eng'[e].pc = "blobs" /\ eng'[e].j = 1 /\ eng'[e].hashes = wanted
  BY <1>1, <1>3 DEF Others, TypeOK, EngineState
<1>5. \A n \in Node : rows'[n] = IF n = Me(e) THEN rows[n] \cup eng[e].incoming ELSE rows[n]
  BY <1>1, <1>2, InsertGrows DEF InsertMessages
<1>6. ASSUME NEW h \in wanted PROVE HashComes(e, h)'
  <2>1. PICK m \in eng[e].incoming : h \in AttachmentsOf[m]
    OBVIOUS
  <2>2. m \in Message /\ author[m] \in Node
    BY <1>1, <1>2 DEF EngineInv, InFlightAt
  <2>3. author[m] \in WritersOf[m] /\ h \in blobs[author[m]]
    BY <2>1, <2>2 DEF BlobInv, AuthorHolds
  <2>4. author[m] = Me(e) \/ \E k \in 1..Len(PeersOf[e]) : author[m] = PeersOf[e][k]
    BY <2>2, <2>3 DEF Mesh
  <2> QED BY <1>3, <1>4, <2>3, <2>4 DEF HashComes, Me
<1> HIDE DEF wanted
<1>7. Fetches(e)'
  BY <1>4, <1>6 DEF Fetches
<1>8. \A h \in wanted : Fetching(e, h)'
  BY <1>4 DEF Fetching
<1>9. \A m \in eng[e].incoming : \A h \in AttachmentsOf[m] : Fetching(e, h)'
  BY <1>8 DEF wanted
<1>10. \A h : ~Fetching(e, h)
  BY DEF Fetching, InsertMessages
<1> QED BY <1>3, <1>4, <1>5, <1>7, <1>9, <1>10 DEF BlobsKept, BlobsGrow

\* The hash the loop is at is stored, or the loop goes on to the next peer; it is never given up
\* while a peer that has it is still to be asked.
LEMMA LoopKeepsBlobs ==
  ASSUME IInv, SyncAssumption, StoreAssumption, BlobInv, failures = 0, NEW e \in Engine,
         SkipAttachment(e) \/ PullAttachment(e)
  PROVE  BlobsKept(e)
<1> DEFINE c == CurrentHash(e)
           j == eng[e].j
<1>1. TypeOK /\ EngineInv(e) /\ eng[e] \in EngineState /\ PeerNode
  BY EngineTypes, PeersAreNodes DEF IInv
<1>2. /\ eng[e].pc = "blobs" /\ eng[e].hashes # {} /\ c \in eng[e].hashes /\ Fetches(e)
      /\ j \in 1..Len(PeersOf[e]) /\ Len(PeersOf[e]) \in Nat
  BY <1>1, PeerCount DEF SkipAttachment, PullAttachment, WantsBlob, CurrentHash, BlobInv, EngineInv,
                         IndexAt
<1>3. UNCHANGED <<rows, author>> /\ BlobsGrow /\ Me(e)' = Me(e)
  <2>1. UNCHANGED <<rows, author>> /\ (UNCHANGED blobs \/ SaveAttachment(Me(e), c))
    BY DEF SkipAttachment, PullAttachment, storeVars
  <2>2. BlobsGrow
    BY <2>1, <1>1, SaveGrows DEF BlobsGrow, TypeOK, PeerNode
  <2> QED BY <2>1, <2>2 DEF Me
<1>4. \A h \in eng[e].hashes : HashComes(e, h)
  BY <1>2 DEF Fetches
<1>5. ASSUME c \in blobs'[Me(e)], Others(e), eng'[e].pc = "blobs", eng'[e].j = 1,
             eng'[e].hashes = eng[e].hashes \ {c}
      PROVE  BlobsKept(e)
  <2>1. ASSUME NEW h \in eng[e].hashes, h # c PROVE HashComes(e, h)'
    <3>1. CASE h \in blobs[Me(e)]
      BY <3>1, <1>1, <1>3 DEF HashComes, BlobsGrow, PeerNode
    <3>2. ASSUME NEW k \in 1..Len(PeersOf[e]), h \in blobs[PeersOf[e][k]] PROVE HashComes(e, h)'
      <4>1. k >= 1 /\ h \in blobs'[PeersOf[e][k]]
        BY <3>2, <1>1, <1>3 DEF BlobsGrow, PeerNode
      <4> QED BY <4>1, <1>5 DEF HashComes
    <3> QED BY <1>4, <3>1, <3>2 DEF HashComes
  <2>2. Fetches(e)'
    BY <1>5, <2>1 DEF Fetches
  <2>3. \A h : Fetching(e, h) => Fetching(e, h)' \/ h \in blobs'[Me(e)]
    BY <1>5 DEF Fetching
  <2> QED BY <1>3, <1>5, <2>2, <2>3 DEF BlobsKept
<1>6. ASSUME c \notin blobs[PeersOf[e][j]], UNCHANGED blobs, eng' = [eng EXCEPT ![e] = TryNextBlobPeer(e)]
      PROVE  BlobsKept(e)
  <2>1. CASE j < Len(PeersOf[e])
    <3>1. eng' = [eng EXCEPT ![e] = [eng[e] EXCEPT !.j = j + 1]]
      BY <1>6, <2>1 DEF TryNextBlobPeer
    <3>2. /\ Others(e) /\ eng'[e].pc = "blobs" /\ eng'[e].j = j + 1
          /\ eng'[e].hashes = eng[e].hashes
      BY <1>1, <1>2, <3>1 DEF Others, TypeOK, EngineState
    <3>3. CurrentHash(e)' = c
      BY <3>2 DEF CurrentHash
    <3>4. ASSUME NEW h \in eng[e].hashes PROVE HashComes(e, h)'
      <4>1. CASE h \in blobs[Me(e)]
        BY <4>1, <1>3, <1>6 DEF HashComes
      <4>2. ASSUME NEW k \in 1..Len(PeersOf[e]), h = c => k >= j, h \in blobs[PeersOf[e][k]]
            PROVE  HashComes(e, h)'
        <5>1. h = c => k # j
          BY <1>6, <4>2
        <5>2. h = c => k >= j + 1
          BY <1>2, <4>2, <5>1
        <5> QED BY <1>6, <3>2, <3>3, <4>2, <5>2 DEF HashComes
      <4> QED BY <1>4, <4>1, <4>2 DEF HashComes
    <3>5. Fetches(e)' /\ \A h : Fetching(e, h) => Fetching(e, h)'
      BY <1>2, <3>2, <3>4 DEF Fetches, Fetching
    <3> QED BY <1>3, <3>2, <3>5 DEF BlobsKept
  <2>2. CASE ~(j < Len(PeersOf[e]))
    <3>1. eng' = [eng EXCEPT ![e] = [eng[e] EXCEPT !.j = 1, !.hashes = eng[e].hashes \ {c}]]
      BY <1>6, <2>2 DEF TryNextBlobPeer
    <3>2. /\ Others(e) /\ eng'[e].pc = "blobs" /\ eng'[e].j = 1
          /\ eng'[e].hashes = eng[e].hashes \ {c}
      BY <1>1, <1>2, <3>1 DEF Others, TypeOK, EngineState
    <3>3. ASSUME NEW k \in 1..Len(PeersOf[e]), k >= j PROVE c \notin blobs[PeersOf[e][k]]
      BY <1>2, <1>6, <2>2, <3>3
    <3>4. c \in blobs[Me(e)]
      BY <1>2, <1>4, <3>3 DEF HashComes
    <3> QED BY <1>5, <1>6, <3>2, <3>4
  <2> QED BY <2>1, <2>2
<1>7. CASE SkipAttachment(e)
  <2>1. /\ eng' = [eng EXCEPT ![e] = [eng[e] EXCEPT !.hashes = eng[e].hashes \ {c}]]
        /\ UNCHANGED blobs /\ j = 1 /\ c \in blobs[Me(e)]
    BY <1>7 DEF SkipAttachment, storeVars
  <2>2. /\ Others(e) /\ eng'[e].pc = "blobs" /\ eng'[e].j = 1
        /\ eng'[e].hashes = eng[e].hashes \ {c}
    BY <1>1, <1>2, <2>1 DEF Others, TypeOK, EngineState
  <2> QED BY <1>5, <2>1, <2>2
<1>8. CASE PullAttachment(e)
  <2>1. CASE c \in blobs[BlobPeer(e)]
    <3>1. /\ eng' = [eng EXCEPT ![e] = [eng[e] EXCEPT !.j = 1, !.hashes = eng[e].hashes \ {c}]]
          /\ SaveAttachment(Me(e), c)
      BY <1>8, <2>1 DEF PullAttachment
    <3>2. /\ Others(e) /\ eng'[e].pc = "blobs" /\ eng'[e].j = 1
          /\ eng'[e].hashes = eng[e].hashes \ {c}
      BY <1>1, <1>2, <3>1 DEF Others, TypeOK, EngineState
    <3>3. c \in blobs'[Me(e)]
      BY <1>1, <3>1 DEF SaveAttachment, TypeOK, StoreTypeOK, PeerNode
    <3> QED BY <1>5, <3>2, <3>3
  <2>2. CASE c \notin blobs[BlobPeer(e)]
    BY <1>6, <1>8, <2>2 DEF PullAttachment, BlobPeer
  <2> QED BY <2>1, <2>2
<1> QED BY <1>7, <1>8

LEMMA EngineKeepsBlobs ==
  ASSUME IInv, SyncAssumption, StoreAssumption, Mesh, BlobInv, failures = 0, failures' = 0,
         NEW e \in Engine, EngineNext(e)
  PROVE  BlobsKept(e)
<1>1. TypeOK /\ IndexAt(e)
  BY DEF IInv, EngineInv
<1>2. ASSUME NEW mode \in Modes, StartSync(e, mode) PROVE BlobsKept(e)
  BY <1>1, <1>2, StartEffect, QuietKeepsBlobs DEF StartSync, storeVars
<1>3. CASE ExchangeVersionVector(e)
  BY <1>1, <1>3, ExchangeEffect, QuietKeepsBlobs DEF ExchangeVersionVector, storeVars
<1>4. CASE PullMissingMetadata(e)
  BY <1>1, <1>4, MetadataEffect, QuietKeepsBlobs DEF PullMissingMetadata, storeVars
<1>5. CASE UpsertOne(e)
  BY <1>1, <1>5, UpsertEffect, QuietKeepsBlobs DEF UpsertOne
<1>6. CASE FinishPeer(e)
  <2>1. Others(e) /\ eng'[e].pc # "blobs"
    BY <1>1, <1>6, FinishPeerEffect DEF MovesOn
  <2> QED BY <1>6, <2>1, QuietKeepsBlobs DEF FinishPeer, storeVars
<1>7. CASE ChooseConversation(e)
  BY <1>1, <1>7, ChooseEffect, QuietKeepsBlobs DEF ChooseConversation, storeVars
<1>8. CASE PullMissingMessages(e)
  <2>1. Others(e) /\ eng'[e].pc # "blobs"
    BY <1>1, <1>8, PullMessagesEffect DEF MovesOn
  <2> QED BY <1>8, <2>1, QuietKeepsBlobs DEF PullMissingMessages, storeVars
<1>9. CASE AttachmentsDone(e)
  <2>1. Others(e) /\ eng'[e].pc # "blobs"
    BY <1>1, <1>9, AttachmentsDoneEffect DEF MovesOn
  <2> QED BY <1>9, <2>1, QuietKeepsBlobs DEF AttachmentsDone, storeVars
<1>10. CASE ListForAntiEntropy(e)
  BY <1>1, <1>10, ListEffect, QuietKeepsBlobs DEF ListForAntiEntropy, storeVars
<1>11. CASE FinishSync(e)
  BY <1>1, <1>11, FinishEffect, QuietKeepsBlobs DEF FinishSync, storeVars
<1>12. CASE Fail(e)
  BY <1>12 DEF Fail, SyncFails, PullMessagesFails, PullAttachmentFails
<1> QED BY <1>2, <1>3, <1>4, <1>5, <1>6, <1>7, <1>8, <1>9, <1>10, <1>11, <1>12,
           InsertKeepsBlobs, LoopKeepsBlobs
        DEF EngineNext, Start, Request, Continue

\* A device that appends a message has stored what is attached to it.
LEMMA DeviceKeepsBlobs ==
  ASSUME IInv, SyncAssumption, StoreAssumption, BlobInv, NEW n \in Node, DeviceNext(n)
  PROVE  BlobInv'
<1>1. TypeOK /\ PeerNode /\ eng' = eng /\ failures' = failures
  BY DeviceKeepsInv, PeersAreNodes
     DEF IInv, DeviceNext, AuthorMessage, OpenConversation, RunTurnMetadata
<1>2. ASSUME NEW m \in Message, AuthorMessage(n, m) PROVE BlobInv'
  <2>1. /\ author' = [author EXCEPT ![m] = n] /\ n \in WritersOf[m] /\ author[m] = NoNode
        /\ blobs' = [blobs EXCEPT ![n] = @ \cup AttachmentsOf[m]]
        /\ rows' = [rows EXCEPT ![n] = @ \cup {m}]
    BY <1>2 DEF AuthorMessage, AppendMessage
  <2>2. BlobsGrow /\ AttachmentsOf[m] \subseteq blobs'[n] /\ author'[m] = n
        /\ \A x \in Message : x # m => author'[x] = author[x]
    BY <1>1, <2>1 DEF BlobsGrow, TypeOK, StoreTypeOK
  <2>3. \A p \in Node : \A x \in rows'[p] : x \in rows[p] \/ (x = m /\ p = n)
    BY <1>1, <2>1 DEF TypeOK, StoreTypeOK
  <2>4. ASSUME NEW x \in Message PROVE AuthorHolds(x)'
    BY <2>1, <2>2 DEF BlobInv, AuthorHolds, BlobsGrow
  <2>5. ASSUME failures = 0, NEW p \in Node, NEW x \in rows'[p], NEW h \in AttachmentsOf[x]
        PROVE  Attached(p, h)'
    <3>1. CASE x = m /\ p = n
      BY <3>1, <2>2, <2>5 DEF Attached
    <3>2. CASE x \in rows[p]
      <4>1. Attached(p, h)
        BY <2>5, <3>2 DEF BlobInv
      <4> QED BY <4>1, <1>1, <2>2 DEF Attached, BlobsGrow, Fetching, Me
    <3> QED BY <2>3, <2>5, <3>1, <3>2
  <2>6. failures = 0 => \A f \in Engine : Fetches(f)'
    BY <1>1, <2>2, SameEngineFetches DEF BlobInv
  <2> QED BY <1>1, <2>4, <2>5, <2>6 DEF BlobInv
<1>3. ASSUME UNCHANGED <<rows, blobs, author>> PROVE BlobInv'
  BY <1>1, <1>3 DEF BlobInv, AuthorHolds, Fetches, HashComes, Attached, Fetching, CurrentHash, Me
<1> QED BY <1>2, <1>3 DEF DeviceNext, OpenConversation, RunTurnMetadata

LEMMA StepKeepsBlobs ==
  IInv /\ SyncAssumption /\ StoreAssumption /\ Mesh /\ BlobInv /\ [Next]_vars => BlobInv'
<1> SUFFICES ASSUME IInv, SyncAssumption, StoreAssumption, Mesh, BlobInv, [Next]_vars
             PROVE  BlobInv'
  OBVIOUS
<1>1. ASSUME NEW e \in Engine, EngineNext(e) PROVE BlobInv'
  <2>1. EngineStep(e) /\ failures \in Nat /\ PeerNode /\ TypeOK
    BY <1>1, EngineStepLemma, PeersAreNodes DEF IInv, TypeOK
  <2>2. BlobsGrow /\ author' = author /\ (failures' = 0 => failures = 0)
    <3>1. Me(e) \in Node /\ author' = author
      BY <2>1 DEF PeerNode, EngineStep
    <3>2. UNCHANGED blobs \/ \E h : SaveAttachment(Me(e), h)
      BY <1>1 DEF EngineNext, Start, Request, Continue, Fail, StartSync, ExchangeVersionVector,
           PullMissingMetadata, PullMissingMessages, PullAttachment, UpsertOne, FinishPeer,
           ChooseConversation, InsertMessages, AttachmentsDone, SkipAttachment,
           ListForAntiEntropy, FinishSync, SyncFails, PullMessagesFails, PullAttachmentFails,
           storeVars
    <3>3. BlobsGrow
      BY <2>1, <3>1, <3>2, SaveGrows DEF BlobsGrow, TypeOK
    <3>4. failures' \in {failures, failures + 1}
      BY <1>1 DEF EngineNext, Start, Request, Continue, Fail, StartSync, ExchangeVersionVector,
           PullMissingMetadata, PullMissingMessages, PullAttachment, UpsertOne, FinishPeer,
           ChooseConversation, InsertMessages, AttachmentsDone, SkipAttachment,
           ListForAntiEntropy, FinishSync, SyncFails, PullMessagesFails, PullAttachmentFails
    <3> QED BY <2>1, <3>1, <3>3, <3>4
  <2>3. ASSUME NEW m \in Message PROVE AuthorHolds(m)'
    BY <2>2 DEF BlobInv, AuthorHolds, BlobsGrow
  <2>4. CASE failures' = 0
    <3>1. BlobsKept(e) /\ failures = 0
      BY <1>1, <2>2, <2>4, EngineKeepsBlobs
    <3>2. \A f \in Engine : Fetches(f)' /\ (f # e => \A h : Fetching(f, h) => Fetching(f, h)')
      BY <2>1, <3>1, SameEngineFetches DEF BlobsKept, Others, BlobInv
    <3>3. ASSUME NEW p \in Node, NEW x \in rows'[p], NEW h \in AttachmentsOf[x]
          PROVE  Attached(p, h)'
      <4>1. CASE p = Me(e) /\ Fetching(e, h)'
        BY <4>1 DEF Attached, Me
      <4>2. CASE x \in rows[p]
        <5>1. h \in blobs[p] \/ \E f \in Engine : Me(f) = p /\ Fetching(f, h)
          BY <3>1, <4>2 DEF BlobInv, Attached
        <5>2. CASE h \in blobs[p]
          BY <2>2, <5>2 DEF BlobsGrow, Attached
        <5>3. ASSUME NEW f \in Engine, Me(f) = p, Fetching(f, h) PROVE Attached(p, h)'
          BY <3>1, <3>2, <5>3 DEF BlobsKept, Attached, Me
        <5> QED BY <5>1, <5>2, <5>3
      <4> QED BY <3>1, <3>3, <4>1, <4>2 DEF BlobsKept
    <3> QED BY <2>3, <3>2, <3>3 DEF BlobInv
  <2> QED BY <2>3, <2>4 DEF BlobInv
<1>2. CASE UNCHANGED vars
  BY <1>2 DEF vars, BlobInv, AuthorHolds, Fetches, HashComes, Attached, Fetching, CurrentHash, Me
<1> QED BY <1>1, <1>2, DeviceKeepsBlobs DEF Next

\* Where every engine asks the devices that append messages, a device that is not synchronising has
\* the attachments of all its messages, unless a request failed
\* (ensureAttachmentsFromMessages): no peer that is itself behind makes it give one up.
THEOREM AttachmentsArrive == Mesh /\ Spec => []BlobsFollowMessages
<1> SUFFICES ASSUME Mesh PROVE Spec => []BlobsFollowMessages
  OBVIOUS
<1>1. Init => BlobInv
  BY SyncAssumption DEF Init, StoreInit, BlobInv, AuthorHolds, Fetches, Attached, IdleEngine,
                        SyncAssumption
<1>2. IInv /\ BlobInv /\ [Next]_vars => BlobInv'
  BY StepKeepsBlobs, SyncAssumption, StoreAssumption
<1>3. BlobInv => BlobsFollowMessages
  BY DEF BlobInv, BlobsFollowMessages, Attached, Fetching
<1> QED BY <1>1, <1>2, <1>3, Invariant, PTL DEF Spec

==============================================================================
