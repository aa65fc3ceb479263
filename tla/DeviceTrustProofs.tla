--------------------------- MODULE DeviceTrustProofs ---------------------------
(***************************************************************************)
(* Theorems about DeviceTrust, for every set of devices and pairing        *)
(* requests and every bound.                                               *)
(***************************************************************************)
EXTENDS DeviceTrust, SequenceTheorems, TLAPS

(***************************************************************************)
(* What the calls of the store under way have in common.                   *)
(***************************************************************************)

\* A save is that of a session of the device with that peer, which its user
\* accepted.
WritesAreOwn ==
  \A i \in Device, j \in Device : \A n \in 1..Len(writes[i][j]) :
    /\ i # j
    /\ writes[i][j][n].op = "save" => i \in Ends(writes[i][j][n].session) /\ j \in ever[i]

(***************************************************************************)
(* Types.  One lemma per action, after what several of them do.            *)
(***************************************************************************)
LEMMA PeerAdded ==
  ASSUME NEW f \in PeerSets, NEW i \in Device, NEW S \in SUBSET Peers(i)
  PROVE  [f EXCEPT ![i] = @ \cup S] \in PeerSets
BY DEF PeerSets, Peers

LEMMA PeerDropped ==
  ASSUME NEW f \in PeerSets, NEW i \in Device, NEW S
  PROVE  [f EXCEPT ![i] = @ \ S] \in PeerSets
BY DEF PeerSets

LEMMA RemoteIsPeer ==
  ASSUME DeviceTrustAssumption, NEW s \in Session, NEW i \in Ends(s)
  PROVE  i \in Device /\ Remote(i, s) \in Peers(i)
BY DEF DeviceTrustAssumption, Ends, Remote, Peers

LEMMA FoundType ==
  ASSUME TypeOK, NEW i \in Device, NEW j \in Peers(i), NEW b \in BOOLEAN,
         found' = [found EXCEPT ![i][j] = FlagIfFound(i, j, b)], up' = up
  PROVE  /\ found' \in [Device -> [Device -> {"unknown", "untrusted", "trusted"}]]
         /\ \A k \in Device, l \in Device : found'[k][l] # "unknown" => k \in up' /\ k # l
<1>1. j \in Device
  BY DEF Peers
<1> QED BY <1>1 DEF TypeOK, FlagIfFound, Flag

LEMMA CallWrites ==
  ASSUME TypeOK, NEW i \in Device, NEW j \in Peers(i), NEW w \in Write, Call(i, j, w)
  PROVE  /\ writes' \in [Device -> [Device -> Seq(Write)]]
         /\ writes'[i][j] = Append(writes[i][j], w)
         /\ \A k, l \in Device : k # i \/ l # j => writes'[k][l] = writes[k][l]
<1>1. j \in Device /\ writes[i][j] \in Seq(Write)
  BY DEF TypeOK, Peers
<1>2. Append(writes[i][j], w) \in Seq(Write)
  BY <1>1
<1>3. writes' = [writes EXCEPT ![i][j] = Append(writes[i][j], w)]
  BY DEF Call
<1> QED BY <1>1, <1>2, <1>3 DEF TypeOK

LEMMA SettleWrites ==
  ASSUME TypeOK, NEW i \in Device, NEW j \in Peers(i), ~Idle(i, j), Settle(i, j)
  PROVE  /\ writes' \in [Device -> [Device -> Seq(Write)]]
         /\ writes'[i][j] = Tail(writes[i][j])
         /\ \A k, l \in Device : k # i \/ l # j => writes'[k][l] = writes[k][l]
         /\ Head(writes[i][j]) \in Write
<1>1. j \in Device /\ writes[i][j] \in Seq(Write) /\ writes[i][j] # <<>>
  BY DEF TypeOK, Peers, Idle
<1>2. Tail(writes[i][j]) \in Seq(Write) /\ Head(writes[i][j]) \in Write
  BY <1>1
<1>3. writes' = [writes EXCEPT ![i][j] = Tail(writes[i][j])]
  BY DEF Settle
<1> QED BY <1>1, <1>2, <1>3 DEF TypeOK

LEMMA StartType ==
  ASSUME TypeOK, WritesAreOwn, DeviceTrustAssumption, NEW i \in Device, Start(i)
  PROVE  TypeOK'
BY DEF TypeOK, PeerSets, Peers, history, Start, Loaded

LEMMA StopType ==
  ASSUME TypeOK, WritesAreOwn, DeviceTrustAssumption, NEW i \in Device, Stop(i)
  PROVE  TypeOK'
BY DEF TypeOK, PeerSets, Peers, history, Stop, NodeDown, Upset

LEMMA CrashType ==
  ASSUME TypeOK, WritesAreOwn, DeviceTrustAssumption, NEW i \in Device, Crash(i)
  PROVE  TypeOK'
<1>1. PICK stored \in SUBSET Peers(i) : disk' = [disk EXCEPT ![i] = stored]
  BY DEF Crash
<1>2. disk' \in PeerSets /\ trusted' \in PeerSets /\ given' \in PeerSets /\ adrift' \in PeerSets
  <2>1. stored \in SUBSET Device /\ i \notin stored
    BY DEF Peers
  <2>2. disk' \in PeerSets
    BY <1>1, <2>1 DEF TypeOK, PeerSets
  <2>3. /\ trusted' = [trusted EXCEPT ![i] = {}]
        /\ given' = [given EXCEPT ![i] = {}] /\ adrift' = [adrift EXCEPT ![i] = {}]
    BY DEF Crash
  <2> QED BY <2>2, <2>3 DEF TypeOK, PeerSets
<1>3. confirmed' \in PeerSets
  <2>1. {j \in ever[i] : ~Idle(i, j)} \in SUBSET Peers(i)
    BY DEF TypeOK, PeerSets, Peers
  <2>2. confirmed' = [confirmed EXCEPT ![i] = @ \cup {j \in ever[i] : ~Idle(i, j)}]
    BY DEF Crash
  <2> QED BY <2>1, <2>2, PeerAdded DEF TypeOK
<1>4. /\ session' \in [Device -> [Session -> Statuses]]
      /\ \A k \in Device, s \in Session : session'[k][s] # "none" => k \in Ends(s)
  BY DEF TypeOK, Crash, Statuses
<1>5. writes' \in [Device -> [Device -> Seq(Write)]]
  BY DEF TypeOK, Crash
<1>6. /\ up' \subseteq Device /\ stream' \subseteq Device \X Device
      /\ found' \in [Device -> [Device -> {"unknown", "untrusted", "trusted"}]]
      /\ \A k \in Device, l \in Device : found'[k][l] # "unknown" => k \in up' /\ k # l
      /\ handshake' \in [Session -> {"new", "sent", "answered", "done", "failed"}]
  BY DEF TypeOK, Crash, NodeDown
<1>7. upsets' \in 0..MaxUpsets
  BY DEF TypeOK, Crash, Upset, DeviceTrustAssumption
<1> QED BY <1>2, <1>3, <1>4, <1>5, <1>6, <1>7 DEF TypeOK, Crash

LEMMA RequestType ==
  ASSUME TypeOK, WritesAreOwn, DeviceTrustAssumption, NEW s \in Session, RequestLocalPairing(s)
  PROVE  TypeOK'
BY DEF TypeOK, PeerSets, Peers, history, RequestLocalPairing

LEMMA HandleType ==
  ASSUME TypeOK, WritesAreOwn, DeviceTrustAssumption, NEW s \in Session, HandlePairingStream(s)
  PROVE  TypeOK'
BY DEF TypeOK, PeerSets, Peers, history, HandlePairingStream, PairingFound, Flag, Ends, Statuses

LEMMA ResponseType ==
  ASSUME TypeOK, WritesAreOwn, DeviceTrustAssumption, NEW s \in Session, PairingResponse(s)
  PROVE  TypeOK'
BY DEF TypeOK, PeerSets, Peers, history, PairingResponse, PairingFound, Flag, Ends, Statuses

LEMMA FailsType ==
  ASSUME TypeOK, WritesAreOwn, DeviceTrustAssumption, NEW s \in Session, PairingFails(s)
  PROVE  TypeOK'
BY DEF TypeOK, PeerSets, Peers, history, PairingFails

LEMMA TickType ==
  ASSUME TypeOK, WritesAreOwn, DeviceTrustAssumption, NEW s \in Session, NEW i \in Ends(s), Tick(i, s)
  PROVE  TypeOK'
<1>1. i \in Device
  BY RemoteIsPeer
<1>2. clock[i] \in [Session -> 0..2] /\ clock[i][s] < 2
  BY <1>1 DEF TypeOK, Tick
<1>3. clock[i][s] + 1 \in 0..2
  BY <1>2
<1>4. clock' = [clock EXCEPT ![i] = [clock[i] EXCEPT ![s] = clock[i][s] + 1]]
  BY DEF Tick
<1>5. clock' \in [Device -> [Session -> 0..2]]
  BY <1>1, <1>2, <1>3, <1>4 DEF TypeOK
<1> QED BY <1>5 DEF TypeOK, Tick, history

LEMMA AcceptType ==
  ASSUME TypeOK, WritesAreOwn, DeviceTrustAssumption, NEW s \in Session, NEW i \in Ends(s), AcceptPairing(i, s)
  PROVE  TypeOK'
<1> DEFINE j == Remote(i, s)
<1>1. i \in Device /\ j \in Peers(i) /\ Save(s) \in Write
  BY RemoteIsPeer DEF Write
<1>2. writes' \in [Device -> [Device -> Seq(Write)]]
  BY <1>1, CallWrites DEF AcceptPairing
<1>3. /\ trusted' = [trusted EXCEPT ![i] = @ \cup {j}]
      /\ confirmed' = [confirmed EXCEPT ![i] = @ \cup {j}]
      /\ ever' = [ever EXCEPT ![i] = @ \cup {j}]
      /\ given' = [given EXCEPT ![i] = @ \ {j}]
  BY DEF AcceptPairing
<1> HIDE DEF j
<1>4. trusted' \in PeerSets /\ confirmed' \in PeerSets /\ ever' \in PeerSets /\ given' \in PeerSets
  BY <1>1, <1>3, PeerAdded, PeerDropped DEF TypeOK
<1> QED BY <1>2, <1>4 DEF TypeOK, AcceptPairing

LEMMA AcceptExpiredType ==
  ASSUME TypeOK, WritesAreOwn, DeviceTrustAssumption, NEW s \in Session, NEW i \in Ends(s), AcceptExpired(i, s)
  PROVE  TypeOK'
BY DEF TypeOK, PeerSets, Peers, history, AcceptExpired, Ends, Statuses

LEMMA RejectType ==
  ASSUME TypeOK, WritesAreOwn, DeviceTrustAssumption, NEW s \in Session, NEW i \in Ends(s), RejectPairing(i, s)
  PROVE  TypeOK'
<1>1. i \in Device
  BY RemoteIsPeer
<1> QED BY <1>1 DEF TypeOK, RejectPairing, history, Statuses

LEMMA RefreshType ==
  ASSUME TypeOK, WritesAreOwn, DeviceTrustAssumption, NEW i \in Device, RefreshExpiry(i)
  PROVE  TypeOK'
BY DEF TypeOK, PeerSets, Peers, history, RefreshExpiry, Statuses

LEMMA RemoveType ==
  ASSUME TypeOK, WritesAreOwn, DeviceTrustAssumption, NEW i \in Device, NEW j \in Peers(i), RemoveTrustedDevice(i, j)
  PROVE  TypeOK'
<1>1. writes' \in [Device -> [Device -> Seq(Write)]]
  BY CallWrites DEF RemoveTrustedDevice, Write
<1>2. trusted' \in PeerSets /\ confirmed' \in PeerSets /\ given' \in PeerSets
  BY PeerDropped DEF TypeOK, RemoveTrustedDevice
<1>3. upsets' \in 0..MaxUpsets
  BY DEF TypeOK, RemoveTrustedDevice, Upset, DeviceTrustAssumption
<1> QED BY <1>1, <1>2, <1>3 DEF TypeOK, RemoveTrustedDevice

LEMMA UpsertType ==
  ASSUME TypeOK, WritesAreOwn, DeviceTrustAssumption, NEW i \in Device, NEW j \in Peers(i), UpsertTrustedDevice(i, j)
  PROVE  TypeOK'
<1>1. {j} \in SUBSET Peers(i)
  OBVIOUS
<1>2. trusted' \in PeerSets /\ confirmed' \in PeerSets /\ ever' \in PeerSets /\ given' \in PeerSets
  BY <1>1, PeerAdded DEF TypeOK, UpsertTrustedDevice
<1>3. /\ found' \in [Device -> [Device -> {"unknown", "untrusted", "trusted"}]]
      /\ \A k \in Device, l \in Device : found'[k][l] # "unknown" => k \in up' /\ k # l
  BY FoundType DEF UpsertTrustedDevice
<1>4. upsets' \in 0..MaxUpsets
  BY DEF TypeOK, UpsertTrustedDevice, Upset, DeviceTrustAssumption
<1> QED BY <1>2, <1>3, <1>4 DEF TypeOK, UpsertTrustedDevice

LEMMA SaveDoneType ==
  ASSUME TypeOK, WritesAreOwn, DeviceTrustAssumption, NEW i \in Device, NEW j \in Peers(i), SaveDone(i, j)
  PROVE  TypeOK'
<1> DEFINE s == Head(writes[i][j]).session
<1>1. writes' \in [Device -> [Device -> Seq(Write)]] /\ Head(writes[i][j]) \in Write
  BY SettleWrites DEF SaveDone
<1>2. s \in Session /\ i \in Ends(s)
  <2>1. j \in Device /\ writes[i][j] \in Seq(Write) /\ writes[i][j] # <<>>
    BY DEF TypeOK, Peers, SaveDone, Idle
  <2>2. 1 \in 1..Len(writes[i][j]) /\ writes[i][j][1] = Head(writes[i][j])
    BY <2>1
  <2>3. Head(writes[i][j]).op = "save"
    BY DEF SaveDone
  <2>4. i \in Ends(s)
    BY <2>1, <2>2, <2>3 DEF WritesAreOwn
  <2>5. s \in Session
    BY <1>1, <2>3 DEF Write, Save, Removal
  <2> QED BY <2>4, <2>5
<1>3. session' = [session EXCEPT ![i][s] = "accepted"]
  BY DEF SaveDone
<1> HIDE DEF s
<1>4. /\ session' \in [Device -> [Session -> Statuses]]
      /\ \A k \in Device, t \in Session : session'[k][t] # "none" => k \in Ends(t)
  BY <1>2, <1>3 DEF TypeOK, Statuses
<1>5. disk' \in PeerSets /\ adrift' \in PeerSets
  <2>1. {j} \in SUBSET Peers(i)
    OBVIOUS
  <2> QED BY <2>1, PeerAdded, PeerDropped DEF TypeOK, SaveDone
<1>6. /\ found' \in [Device -> [Device -> {"unknown", "untrusted", "trusted"}]]
      /\ \A k \in Device, l \in Device : found'[k][l] # "unknown" => k \in up' /\ k # l
  BY FoundType DEF SaveDone
<1> QED BY <1>1, <1>4, <1>5, <1>6 DEF TypeOK, SaveDone

LEMMA RemoveDoneType ==
  ASSUME TypeOK, WritesAreOwn, DeviceTrustAssumption, NEW i \in Device, NEW j \in Peers(i), RemoveDone(i, j)
  PROVE  TypeOK'
<1>1. writes' \in [Device -> [Device -> Seq(Write)]]
  BY SettleWrites DEF RemoveDone
<1>2. disk' \in PeerSets /\ adrift' \in PeerSets
  BY PeerDropped DEF TypeOK, RemoveDone
<1>3. /\ found' \in [Device -> [Device -> {"unknown", "untrusted", "trusted"}]]
      /\ \A k \in Device, l \in Device : found'[k][l] # "unknown" => k \in up' /\ k # l
  BY FoundType DEF RemoveDone
<1> QED BY <1>1, <1>2, <1>3 DEF TypeOK, RemoveDone

LEMMA WriteFailsType ==
  ASSUME TypeOK, WritesAreOwn, DeviceTrustAssumption, NEW i \in Device, NEW j \in Peers(i), WriteFails(i, j)
  PROVE  TypeOK'
<1>1. writes' \in [Device -> [Device -> Seq(Write)]]
  BY SettleWrites DEF WriteFails
<1>2. adrift' \in PeerSets
  <2>1. {j} \in SUBSET Peers(i)
    OBVIOUS
  <2> QED BY <2>1, PeerAdded DEF TypeOK, WriteFails
<1>3. confirmed' \in PeerSets
  BY DEF TypeOK, PeerSets, Peers, WriteFails
<1>4. upsets' \in 0..MaxUpsets
  BY DEF TypeOK, WriteFails, Upset, DeviceTrustAssumption
<1> QED BY <1>1, <1>2, <1>3, <1>4 DEF TypeOK, WriteFails

LEMMA DiscoverType ==
  ASSUME TypeOK, WritesAreOwn, DeviceTrustAssumption, NEW i \in Device, NEW j \in Peers(i), Discover(i, j)
  PROVE  TypeOK'
BY DEF TypeOK, PeerSets, Peers, history, Discover, Flag

LEMMA OpenType ==
  ASSUME TypeOK, WritesAreOwn, DeviceTrustAssumption, NEW i \in Device, NEW j \in Peers(i), OpenStream(i, j)
  PROVE  TypeOK'
<1>1. j \in Device
  BY DEF Peers
<1>2. stream' \subseteq Device \X Device
  BY <1>1 DEF TypeOK, OpenStream
<1> QED BY <1>2 DEF TypeOK, OpenStream, history

LEMMA HandleStreamType ==
  ASSUME TypeOK, WritesAreOwn, DeviceTrustAssumption, NEW i \in Device, NEW j \in Peers(i), HandleStream(i, j)
  PROVE  TypeOK'
BY DEF TypeOK, PeerSets, Peers, history, HandleStream

(***************************************************************************)
(* Trust.  A record in the store may outlive its confirmation only while   *)
(* the removal that will take it away is under way.                        *)
(***************************************************************************)

\* What the invariant says of one device and one peer of it.
LastWord(i, j) ==
  j \notin confirmed[i] /\ ~Idle(i, j) => writes[i][j][Len(writes[i][j])] = Removal

StoredWasConfirmed(i, j) == j \in disk[i] /\ Idle(i, j) => j \in confirmed[i]

EverIncludes(i, j) == j \in disk[i] \cup confirmed[i] => j \in ever[i]

TrustedPair(i, j) ==
  /\ j \in trusted[i] => j \in confirmed[i]
  /\ LastWord(i, j) /\ StoredWasConfirmed(i, j) /\ EverIncludes(i, j)

StreamsOfEver == \A r \in stream : r[2] \in ever[r[1]]

IInv ==
  /\ TypeOK /\ WritesAreOwn
  /\ \A i \in Device, j \in Device : TrustedPair(i, j)
  /\ StreamsOfEver /\ BusinessNeedsBoth

LEMMA InitInv == Init => IInv
<1> SUFFICES ASSUME Init PROVE IInv
  OBVIOUS
<1>1. <<>> \in Seq(Write) /\ 0 \in 0..MaxUpsets
  BY DeviceTrustAssumption
<1>2. TypeOK
  BY <1>1 DEF Init, TypeOK, PeerSets, Statuses
<1>3. WritesAreOwn
  BY DEF Init, WritesAreOwn
<1>4. \A i \in Device, j \in Device : TrustedPair(i, j)
  BY DEF Init, TrustedPair, LastWord, StoredWasConfirmed, EverIncludes, Idle
<1>5. StreamsOfEver /\ BusinessNeedsBoth
  BY DEF Init, StreamsOfEver, BusinessNeedsBoth
<1> QED BY <1>2, <1>3, <1>4, <1>5 DEF IInv

\* Steps that concern no record.
LEMMA QuietInv ==
  ASSUME IInv, UNCHANGED <<trusted, disk, writes, confirmed, ever>>
  PROVE  WritesAreOwn' /\ \A i \in Device, j \in Device : TrustedPair(i, j)'
BY DEF IInv, WritesAreOwn, TrustedPair, LastWord, StoredWasConfirmed, EverIncludes, Idle

\* Requests under way stay between those who agreed, and so do those handled.
LEMMA StreamInv ==
  ASSUME IInv, TypeOK', stream' \subseteq stream, served' = served,
         \A i \in Device : ever[i] \subseteq ever'[i]
  PROVE  StreamsOfEver' /\ BusinessNeedsBoth'
<1>1. \A r \in stream \cup served : r[1] \in Device /\ r[2] \in Device
  BY DEF IInv, TypeOK
<1> QED BY <1>1 DEF IInv, StreamsOfEver, BusinessNeedsBoth

\* A step that changes what is known of peer j on device i only.
LEMMA PairInv ==
  ASSUME IInv, NEW i \in Device, NEW j \in Device,
         \A k \in Device, l \in Device : k # i \/ l # j =>
           /\ l \in trusted'[k] <=> l \in trusted[k]
           /\ l \in disk'[k] <=> l \in disk[k]
           /\ l \in confirmed'[k] <=> l \in confirmed[k]
           /\ l \in ever'[k] <=> l \in ever[k]
           /\ writes'[k][l] = writes[k][l],
         TrustedPair(i, j)'
  PROVE  \A k \in Device, l \in Device : TrustedPair(k, l)'
<1> SUFFICES ASSUME NEW k \in Device, NEW l \in Device, k # i \/ l # j
             PROVE  TrustedPair(k, l)'
  OBVIOUS
<1>1. TrustedPair(k, l)
  BY DEF IInv
<1> QED BY <1>1 DEF TrustedPair, LastWord, StoredWasConfirmed, EverIncludes, Idle

LEMMA StartInv == ASSUME IInv, DeviceTrustAssumption, NEW i \in Device, Start(i) PROVE IInv'
<1>1. TypeOK'
  BY StartType DEF IInv
<1>2. /\ UNCHANGED <<disk, writes, confirmed, ever, stream, served>>
      /\ \A j \in Peers(i) : Idle(i, j)
      /\ trusted' = [trusted EXCEPT ![i] = trusted[i] \cup disk[i]]
  BY DEF Start, Loaded, history
<1>3. WritesAreOwn'
  BY <1>2 DEF IInv, WritesAreOwn
<1>4. ASSUME NEW k \in Device, NEW l \in Device PROVE TrustedPair(k, l)'
  <2>1. TrustedPair(k, l) /\ l \in disk[i] => l \in Peers(i)
    BY DEF IInv, TypeOK, PeerSets, Peers
  <2>2. l \in trusted'[k] => l \in trusted[k] \/ (k = i /\ l \in disk[i])
    BY <1>2 DEF IInv, TypeOK, PeerSets
  <2>3. TrustedPair(k, l)
    BY DEF IInv
  <2> QED BY <1>2, <2>1, <2>2, <2>3 DEF TrustedPair, LastWord, StoredWasConfirmed, EverIncludes, Idle
<1>5. StreamsOfEver' /\ BusinessNeedsBoth'
  BY <1>1, <1>2, StreamInv
<1> QED BY <1>1, <1>3, <1>4, <1>5 DEF IInv

LEMMA CrashInv == ASSUME IInv, DeviceTrustAssumption, NEW i \in Device, Crash(i) PROVE IInv'
<1> PICK stored \in SUBSET Peers(i) :
      /\ \A j \in Peers(i) : (j \in stored) \in MayBeStored(i, j)
      /\ disk' = [disk EXCEPT ![i] = stored]
  BY DEF Crash
<1>1. TypeOK'
  BY CrashType DEF IInv
<1>2. /\ confirmed' = [confirmed EXCEPT ![i] = @ \cup {j \in ever[i] : ~Idle(i, j)}]
      /\ trusted' = [trusted EXCEPT ![i] = {}]
      /\ writes' = [writes EXCEPT ![i] = [j \in Device |-> <<>>]]
      /\ UNCHANGED <<served, ever>> /\ stream' \subseteq stream
  BY DEF Crash, NodeDown
<1>3. WritesAreOwn'
  <2>1. ASSUME NEW k \in Device, NEW l \in Device
        PROVE  writes'[k][l] = <<>> \/ writes'[k][l] = writes[k][l]
    BY <1>2 DEF IInv, TypeOK
  <2> QED BY <1>2, <2>1 DEF IInv, WritesAreOwn
<1>4. ASSUME NEW k \in Device, NEW l \in Device, k # i PROVE TrustedPair(k, l)'
  <2>1. /\ trusted'[k] = trusted[k] /\ disk'[k] = disk[k] /\ confirmed'[k] = confirmed[k]
        /\ writes'[k] = writes[k]
    BY <1>2, <1>4 DEF IInv, TypeOK, PeerSets
  <2>2. TrustedPair(k, l)
    BY DEF IInv
  <2> QED BY <1>2, <2>1, <2>2 DEF TrustedPair, LastWord, StoredWasConfirmed, EverIncludes, Idle
<1>5. ASSUME NEW l \in Device PROVE TrustedPair(i, l)'
  <2>1. /\ trusted'[i] = {} /\ disk'[i] = stored /\ writes'[i][l] = <<>>
        /\ confirmed'[i] = confirmed[i] \cup {j \in ever[i] : ~Idle(i, j)}
    BY <1>2 DEF IInv, TypeOK, PeerSets
  <2>2. l \in stored => l \in ever[i] /\ (Idle(i, l) => l \in disk[i])
    <3> SUFFICES ASSUME l \in stored
                 PROVE  l \in ever[i] /\ (Idle(i, l) => l \in disk[i])
      OBVIOUS
    <3>1. TRUE \in MayBeStored(i, l)
      <4>1. (l \in stored) \in MayBeStored(i, l)
        OBVIOUS
      <4>2. (l \in stored) = TRUE
        OBVIOUS
      <4> QED BY <4>1, <4>2, Zenon
    <3>2. l \in disk[i] \/ \E w \in ToSet(writes[i][l]) : w.op = "save"
      BY <3>1, Zenon DEF MayBeStored
    <3>3. writes[i][l] \in Seq(Write)
      BY DEF IInv, TypeOK
    <3>4. ASSUME NEW w \in ToSet(writes[i][l]), w.op = "save"
          PROVE  ~Idle(i, l) /\ l \in ever[i]
      <4>1. PICK n \in 1..Len(writes[i][l]) : writes[i][l][n] = w
        BY <3>3 DEF ToSet
      <4> QED BY <3>3, <3>4, <4>1 DEF IInv, WritesAreOwn, Idle
    <3>5. l \in disk[i] => l \in ever[i]
      BY DEF IInv, TrustedPair, EverIncludes
    <3> QED BY <3>2, <3>4, <3>5
  <2>3. TrustedPair(i, l)
    BY DEF IInv
  <2> QED BY <1>2, <2>1, <2>2, <2>3 DEF TrustedPair, LastWord, StoredWasConfirmed, EverIncludes, Idle
<1>6. StreamsOfEver' /\ BusinessNeedsBoth'
  BY <1>1, <1>2, StreamInv
<1> QED BY <1>1, <1>3, <1>4, <1>5, <1>6 DEF IInv

\* A call of the store: the new write is the last word.
LEMMA CallInv ==
  ASSUME IInv, DeviceTrustAssumption, NEW i \in Device, NEW j \in Peers(i), NEW w \in Write,
         Call(i, j, w), ever[i] \subseteq ever'[i], \A k \in Device : k # i => ever'[k] = ever[k],
         w.op = "save" => i \in Ends(w.session) /\ j \in ever'[i]
  PROVE  /\ WritesAreOwn' /\ ~Idle(i, j)'
         /\ writes'[i][j][Len(writes'[i][j])] = w
         /\ \A k, l \in Device : k # i \/ l # j => writes'[k][l] = writes[k][l]
<1>1. /\ writes'[i][j] = Append(writes[i][j], w)
      /\ \A k, l \in Device : k # i \/ l # j => writes'[k][l] = writes[k][l]
  BY CallWrites DEF IInv
<1>2. j \in Device /\ i # j /\ writes[i][j] \in Seq(Write)
  BY DEF IInv, TypeOK, Peers
<1>3. /\ Len(writes'[i][j]) = Len(writes[i][j]) + 1
      /\ writes'[i][j][Len(writes'[i][j])] = w
      /\ \A n \in 1..Len(writes[i][j]) : writes'[i][j][n] = writes[i][j][n]
  BY <1>1, <1>2
<1>4. Len(writes[i][j]) \in Nat
  BY <1>2
<1>5. ~Idle(i, j)'
  BY <1>3, <1>4 DEF Idle
<1>6. WritesAreOwn'
  <2> SUFFICES ASSUME NEW k \in Device, NEW l \in Device, NEW n \in 1..Len(writes'[k][l])
               PROVE  /\ k # l
                      /\ writes'[k][l][n].op = "save" =>
                           k \in Ends(writes'[k][l][n].session) /\ l \in ever'[k]
    BY DEF WritesAreOwn
  <2>1. CASE k # i \/ l # j
    <3>1. writes'[k][l] = writes[k][l] /\ ever[k] \subseteq ever'[k]
      BY <1>1, <2>1
    <3> QED BY <3>1 DEF IInv, WritesAreOwn
  <2>2. CASE k = i /\ l = j
    <3>1. CASE n = Len(writes[i][j]) + 1
      BY <1>2, <1>3, <2>2, <3>1
    <3>2. CASE n # Len(writes[i][j]) + 1
      <4>1. n \in 1..Len(writes[i][j])
        BY <1>3, <1>4, <2>2, <3>2
      <4> QED BY <1>2, <1>3, <2>2, <4>1 DEF IInv, WritesAreOwn
    <3> QED BY <3>1, <3>2
  <2> QED BY <2>1, <2>2
<1> QED BY <1>1, <1>3, <1>5, <1>6

LEMMA AcceptInv ==
  ASSUME IInv, DeviceTrustAssumption, NEW s \in Session, NEW i \in Ends(s), AcceptPairing(i, s)
  PROVE  IInv'
<1> DEFINE j == Remote(i, s)
<1>1. i \in Device /\ j \in Peers(i) /\ j \in Device /\ Save(s) \in Write
  BY RemoteIsPeer DEF Write, Peers
<1>2. TypeOK'
  BY AcceptType DEF IInv
<1>3. /\ trusted' = [trusted EXCEPT ![i] = @ \cup {j}]
      /\ confirmed' = [confirmed EXCEPT ![i] = @ \cup {j}]
      /\ ever' = [ever EXCEPT ![i] = @ \cup {j}]
      /\ Call(i, j, Save(s)) /\ UNCHANGED <<disk, stream, served>>
  BY DEF AcceptPairing
<1> HIDE DEF j
<1>4. /\ \A k, l \in Device : l \in trusted'[k] <=> l \in trusted[k] \/ (k = i /\ l = j)
      /\ \A k, l \in Device : l \in confirmed'[k] <=> l \in confirmed[k] \/ (k = i /\ l = j)
      /\ \A k, l \in Device : l \in ever'[k] <=> l \in ever[k] \/ (k = i /\ l = j)
      /\ \A k \in Device : k # i => ever'[k] = ever[k]
      /\ \A k \in Device : ever[k] \subseteq ever'[k]
  <2>1. trusted \in PeerSets /\ confirmed \in PeerSets /\ ever \in PeerSets
    BY DEF IInv, TypeOK
  <2>2. \A k, l \in Device : l \in trusted'[k] <=> l \in trusted[k] \/ (k = i /\ l = j)
    BY <1>1, <1>3, <2>1 DEF PeerSets
  <2>3. \A k, l \in Device : l \in confirmed'[k] <=> l \in confirmed[k] \/ (k = i /\ l = j)
    BY <1>1, <1>3, <2>1 DEF PeerSets
  <2>4. \A k, l \in Device : l \in ever'[k] <=> l \in ever[k] \/ (k = i /\ l = j)
    BY <1>1, <1>3, <2>1 DEF PeerSets
  <2>5. /\ \A k \in Device : k # i => ever'[k] = ever[k]
        /\ \A k \in Device : ever[k] \subseteq ever'[k]
    BY <1>1, <1>3, <2>1 DEF PeerSets
  <2> QED BY <2>2, <2>3, <2>4, <2>5
<1>5. /\ WritesAreOwn' /\ ~Idle(i, j)'
      /\ \A k, l \in Device : k # i \/ l # j => writes'[k][l] = writes[k][l]
  <2>1. Save(s).op = "save" => i \in Ends(Save(s).session) /\ j \in ever'[i]
    BY <1>1, <1>4 DEF Save
  <2> QED BY <1>1, <1>3, <1>4, <2>1, CallInv
<1>6. TrustedPair(i, j)'
  BY <1>1, <1>4 DEF TrustedPair, LastWord, StoredWasConfirmed, EverIncludes
<1>7. \A k, l \in Device : TrustedPair(k, l)'
  BY <1>1, <1>3, <1>4, <1>5, <1>6, PairInv
<1>8. StreamsOfEver' /\ BusinessNeedsBoth'
  BY <1>2, <1>3, <1>4, StreamInv
<1> QED BY <1>2, <1>5, <1>7, <1>8 DEF IInv

LEMMA RemoveInv ==
  ASSUME IInv, DeviceTrustAssumption, NEW i \in Device, NEW j \in Peers(i),
         RemoveTrustedDevice(i, j)
  PROVE  IInv'
<1>1. j \in Device /\ Removal \in Write /\ Removal.op # "save"
  BY DEF Peers, Write, Removal
<1>2. TypeOK'
  BY RemoveType DEF IInv
<1>3. /\ trusted' = [trusted EXCEPT ![i] = @ \ {j}]
      /\ confirmed' = [confirmed EXCEPT ![i] = @ \ {j}]
      /\ Call(i, j, Removal) /\ UNCHANGED <<disk, stream, served, ever>>
  BY DEF RemoveTrustedDevice
<1>4. /\ \A k, l \in Device : l \in trusted'[k] <=> l \in trusted[k] /\ ~(k = i /\ l = j)
      /\ \A k, l \in Device : l \in confirmed'[k] <=> l \in confirmed[k] /\ ~(k = i /\ l = j)
  <2>1. trusted \in PeerSets /\ confirmed \in PeerSets
    BY DEF IInv, TypeOK
  <2>2. \A k, l \in Device : l \in trusted'[k] <=> l \in trusted[k] /\ ~(k = i /\ l = j)
    BY <1>1, <1>3, <2>1 DEF PeerSets
  <2>3. \A k, l \in Device : l \in confirmed'[k] <=> l \in confirmed[k] /\ ~(k = i /\ l = j)
    BY <1>1, <1>3, <2>1 DEF PeerSets
  <2> QED BY <2>2, <2>3
<1>5. /\ WritesAreOwn' /\ ~Idle(i, j)'
      /\ writes'[i][j][Len(writes'[i][j])] = Removal
      /\ \A k, l \in Device : k # i \/ l # j => writes'[k][l] = writes[k][l]
  BY <1>1, <1>3, CallInv
<1>6. TrustedPair(i, j)'
  <2>1. TrustedPair(i, j)
    BY <1>1 DEF IInv
  <2> QED BY <1>1, <1>3, <1>4, <1>5, <2>1
          DEF TrustedPair, LastWord, StoredWasConfirmed, EverIncludes
<1>7. \A k, l \in Device : TrustedPair(k, l)'
  BY <1>1, <1>3, <1>4, <1>5, <1>6, PairInv
<1>8. StreamsOfEver' /\ BusinessNeedsBoth'
  BY <1>2, <1>3, StreamInv
<1> QED BY <1>2, <1>5, <1>7, <1>8 DEF IInv

LEMMA UpsertInv ==
  ASSUME IInv, DeviceTrustAssumption, NEW i \in Device, NEW j \in Peers(i),
         UpsertTrustedDevice(i, j)
  PROVE  IInv'
<1>1. j \in Device
  BY DEF Peers
<1>2. TypeOK'
  BY UpsertType DEF IInv
<1>3. /\ trusted' = [trusted EXCEPT ![i] = @ \cup {j}]
      /\ confirmed' = [confirmed EXCEPT ![i] = @ \cup {j}]
      /\ ever' = [ever EXCEPT ![i] = @ \cup {j}]
      /\ UNCHANGED <<disk, writes, stream, served>>
  BY DEF UpsertTrustedDevice
<1>4. /\ \A k, l \in Device : l \in trusted'[k] <=> l \in trusted[k] \/ (k = i /\ l = j)
      /\ \A k, l \in Device : l \in confirmed'[k] <=> l \in confirmed[k] \/ (k = i /\ l = j)
      /\ \A k, l \in Device : l \in ever'[k] <=> l \in ever[k] \/ (k = i /\ l = j)
      /\ \A k \in Device : ever[k] \subseteq ever'[k]
  <2>1. trusted \in PeerSets /\ confirmed \in PeerSets /\ ever \in PeerSets
    BY DEF IInv, TypeOK
  <2>2. \A k, l \in Device : l \in trusted'[k] <=> l \in trusted[k] \/ (k = i /\ l = j)
    BY <1>1, <1>3, <2>1 DEF PeerSets
  <2>3. \A k, l \in Device : l \in confirmed'[k] <=> l \in confirmed[k] \/ (k = i /\ l = j)
    BY <1>1, <1>3, <2>1 DEF PeerSets
  <2>4. \A k, l \in Device : l \in ever'[k] <=> l \in ever[k] \/ (k = i /\ l = j)
    BY <1>1, <1>3, <2>1 DEF PeerSets
  <2>5. /\ \A k \in Device : k # i => ever'[k] = ever[k]
        /\ \A k \in Device : ever[k] \subseteq ever'[k]
    BY <1>1, <1>3, <2>1 DEF PeerSets
  <2> QED BY <2>2, <2>3, <2>4, <2>5
<1>5. WritesAreOwn'
  BY <1>3, <1>4 DEF IInv, WritesAreOwn
<1>6. TrustedPair(i, j)'
  BY <1>1, <1>4 DEF TrustedPair, LastWord, StoredWasConfirmed, EverIncludes
<1>7. \A k, l \in Device : TrustedPair(k, l)'
  BY <1>1, <1>3, <1>4, <1>6, PairInv
<1>8. StreamsOfEver' /\ BusinessNeedsBoth'
  BY <1>2, <1>3, <1>4, StreamInv
<1> QED BY <1>2, <1>5, <1>7, <1>8 DEF IInv

(***************************************************************************)
(* The store settles its oldest call: the last one stays the last.         *)
(***************************************************************************)
LEMMA SettleInv ==
  ASSUME IInv, NEW i \in Device, NEW j \in Peers(i), ~Idle(i, j), Settle(i, j), ever' = ever
  PROVE  /\ WritesAreOwn'
         /\ \A k, l \in Device : k # i \/ l # j => writes'[k][l] = writes[k][l]
         /\ \/ ~Idle(i, j)' /\ writes'[i][j][Len(writes'[i][j])] = writes[i][j][Len(writes[i][j])]
            \/ Idle(i, j)' /\ writes[i][j] = <<Head(writes[i][j])>>
                           /\ Head(writes[i][j]) = writes[i][j][Len(writes[i][j])]
<1>1. /\ writes'[i][j] = Tail(writes[i][j])
      /\ \A k, l \in Device : k # i \/ l # j => writes'[k][l] = writes[k][l]
  BY SettleWrites DEF IInv
<1>2. j \in Device /\ i # j /\ writes[i][j] \in Seq(Write) /\ writes[i][j] # <<>>
  BY DEF IInv, TypeOK, Peers, Idle
<1>3. /\ Len(writes[i][j]) \in Nat /\ Len(writes[i][j]) >= 1
      /\ Len(writes'[i][j]) = Len(writes[i][j]) - 1
      /\ \A n \in 1..Len(writes'[i][j]) : writes'[i][j][n] = writes[i][j][n + 1]
  BY <1>1, <1>2
<1>4. WritesAreOwn'
  <2> SUFFICES ASSUME NEW k \in Device, NEW l \in Device, NEW n \in 1..Len(writes'[k][l])
               PROVE  /\ k # l
                      /\ writes'[k][l][n].op = "save" =>
                           k \in Ends(writes'[k][l][n].session) /\ l \in ever[k]
    BY DEF WritesAreOwn
  <2>1. CASE k # i \/ l # j
    BY <1>1, <2>1 DEF IInv, WritesAreOwn
  <2>2. CASE k = i /\ l = j
    <3>1. n + 1 \in 1..Len(writes[i][j])
      BY <1>3, <2>2
    <3> QED BY <1>2, <1>3, <2>2, <3>1 DEF IInv, WritesAreOwn
  <2> QED BY <2>1, <2>2
<1>5. CASE Len(writes[i][j]) = 1
  <2>1. Idle(i, j)'
    <3>1. ASSUME NEW q \in Seq(Write), Len(q) = 1 PROVE Tail(q) = <<>>
      <4>1. q # <<>>
        BY <3>1
      <4>2. Tail(q) \in Seq(Write) /\ Len(Tail(q)) = 0
        BY <3>1, <4>1, HeadTailProperties
      <4> QED BY <4>2, EmptySeq
    <3> QED BY <1>1, <1>2, <1>5, <3>1 DEF Idle
  <2>2. writes[i][j] = <<Head(writes[i][j])>> /\ Head(writes[i][j]) = writes[i][j][Len(writes[i][j])]
    BY <1>2, <1>5
  <2> QED BY <1>1, <1>4, <2>1, <2>2
<1>6. CASE Len(writes[i][j]) # 1
  <2>1. Len(writes'[i][j]) \in 1..Len(writes'[i][j])
    <3>1. ASSUME NEW n \in Nat, NEW m, n >= 1, n # 1, m = n - 1 PROVE m \in 1..m
      BY <3>1
    <3> QED BY <1>3, <1>6, <3>1
  <2>2. writes'[i][j][Len(writes'[i][j])] = writes[i][j][Len(writes[i][j])]
    BY <1>3, <2>1
  <2>3. ~Idle(i, j)'
    BY <1>3, <2>1 DEF Idle
  <2> QED BY <1>1, <1>4, <2>2, <2>3
<1> QED BY <1>5, <1>6

LEMMA SaveDoneInv ==
  ASSUME IInv, DeviceTrustAssumption, NEW i \in Device, NEW j \in Peers(i), SaveDone(i, j)
  PROVE  IInv'
<1>1. TypeOK'
  BY SaveDoneType DEF IInv
<1>2. /\ ~Idle(i, j) /\ Settle(i, j) /\ Head(writes[i][j]).op = "save"
      /\ disk' = [disk EXCEPT ![i] = @ \cup {j}]
      /\ UNCHANGED <<trusted, confirmed, ever, stream, served>>
  BY DEF SaveDone
<1>3. j \in Device
  BY DEF Peers
<1>4. /\ WritesAreOwn'
      /\ \A k, l \in Device : k # i \/ l # j => writes'[k][l] = writes[k][l]
      /\ \/ ~Idle(i, j)' /\ writes'[i][j][Len(writes'[i][j])] = writes[i][j][Len(writes[i][j])]
         \/ Idle(i, j)' /\ Head(writes[i][j]) = writes[i][j][Len(writes[i][j])]
  BY <1>2, SettleInv
<1>5. \A k, l \in Device : l \in disk'[k] <=> l \in disk[k] \/ (k = i /\ l = j)
  BY <1>2, <1>3 DEF IInv, TypeOK, PeerSets
<1>6. TrustedPair(i, j)'
  <2>1. TrustedPair(i, j)
    BY <1>3 DEF IInv
  <2>2. j \in ever[i]
    <3>1. writes[i][j] \in Seq(Write) /\ writes[i][j] # <<>>
      BY <1>2, <1>3 DEF IInv, TypeOK, Idle
    <3>2. 1 \in 1..Len(writes[i][j]) /\ writes[i][j][1] = Head(writes[i][j])
      BY <3>1
    <3> QED BY <1>2, <1>3, <3>2 DEF IInv, WritesAreOwn
  <2>3. Head(writes[i][j]) # Removal
    BY <1>2 DEF Removal
  <2> QED BY <1>2, <1>4, <2>1, <2>2, <2>3
          DEF TrustedPair, LastWord, StoredWasConfirmed, EverIncludes
<1>7. \A k, l \in Device : TrustedPair(k, l)'
  BY <1>2, <1>3, <1>4, <1>5, <1>6, PairInv
<1>8. StreamsOfEver' /\ BusinessNeedsBoth'
  BY <1>1, <1>2, StreamInv
<1> QED BY <1>1, <1>4, <1>7, <1>8 DEF IInv

LEMMA RemoveDoneInv ==
  ASSUME IInv, DeviceTrustAssumption, NEW i \in Device, NEW j \in Peers(i), RemoveDone(i, j)
  PROVE  IInv'
<1>1. TypeOK'
  BY RemoveDoneType DEF IInv
<1>2. /\ ~Idle(i, j) /\ Settle(i, j)
      /\ disk' = [disk EXCEPT ![i] = @ \ {j}]
      /\ UNCHANGED <<trusted, confirmed, ever, stream, served>>
  BY DEF RemoveDone
<1>3. j \in Device
  BY DEF Peers
<1>4. /\ WritesAreOwn'
      /\ \A k, l \in Device : k # i \/ l # j => writes'[k][l] = writes[k][l]
      /\ \/ ~Idle(i, j)' /\ writes'[i][j][Len(writes'[i][j])] = writes[i][j][Len(writes[i][j])]
         \/ Idle(i, j)'
  BY <1>2, SettleInv
<1>5. \A k, l \in Device : l \in disk'[k] <=> l \in disk[k] /\ ~(k = i /\ l = j)
  BY <1>2, <1>3 DEF IInv, TypeOK, PeerSets
<1>6. TrustedPair(i, j)'
  <2>1. TrustedPair(i, j)
    BY <1>3 DEF IInv
  <2> QED BY <1>2, <1>3, <1>4, <1>5, <2>1
          DEF TrustedPair, LastWord, StoredWasConfirmed, EverIncludes
<1>7. \A k, l \in Device : TrustedPair(k, l)'
  BY <1>2, <1>3, <1>4, <1>5, <1>6, PairInv
<1>8. StreamsOfEver' /\ BusinessNeedsBoth'
  BY <1>1, <1>2, StreamInv
<1> QED BY <1>1, <1>4, <1>7, <1>8 DEF IInv

LEMMA WriteFailsInv ==
  ASSUME IInv, DeviceTrustAssumption, NEW i \in Device, NEW j \in Peers(i), WriteFails(i, j)
  PROVE  IInv'
<1>1. TypeOK'
  BY WriteFailsType DEF IInv
<1>2. /\ ~Idle(i, j) /\ Settle(i, j)
      /\ confirmed' = [confirmed EXCEPT ![i] = IF writes[i][j] = <<Removal>>
                                                THEN @ \cup ({j} \cap ever[i]) ELSE @]
      /\ UNCHANGED <<trusted, disk, ever, stream, served>>
  BY DEF WriteFails
<1>3. j \in Device
  BY DEF Peers
<1>4. /\ WritesAreOwn'
      /\ \A k, l \in Device : k # i \/ l # j => writes'[k][l] = writes[k][l]
      /\ \/ ~Idle(i, j)' /\ writes'[i][j][Len(writes'[i][j])] = writes[i][j][Len(writes[i][j])]
         \/ Idle(i, j)' /\ writes[i][j] = <<Head(writes[i][j])>>
                        /\ Head(writes[i][j]) = writes[i][j][Len(writes[i][j])]
  BY <1>2, SettleInv
<1>5. \A k, l \in Device :
        l \in confirmed'[k] <=> \/ l \in confirmed[k]
                                \/ k = i /\ l = j /\ j \in ever[i] /\ writes[i][j] = <<Removal>>
  BY <1>2, <1>3 DEF IInv, TypeOK, PeerSets
<1>6. TrustedPair(i, j)'
  <2>1. TrustedPair(i, j)
    BY <1>3 DEF IInv
  <2>2. /\ j \in trusted'[i] => j \in confirmed'[i]
        /\ LastWord(i, j)' /\ EverIncludes(i, j)'
    BY <1>2, <1>3, <1>4, <1>5, <2>1 DEF TrustedPair, LastWord, EverIncludes
  <2>3. StoredWasConfirmed(i, j)'
    <3> SUFFICES ASSUME j \in disk[i], Idle(i, j)', j \notin confirmed[i]
                 PROVE  j \in confirmed'[i]
      BY <1>2, <1>3, <1>5 DEF StoredWasConfirmed
    <3>1. writes[i][j] = <<Removal>>
      BY <1>2, <1>4, <2>1 DEF TrustedPair, LastWord
    <3>2. j \in ever[i]
      BY <2>1 DEF TrustedPair, EverIncludes
    <3> QED BY <1>3, <1>5, <3>1, <3>2
  <2> QED BY <2>2, <2>3 DEF TrustedPair
<1>7. \A k, l \in Device : TrustedPair(k, l)'
  BY <1>2, <1>3, <1>4, <1>5, <1>6, PairInv
<1>8. StreamsOfEver' /\ BusinessNeedsBoth'
  BY <1>1, <1>2, StreamInv
<1> QED BY <1>1, <1>4, <1>7, <1>8 DEF IInv

(***************************************************************************)
(* The steps that only move requests, or nothing.                          *)
(***************************************************************************)
LEMMA OpenInv ==
  ASSUME IInv, DeviceTrustAssumption, NEW i \in Device, NEW j \in Peers(i), OpenStream(i, j)
  PROVE  IInv'
<1>1. TypeOK'
  BY OpenType DEF IInv
<1>2. /\ UNCHANGED <<trusted, disk, writes, confirmed, ever, served>>
      /\ stream' = stream \cup {<<i, j>>} /\ j \in trusted[i] /\ j \in Device
  BY DEF OpenStream, CanOpen, history, Peers
<1>3. WritesAreOwn' /\ \A k \in Device, l \in Device : TrustedPair(k, l)'
  BY <1>2, QuietInv
<1>4. j \in ever[i]
  BY <1>2 DEF IInv, TrustedPair, EverIncludes
<1>5. StreamsOfEver' /\ BusinessNeedsBoth'
  BY <1>2, <1>4 DEF IInv, StreamsOfEver, BusinessNeedsBoth
<1> QED BY <1>1, <1>3, <1>5 DEF IInv

LEMMA HandleStreamInv ==
  ASSUME IInv, DeviceTrustAssumption, NEW i \in Device, NEW j \in Peers(i), HandleStream(i, j)
  PROVE  IInv'
<1>1. TypeOK'
  BY HandleStreamType DEF IInv
<1>2. /\ UNCHANGED <<trusted, disk, writes, confirmed, ever>>
      /\ <<i, j>> \in stream /\ stream' \subseteq stream /\ j \in Device
      /\ served' = served \/ (served' = served \cup {<<i, j>>} /\ i \in trusted[j])
  BY DEF HandleStream, CanOpen, history, Peers
<1>3. WritesAreOwn' /\ \A k \in Device, l \in Device : TrustedPair(k, l)'
  BY <1>2, QuietInv
<1>4. j \in ever[i] /\ (i \in trusted[j] => i \in ever[j])
  BY <1>2 DEF IInv, StreamsOfEver, TrustedPair, EverIncludes
<1>5. StreamsOfEver'
  BY <1>2 DEF IInv, StreamsOfEver
<1>6. BusinessNeedsBoth'
  BY <1>2, <1>4 DEF IInv, BusinessNeedsBoth
<1> QED BY <1>1, <1>3, <1>5, <1>6 DEF IInv

\* Everything else that happens leaves the records alone.
LEMMA OtherInv ==
  ASSUME IInv, TypeOK', UNCHANGED <<trusted, disk, writes, confirmed, ever, served>>,
         stream' \subseteq stream
  PROVE  IInv'
<1>1. WritesAreOwn' /\ \A k \in Device, l \in Device : TrustedPair(k, l)'
  BY QuietInv
<1>2. StreamsOfEver' /\ BusinessNeedsBoth'
  BY StreamInv
<1> QED BY <1>1, <1>2 DEF IInv

LEMMA NodeInv ==
  ASSUME IInv, DeviceTrustAssumption, NEW i \in Device,
         Start(i) \/ Stop(i) \/ Crash(i) \/ RefreshExpiry(i)
  PROVE  IInv'
<1>1. CASE Stop(i)
  <2>1. TypeOK'
    BY <1>1, StopType DEF IInv
  <2> QED BY <1>1, <2>1, OtherInv DEF Stop, NodeDown, history
<1>2. CASE RefreshExpiry(i)
  <2>1. TypeOK'
    BY <1>2, RefreshType DEF IInv
  <2> QED BY <1>2, <2>1, OtherInv DEF RefreshExpiry, history
<1> QED BY <1>1, <1>2, StartInv, CrashInv

LEMMA HandshakeInv ==
  ASSUME IInv, DeviceTrustAssumption, NEW s \in Session, Handshake(s)
  PROVE  IInv'
<1>1. TypeOK'
  BY RequestType, HandleType, ResponseType, FailsType DEF IInv, Handshake
<1>2. UNCHANGED <<trusted, disk, writes, confirmed, ever, served, stream>>
  BY DEF Handshake, RequestLocalPairing, HandlePairingStream, PairingResponse, PairingFails, history
<1> QED BY <1>1, <1>2, OtherInv

LEMMA DecideInv ==
  ASSUME IInv, DeviceTrustAssumption, NEW s \in Session, NEW i \in Ends(s),
         Tick(i, s) \/ Decide(i, s)
  PROVE  IInv'
<1>1. CASE Tick(i, s) \/ AcceptExpired(i, s) \/ RejectPairing(i, s)
  <2>1. TypeOK'
    BY <1>1, TickType, AcceptExpiredType, RejectType DEF IInv
  <2>2. UNCHANGED <<trusted, disk, writes, confirmed, ever, served, stream>>
    BY <1>1 DEF Tick, AcceptExpired, RejectPairing, history
  <2> QED BY <2>1, <2>2, OtherInv
<1>2. CASE AcceptPairing(i, s)
  BY <1>2, AcceptInv
<1> QED BY <1>1, <1>2 DEF Decide

LEMMA DiscoverInv ==
  ASSUME IInv, DeviceTrustAssumption, NEW i \in Device, NEW j \in Peers(i), Discover(i, j)
  PROVE  IInv'
<1>1. TypeOK'
  BY DiscoverType DEF IInv
<1> QED BY <1>1, OtherInv DEF Discover, history

LEMMA NextInv == ASSUME IInv, DeviceTrustAssumption, [Next]_vars PROVE IInv'
<1>1. ASSUME NEW i \in Device, Start(i) \/ Stop(i) \/ Crash(i) \/ RefreshExpiry(i) PROVE IInv'
  BY <1>1, NodeInv
<1>2. ASSUME NEW s \in Session, Handshake(s) PROVE IInv'
  BY <1>2, HandshakeInv
<1>3. ASSUME NEW s \in Session, NEW i \in Ends(s), Tick(i, s) \/ Decide(i, s) PROVE IInv'
  BY <1>3, DecideInv
<1>4. ASSUME NEW i \in Device, NEW j \in Peers(i),
             \/ RemoveTrustedDevice(i, j) \/ UpsertTrustedDevice(i, j) \/ StoreSettles(i, j)
             \/ Discover(i, j) \/ OpenStream(i, j) \/ HandleStream(i, j)
      PROVE  IInv'
  BY <1>4, RemoveInv, UpsertInv, SaveDoneInv, RemoveDoneInv, WriteFailsInv, DiscoverInv,
     OpenInv, HandleStreamInv DEF StoreSettles
<1>5. ASSUME UNCHANGED vars PROVE IInv'
  BY <1>5 DEF vars, IInv, TypeOK, WritesAreOwn, TrustedPair, LastWord, StoredWasConfirmed,
              EverIncludes, Idle, StreamsOfEver, BusinessNeedsBoth
<1> QED BY <1>1, <1>2, <1>3, <1>4, <1>5 DEF Next

(***************************************************************************)
(* The theorems.                                                           *)
(***************************************************************************)

\* The inductive invariant holds, over restarts, crashes and failing writes.
THEOREM TrustInvariant == Spec => []IInv
<1>1. Init => IInv
  BY InitInv
<1>2. IInv /\ [Next]_vars => IInv'
  BY NextInv, DeviceTrustAssumption
<1> QED BY <1>1, <1>2, PTL DEF Spec

\* The variables stay in their types (libp2pDeviceNetworkService.ts).
THEOREM TypesHold == Spec => []TypeOK
<1>1. IInv => TypeOK
  BY DEF IInv
<1> QED BY <1>1, TrustInvariant, PTL

\* Nobody is trusted whom the user did not confirm, or has removed since: a
\* removal is not undone by a restart or by a write under way (acceptPairing,
\* removeTrustedDevice, loadTrustedDevicesFromStore).
THEOREM TrustIsConfirmed == Spec => []TrustWasConfirmed
<1>1. IInv => TrustWasConfirmed
  BY DEF IInv, TypeOK, PeerSets, TrustedPair, TrustWasConfirmed
<1> QED BY <1>1, TrustInvariant, PTL

\* A business request is handled only between devices that both confirmed the
\* other (openStream, handleRpcStream, handleSyncStream).
THEOREM BusinessIsMutual == Spec => []BusinessNeedsBoth
<1>1. IInv => BusinessNeedsBoth
  BY DEF IInv
<1> QED BY <1>1, TrustInvariant, PTL

(***************************************************************************)
(* What is shown of a peer.                                                *)
(***************************************************************************)

LastCall(i, j) == writes[i][j][Len(writes[i][j])]

\* What memory says of a peer that the host did not set is what the last call of the store under
\* way will make of it; without one it is what is stored, except that a node that is down may have
\* more stored than loaded.  What is found as trusted without being it waits for a removal.
View(i, j) ==
  /\ j \in given[i] => j \in trusted[i]
  /\ j \notin given[i] /\ ~Idle(i, j) => (j \in trusted[i] <=> LastCall(i, j).op = "save")
  /\ j \notin given[i] /\ j \notin adrift[i] /\ Idle(i, j) =>
       /\ j \in trusted[i] => j \in disk[i]
       /\ i \in up /\ j \in disk[i] => j \in trusted[i]
  /\ j \notin adrift[i] /\ Idle(i, j) /\ found[i][j] = "trusted" => j \in trusted[i]

ViewsInv == \A i \in Device : \A j \in Peers(i) : View(i, j)

\* What a step leaves as it is of a peer; the node may go down and the peer be forgotten.
SamePeer(i, j) ==
  /\ j \in trusted'[i] <=> j \in trusted[i]
  /\ j \in disk'[i] <=> j \in disk[i]
  /\ j \in given'[i] <=> j \in given[i]
  /\ j \in adrift'[i] <=> j \in adrift[i]
  /\ writes'[i][j] = writes[i][j]
  /\ found'[i][j] = "trusted" => found[i][j] = "trusted" \/ j \in trusted[i]
  /\ i \in up' => i \in up

LEMMA SameView ==
  ASSUME NEW i, NEW j, View(i, j), SamePeer(i, j)
  PROVE  View(i, j)'
BY DEF View, SamePeer, Idle, LastCall

\* A step about one peer of one device.
LEMMA OneView ==
  ASSUME ViewsInv, NEW i \in Device, NEW j \in Peers(i), View(i, j)',
         \A k \in Device : \A l \in Peers(k) : k # i \/ l # j => SamePeer(k, l)
  PROVE  ViewsInv'
<1>1. ASSUME NEW k \in Device, NEW l \in Peers(k), k # i \/ l # j PROVE View(k, l)'
  BY <1>1, SameView DEF ViewsInv
<1> QED BY <1>1 DEF ViewsInv

LEMMA InitViews == Init => ViewsInv
BY DEF Init, ViewsInv, View, Idle, Peers

LEMMA StartViews ==
  ASSUME IInv, ViewsInv, NEW i \in Device, Start(i)
  PROVE  ViewsInv'
<1> SUFFICES ASSUME NEW k \in Device, NEW l \in Peers(k) PROVE View(k, l)'
  BY DEF ViewsInv
<1>1. View(k, l)
  BY DEF ViewsInv
<1>2. /\ UNCHANGED <<disk, writes, found, given, adrift>> /\ up' = up \cup {i}
      /\ trusted' = [trusted EXCEPT ![i] = trusted[i] \cup disk[i]]
      /\ \A j \in Peers(i) : Idle(i, j)
  BY DEF Start, Loaded, history
<1>3. CASE k # i
  <2>1. trusted'[k] = trusted[k]
    BY <1>2, <1>3 DEF IInv, TypeOK, PeerSets
  <2> QED BY <1>1, <1>2, <1>3, <2>1, SameView DEF SamePeer
<1>4. CASE k = i
  <2>1. trusted'[i] = trusted[i] \cup disk[i] /\ Idle(i, l)
    BY <1>2, <1>4 DEF IInv, TypeOK, PeerSets
  <2> QED BY <1>1, <1>2, <1>4, <2>1 DEF View, Idle, LastCall
<1> QED BY <1>3, <1>4

LEMMA CrashViews ==
  ASSUME IInv, ViewsInv, NEW i \in Device, Crash(i)
  PROVE  ViewsInv'
<1> SUFFICES ASSUME NEW k \in Device, NEW l \in Peers(k) PROVE View(k, l)'
  BY DEF ViewsInv
<1>1. View(k, l) /\ l \in Device
  BY DEF ViewsInv, Peers
<1> PICK stored \in SUBSET Peers(i) : disk' = [disk EXCEPT ![i] = stored]
  BY DEF Crash
<1>2. /\ up' = up \ {i}
      /\ found' = [found EXCEPT ![i] = [j \in Device |-> "unknown"]]
      /\ trusted' = [trusted EXCEPT ![i] = {}]
      /\ writes' = [writes EXCEPT ![i] = [j \in Device |-> <<>>]]
      /\ given' = [given EXCEPT ![i] = {}] /\ adrift' = [adrift EXCEPT ![i] = {}]
  BY DEF Crash, NodeDown
<1>3. CASE k # i
  <2>1. /\ trusted'[k] = trusted[k] /\ disk'[k] = disk[k] /\ writes'[k] = writes[k]
        /\ given'[k] = given[k] /\ adrift'[k] = adrift[k] /\ found'[k] = found[k]
    BY <1>2, <1>3 DEF IInv, TypeOK, PeerSets
  <2> QED BY <1>1, <1>2, <2>1, SameView DEF SamePeer
<1>4. CASE k = i
  <2>1. /\ trusted'[i] = {} /\ given'[i] = {} /\ writes'[i][l] = <<>>
        /\ found'[i][l] = "unknown" /\ i \notin up'
    BY <1>1, <1>2 DEF IInv, TypeOK, PeerSets
  <2> QED BY <1>4, <2>1 DEF View, Idle
<1> QED BY <1>3, <1>4

LEMMA StopViews ==
  ASSUME IInv, ViewsInv, NEW i \in Device, Stop(i)
  PROVE  ViewsInv'
<1> SUFFICES ASSUME NEW k \in Device, NEW l \in Peers(k) PROVE View(k, l)'
  BY DEF ViewsInv
<1>1. View(k, l) /\ l \in Device
  BY DEF ViewsInv, Peers
<1>2. /\ UNCHANGED <<trusted, disk, writes, given, adrift>> /\ up' = up \ {i}
      /\ found' = [found EXCEPT ![i] = [j \in Device |-> "unknown"]]
  BY DEF Stop, NodeDown, history
<1>3. found'[k][l] = found[k][l] \/ found'[k][l] = "unknown"
  BY <1>1, <1>2 DEF IInv, TypeOK
<1> QED BY <1>1, <1>2, <1>3, SameView DEF SamePeer

\* Steps that change nothing but what is found, and that to what is trusted.
LEMMA FoundViews ==
  ASSUME IInv, ViewsInv, UNCHANGED <<up, trusted, disk, writes, given, adrift>>,
         \A k \in Device : \A l \in Peers(k) :
           found'[k][l] = "trusted" => found[k][l] = "trusted" \/ l \in trusted[k]
  PROVE  ViewsInv'
<1> SUFFICES ASSUME NEW k \in Device, NEW l \in Peers(k) PROVE View(k, l)'
  BY DEF ViewsInv
<1>1. View(k, l)
  BY DEF ViewsInv
<1> QED BY <1>1, SameView DEF SamePeer

LEMMA PairingViews ==
  ASSUME IInv, DeviceTrustAssumption, NEW s \in Session,
         HandlePairingStream(s) \/ PairingResponse(s) \/ RequestLocalPairing(s) \/ PairingFails(s),
         NEW k \in Device, NEW l \in Peers(k), found'[k][l] = "trusted"
  PROVE  found[k][l] = "trusted" \/ l \in trusted[k]
<1>1. From[s] \in Device /\ To[s] \in Device /\ l \in Device
  BY DEF DeviceTrustAssumption, Peers
<1>2. CASE found' = found
  BY <1>2
<1>3. ASSUME NEW i \in Device, NEW j \in Device, PairingFound(i, j)
      PROVE  found[k][l] = "trusted" \/ l \in trusted[k]
  BY <1>1, <1>3 DEF PairingFound, Flag, IInv, TypeOK
<1> QED BY <1>1, <1>2, <1>3
        DEF HandlePairingStream, PairingResponse, RequestLocalPairing, PairingFails

LEMMA DiscoverViews ==
  ASSUME IInv, ViewsInv, NEW i \in Device, NEW j \in Peers(i), Discover(i, j)
  PROVE  ViewsInv'
<1>1. j \in Device /\ \A k \in Device : \A l \in Peers(k) : l \in Device
  BY DEF Peers
<1>2. found' = [found EXCEPT ![i][j] = Flag(j \in trusted[i])]
  BY DEF Discover
<1>3. \A k \in Device : \A l \in Peers(k) :
        found'[k][l] = "trusted" => found[k][l] = "trusted" \/ l \in trusted[k]
  BY <1>1, <1>2 DEF Flag, IInv, TypeOK
<1> QED BY <1>3, FoundViews DEF Discover, history

\* A call of the store says what memory says.
LEMMA CallViews ==
  ASSUME IInv, NEW i \in Device, NEW j \in Peers(i), NEW w \in Write, Call(i, j, w)
  PROVE  /\ ~Idle(i, j)' /\ LastCall(i, j)' = w
         /\ \A k, l \in Device : k # i \/ l # j => writes'[k][l] = writes[k][l]
<1>1. /\ writes'[i][j] = Append(writes[i][j], w)
      /\ \A k, l \in Device : k # i \/ l # j => writes'[k][l] = writes[k][l]
  BY CallWrites DEF IInv
<1>2. writes[i][j] \in Seq(Write)
  BY DEF IInv, TypeOK, Peers
<1>3. writes'[i][j] # <<>> /\ writes'[i][j][Len(writes'[i][j])] = w
  BY <1>1, <1>2
<1> QED BY <1>1, <1>3 DEF Idle, LastCall

LEMMA AcceptViews ==
  ASSUME IInv, ViewsInv, DeviceTrustAssumption, NEW s \in Session, NEW i \in Ends(s),
         AcceptPairing(i, s)
  PROVE  ViewsInv'
<1> DEFINE j == Remote(i, s)
<1>1. i \in Device /\ j \in Peers(i) /\ j \in Device /\ Save(s) \in Write /\ Save(s).op = "save"
  BY RemoteIsPeer DEF Write, Save, Peers
<1>2. /\ trusted' = [trusted EXCEPT ![i] = @ \cup {j}] /\ given' = [given EXCEPT ![i] = @ \ {j}]
      /\ Call(i, j, Save(s)) /\ UNCHANGED <<up, disk, found, adrift>>
  BY DEF AcceptPairing
<1> HIDE DEF j
<1>3. /\ ~Idle(i, j)' /\ LastCall(i, j)' = Save(s)
      /\ \A k, l \in Device : k # i \/ l # j => writes'[k][l] = writes[k][l]
  BY <1>1, <1>2, CallViews
<1>4. j \in trusted'[i] /\ j \notin given'[i]
  BY <1>1, <1>2 DEF IInv, TypeOK, PeerSets
<1>5. View(i, j)'
  BY <1>1, <1>3, <1>4 DEF View
<1>6. ASSUME NEW k \in Device, NEW l \in Peers(k), k # i \/ l # j PROVE SamePeer(k, l)
  <2>1. l \in Device
    BY DEF Peers
  <2>2. (l \in trusted'[k] <=> l \in trusted[k]) /\ (l \in given'[k] <=> l \in given[k])
    BY <1>1, <1>2, <1>6 DEF IInv, TypeOK, PeerSets
  <2> QED BY <1>2, <1>3, <1>6, <2>1, <2>2 DEF SamePeer
<1> QED BY <1>1, <1>5, <1>6, OneView

LEMMA RemoveViews ==
  ASSUME IInv, ViewsInv, NEW i \in Device, NEW j \in Peers(i), RemoveTrustedDevice(i, j)
  PROVE  ViewsInv'
<1>1. j \in Device /\ Removal \in Write /\ Removal.op # "save"
  BY DEF Write, Removal, Peers
<1>2. /\ trusted' = [trusted EXCEPT ![i] = @ \ {j}] /\ given' = [given EXCEPT ![i] = @ \ {j}]
      /\ Call(i, j, Removal) /\ UNCHANGED <<up, disk, found, adrift>>
  BY DEF RemoveTrustedDevice
<1>3. /\ ~Idle(i, j)' /\ LastCall(i, j)' = Removal
      /\ \A k, l \in Device : k # i \/ l # j => writes'[k][l] = writes[k][l]
  BY <1>1, <1>2, CallViews
<1>4. j \notin trusted'[i] /\ j \notin given'[i]
  BY <1>1, <1>2 DEF IInv, TypeOK, PeerSets
<1>5. View(i, j)'
  BY <1>1, <1>3, <1>4 DEF View
<1>6. ASSUME NEW k \in Device, NEW l \in Peers(k), k # i \/ l # j PROVE SamePeer(k, l)
  <2>1. l \in Device
    BY DEF Peers
  <2>2. (l \in trusted'[k] <=> l \in trusted[k]) /\ (l \in given'[k] <=> l \in given[k])
    BY <1>1, <1>2, <1>6 DEF IInv, TypeOK, PeerSets
  <2> QED BY <1>2, <1>3, <1>6, <2>1, <2>2 DEF SamePeer
<1> QED BY <1>5, <1>6, OneView

\* updateDeviceTrust: one entry changes at most.
LEMMA FlagViews ==
  ASSUME IInv, NEW i \in Device, NEW j \in Peers(i), NEW b \in BOOLEAN,
         found' = [found EXCEPT ![i][j] = FlagIfFound(i, j, b)]
  PROVE  /\ found'[i][j] = "trusted" => b
         /\ \A k, l \in Device : k # i \/ l # j => found'[k][l] = found[k][l]
<1>1. j \in Device
  BY DEF Peers
<1> QED BY <1>1 DEF FlagIfFound, Flag, IInv, TypeOK

LEMMA UpsertViews ==
  ASSUME IInv, ViewsInv, NEW i \in Device, NEW j \in Peers(i), UpsertTrustedDevice(i, j)
  PROVE  ViewsInv'
<1>1. j \in Device
  BY DEF Peers
<1>2. /\ trusted' = [trusted EXCEPT ![i] = @ \cup {j}]
      /\ given' = [given EXCEPT ![i] = @ \cup {j}]
      /\ UNCHANGED <<up, disk, writes, adrift>>
  BY DEF UpsertTrustedDevice
<1>3. \A k, l \in Device : k # i \/ l # j => found'[k][l] = found[k][l]
  BY FlagViews DEF UpsertTrustedDevice
<1>4. j \in trusted'[i] /\ j \in given'[i]
  BY <1>1, <1>2 DEF IInv, TypeOK, PeerSets
<1>5. View(i, j)'
  BY <1>4 DEF View
<1>6. ASSUME NEW k \in Device, NEW l \in Peers(k), k # i \/ l # j PROVE SamePeer(k, l)
  <2>1. l \in Device
    BY DEF Peers
  <2>2. (l \in trusted'[k] <=> l \in trusted[k]) /\ (l \in given'[k] <=> l \in given[k])
    BY <1>1, <1>2, <1>6 DEF IInv, TypeOK, PeerSets
  <2> QED BY <1>2, <1>3, <1>6, <2>1, <2>2 DEF SamePeer
<1> QED BY <1>5, <1>6, OneView

\* A call that is settled leaves the last one, or was it.
LEMMA SettleViews ==
  ASSUME IInv, NEW i \in Device, NEW j \in Peers(i), ~Idle(i, j), Settle(i, j), ever' = ever
  PROVE  /\ \A k, l \in Device : k # i \/ l # j => writes'[k][l] = writes[k][l]
         /\ \/ ~Idle(i, j)' /\ LastCall(i, j)' = LastCall(i, j)
            \/ Idle(i, j)' /\ Head(writes[i][j]) = LastCall(i, j)
BY SettleInv DEF LastCall

LEMMA SaveDoneViews ==
  ASSUME IInv, ViewsInv, NEW i \in Device, NEW j \in Peers(i), SaveDone(i, j)
  PROVE  ViewsInv'
<1>1. j \in Device /\ View(i, j)
  BY DEF Peers, ViewsInv
<1>2. /\ ~Idle(i, j) /\ Settle(i, j) /\ Head(writes[i][j]).op = "save"
      /\ disk' = [disk EXCEPT ![i] = @ \cup {j}] /\ adrift' = [adrift EXCEPT ![i] = @ \ {j}]
      /\ UNCHANGED <<up, trusted, ever, given>>
  BY DEF SaveDone
<1>3. /\ \A k, l \in Device : k # i \/ l # j => writes'[k][l] = writes[k][l]
      /\ \/ ~Idle(i, j)' /\ LastCall(i, j)' = LastCall(i, j)
         \/ Idle(i, j)' /\ Head(writes[i][j]) = LastCall(i, j)
  BY <1>2, SettleViews
<1>4. \A k, l \in Device : k # i \/ l # j => found'[k][l] = found[k][l]
  BY FlagViews DEF SaveDone
<1>5. j \in disk'[i]
  BY <1>1, <1>2 DEF IInv, TypeOK, PeerSets
<1>6. View(i, j)'
  BY <1>1, <1>2, <1>3, <1>5 DEF View
<1>7. ASSUME NEW k \in Device, NEW l \in Peers(k), k # i \/ l # j PROVE SamePeer(k, l)
  <2>1. l \in Device
    BY DEF Peers
  <2>2. (l \in disk'[k] <=> l \in disk[k]) /\ (l \in adrift'[k] <=> l \in adrift[k])
    BY <1>1, <1>2, <1>7 DEF IInv, TypeOK, PeerSets
  <2> QED BY <1>2, <1>3, <1>4, <1>7, <2>1, <2>2 DEF SamePeer
<1> QED BY <1>6, <1>7, OneView

LEMMA RemoveDoneViews ==
  ASSUME IInv, ViewsInv, NEW i \in Device, NEW j \in Peers(i), RemoveDone(i, j)
  PROVE  ViewsInv'
<1>1. j \in Device /\ View(i, j)
  BY DEF Peers, ViewsInv
<1>2. /\ ~Idle(i, j) /\ Settle(i, j) /\ Head(writes[i][j]).op # "save"
      /\ disk' = [disk EXCEPT ![i] = @ \ {j}] /\ adrift' = [adrift EXCEPT ![i] = @ \ {j}]
      /\ UNCHANGED <<up, trusted, ever, given>>
  BY DEF RemoveDone, Removal
<1>3. /\ \A k, l \in Device : k # i \/ l # j => writes'[k][l] = writes[k][l]
      /\ \/ ~Idle(i, j)' /\ LastCall(i, j)' = LastCall(i, j)
         \/ Idle(i, j)' /\ Head(writes[i][j]) = LastCall(i, j)
  BY <1>2, SettleViews
<1>4. /\ \A k, l \in Device : k # i \/ l # j => found'[k][l] = found[k][l]
      /\ found'[i][j] # "trusted"
  BY FlagViews DEF RemoveDone
<1>5. j \notin disk'[i]
  BY <1>1, <1>2 DEF IInv, TypeOK, PeerSets
<1>6. View(i, j)'
  BY <1>1, <1>2, <1>3, <1>4, <1>5 DEF View
<1>7. ASSUME NEW k \in Device, NEW l \in Peers(k), k # i \/ l # j PROVE SamePeer(k, l)
  <2>1. l \in Device
    BY DEF Peers
  <2>2. (l \in disk'[k] <=> l \in disk[k]) /\ (l \in adrift'[k] <=> l \in adrift[k])
    BY <1>1, <1>2, <1>7 DEF IInv, TypeOK, PeerSets
  <2> QED BY <1>2, <1>3, <1>4, <1>7, <2>1, <2>2 DEF SamePeer
<1> QED BY <1>6, <1>7, OneView

LEMMA WriteFailsViews ==
  ASSUME IInv, ViewsInv, NEW i \in Device, NEW j \in Peers(i), WriteFails(i, j)
  PROVE  ViewsInv'
<1>1. j \in Device /\ View(i, j)
  BY DEF Peers, ViewsInv
<1>2. /\ ~Idle(i, j) /\ Settle(i, j) /\ adrift' = [adrift EXCEPT ![i] = @ \cup {j}]
      /\ UNCHANGED <<up, trusted, disk, found, ever, given>>
  BY DEF WriteFails
<1>3. /\ \A k, l \in Device : k # i \/ l # j => writes'[k][l] = writes[k][l]
      /\ ~Idle(i, j)' => LastCall(i, j)' = LastCall(i, j)
  BY <1>2, SettleViews
<1>4. j \in adrift'[i]
  BY <1>1, <1>2 DEF IInv, TypeOK, PeerSets
<1>5. View(i, j)'
  BY <1>1, <1>2, <1>3, <1>4 DEF View
<1>6. ASSUME NEW k \in Device, NEW l \in Peers(k), k # i \/ l # j PROVE SamePeer(k, l)
  <2>1. l \in Device
    BY DEF Peers
  <2>2. l \in adrift'[k] <=> l \in adrift[k]
    BY <1>1, <1>2, <1>6 DEF IInv, TypeOK, PeerSets
  <2> QED BY <1>2, <1>3, <1>6, <2>1, <2>2 DEF SamePeer
<1> QED BY <1>5, <1>6, OneView

LEMMA NextViews ==
  ASSUME IInv, ViewsInv, DeviceTrustAssumption, [Next]_vars
  PROVE  ViewsInv'
<1>1. ASSUME NEW i \in Device, Start(i) \/ Stop(i) \/ Crash(i) PROVE ViewsInv'
  BY <1>1, StartViews, StopViews, CrashViews
<1>2. ASSUME NEW s \in Session, Handshake(s) PROVE ViewsInv'
  <2>1. UNCHANGED <<up, trusted, disk, writes, given, adrift>>
    BY <1>2 DEF Handshake, RequestLocalPairing, HandlePairingStream, PairingResponse,
                PairingFails, history
  <2>2. \A k \in Device : \A l \in Peers(k) :
          found'[k][l] = "trusted" => found[k][l] = "trusted" \/ l \in trusted[k]
    BY <1>2, PairingViews DEF Handshake
  <2> QED BY <2>1, <2>2, FoundViews
<1>3. ASSUME NEW s \in Session, NEW i \in Ends(s), AcceptPairing(i, s) PROVE ViewsInv'
  BY <1>3, AcceptViews
<1>4. ASSUME NEW i \in Device, NEW j \in Peers(i),
             \/ RemoveTrustedDevice(i, j) \/ UpsertTrustedDevice(i, j) \/ StoreSettles(i, j)
             \/ Discover(i, j)
      PROVE  ViewsInv'
  BY <1>4, RemoveViews, UpsertViews, SaveDoneViews, RemoveDoneViews, WriteFailsViews,
     DiscoverViews DEF StoreSettles
<1>5. CASE UNCHANGED <<up, trusted, disk, writes, found, given, adrift>>
  BY <1>5, FoundViews
<1>6. ASSUME NEW i \in Device, RefreshExpiry(i)
      PROVE  UNCHANGED <<up, trusted, disk, writes, found, given, adrift>>
  BY <1>6 DEF RefreshExpiry, history
<1>7. ASSUME NEW s \in Session, NEW i \in Ends(s),
             Tick(i, s) \/ AcceptExpired(i, s) \/ RejectPairing(i, s)
      PROVE  UNCHANGED <<up, trusted, disk, writes, found, given, adrift>>
  BY <1>7 DEF Tick, AcceptExpired, RejectPairing, history
<1>8. ASSUME NEW i \in Device, NEW j \in Peers(i), OpenStream(i, j) \/ HandleStream(i, j)
      PROVE  UNCHANGED <<up, trusted, disk, writes, found, given, adrift>>
  BY <1>8 DEF OpenStream, HandleStream, history
<1>9. ASSUME UNCHANGED vars
      PROVE  UNCHANGED <<up, trusted, disk, writes, found, given, adrift>>
  BY <1>9 DEF vars
<1> QED BY <1>1, <1>2, <1>3, <1>4, <1>5, <1>6, <1>7, <1>8, <1>9 DEF Next, Decide

\* Over restarts, crashes and writes that fail or come late: memory and store name the same peers,
\* and the list shows as trusted exactly the peers that are served, once the writes about a peer
\* have settled and unless one failed (toVisibleDevices, updateDeviceTrust, canOpenProtocol).
THEOREM ShownIsStoredAndServed == Spec => []ViewsAgree
<1>1. Init => ViewsInv
  BY InitViews
<1>2. IInv /\ ViewsInv /\ [Next]_vars => ViewsInv'
  BY NextViews, DeviceTrustAssumption
<1>3. IInv => up \subseteq Device
  BY DEF IInv, TypeOK
<1>4. IInv /\ ViewsInv => ViewsAgree
  BY <1>3 DEF ViewsInv, View, ViewsAgree, StoreMatches, ShownIsServed, ShownTrusted, CanOpen
<1> QED BY <1>1, <1>2, <1>4, TrustInvariant, PTL DEF Spec

================================================================================
