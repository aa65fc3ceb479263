----------------------------- MODULE DeviceTrust -----------------------------
(***************************************************************************)
(* Local pairing and device trust (libp2pDeviceNetworkService.ts).         *)
(*                                                                         *)
(* A device asks another to pair; both then hold a pairing session that    *)
(* their users accept or reject.  An accepted peer is trusted in memory at *)
(* once and in the trust store when its promise resolves.  Business        *)
(* streams (rpc, sync) are authorised by the map in memory, on the side    *)
(* that opens them and on the side that answers them.  A process may stop  *)
(* or crash between any two steps; the next start reads the store back.    *)
(*                                                                         *)
(* The trust store is the host's: a promise per write, applied in the      *)
(* order of the calls, which may reject.  FileDeviceTrustStore is the case *)
(* where a write is applied within its call.                               *)
(***************************************************************************)
EXTENDS Naturals, Sequences, FiniteSets, SequencesExt

CONSTANTS
  Device,    \* the devices
  Session,   \* the pairing requests that may be made
  From, To,  \* who makes a request, and to whom
  MaxUpsets, \* bound: removals, host records, failures, stops and crashes
  MaxWrites  \* bound: calls of the store under way for one peer

ASSUME DeviceTrustAssumption ==
  /\ From \in [Session -> Device] /\ To \in [Session -> Device]
  /\ \A s \in Session : From[s] # To[s]
  /\ MaxUpsets \in Nat /\ MaxWrites \in Nat

VARIABLES
  up,         \* devices whose node is started
  trusted,    \* trustedDevices: the peers with a record in memory
  disk,       \* the peers with a record in the trust store
  writes,     \* the calls of the store whose promise is not settled
  found,      \* discoveredDevices, and whether an entry says trusted
  session,    \* pairingSessions: their status on each device
  handshake,  \* how far a pairing request has got
  clock,      \* Date.now() against expiresAt: 0 before, 1 equal, 2 after
  stream,     \* business requests under way: <<from, to>>
  served,     \* history: the business requests that were handled
  confirmed,  \* history: the peers the user or host last said yes to
  ever,       \* history: the peers ever said yes to
  given,      \* history: the peers the host set without the store
  adrift,     \* history: the peers whose last settled write failed
  upsets      \* how many of what MaxUpsets bounds have happened

vars == <<up, trusted, disk, writes, found, session, handshake, clock, stream,
          served, confirmed, ever, given, adrift, upsets>>

\* What a host or user decides, and what the store has settled.
history == <<ever, given, adrift>>

Statuses == {"none", "pending", "accepted", "rejected", "expired"}

Peers(i) == Device \ {i}

Ends(s) == {From[s], To[s]}

\* The other end of a session.
Remote(i, s) == IF From[s] = i THEN To[s] ELSE From[s]

Save(s) == [op |-> "save", session |-> s]

Removal == [op |-> "remove"]

Write == {Save(s) : s \in Session} \cup {Removal}

Idle(i, j) == writes[i][j] = <<>>

\* Of each device, a set of others.
PeerSets == {f \in [Device -> SUBSET Device] : \A i \in Device : i \notin f[i]}

TypeOK ==
  /\ up \subseteq Device
  /\ trusted \in PeerSets /\ disk \in PeerSets
  /\ confirmed \in PeerSets /\ ever \in PeerSets /\ given \in PeerSets /\ adrift \in PeerSets
  /\ writes \in [Device -> [Device -> Seq(Write)]]
  /\ found \in [Device -> [Device -> {"unknown", "untrusted", "trusted"}]]
  /\ \A i \in Device, j \in Device : found[i][j] # "unknown" => i \in up /\ i # j
  /\ session \in [Device -> [Session -> Statuses]]
  /\ \A i \in Device, s \in Session : session[i][s] # "none" => i \in Ends(s)
  /\ handshake \in [Session -> {"new", "sent", "answered", "done", "failed"}]
  /\ clock \in [Device -> [Session -> 0..2]]
  /\ stream \subseteq Device \X Device /\ served \subseteq Device \X Device
  /\ upsets \in 0..MaxUpsets

Init ==
  /\ up = {}
  /\ disk \in PeerSets
  /\ trusted = [i \in Device |-> {}]
  /\ writes = [i \in Device |-> [j \in Device |-> <<>>]]
  /\ found = [i \in Device |-> [j \in Device |-> "unknown"]]
  /\ session = [i \in Device |-> [s \in Session |-> "none"]]
  /\ handshake = [s \in Session |-> "new"]
  /\ clock = [i \in Device |-> [s \in Session |-> 0]]
  /\ stream = {} /\ served = {}
  /\ confirmed = disk /\ ever = disk
  /\ given = [i \in Device |-> {}] /\ adrift = [i \in Device |-> {}]
  /\ upsets = 0

Upset == upsets < MaxUpsets /\ upsets' = upsets + 1

Flag(b) == IF b THEN "trusted" ELSE "untrusted"

\* updateDeviceTrust: only an entry that is there changes.
FlagIfFound(i, j, b) == IF found[i][j] = "unknown" THEN found[i][j] ELSE Flag(b)

-----------------------------------------------------------------------------
(* Start, stop, crash                                                       *)

\* loadTrustedDevicesFromStore: what is stored joins what is in memory.
Loaded(i) == trusted[i] \cup disk[i]

\* The load is applied after the writes the store was given before it, and
\* before any other call: hosts await start.
Start(i) ==
  /\ i \notin up /\ \A j \in Peers(i) : Idle(i, j)
  /\ up' = up \cup {i}
  /\ trusted' = [trusted EXCEPT ![i] = Loaded(i)]
  /\ UNCHANGED <<disk, writes, found, session, handshake, clock, stream, served, confirmed, history, upsets>>

\* The node of i goes down: its streams end, its discovered devices go.
NodeDown(i) ==
  /\ up' = up \ {i}
  /\ found' = [found EXCEPT ![i] = [j \in Device |-> "unknown"]]
  /\ handshake' = [s \in Session |->
       IF \/ From[s] = i /\ handshake[s] \in {"sent", "answered"}
          \/ To[s] = i /\ handshake[s] = "sent"
       THEN "failed" ELSE handshake[s]]
  /\ stream' = {r \in stream : i \notin {r[1], r[2]}}

Stop(i) ==
  /\ i \in up /\ Upset /\ NodeDown(i)
  /\ UNCHANGED <<trusted, disk, writes, session, clock, served, confirmed, history>>

\* Whether j may be in the store after some of the calls under way.
MayBeStored(i, j) == {j \in disk[i]} \cup {w.op = "save" : w \in ToSet(writes[i][j])}

\* The process ends.  Of the writes under way some may have been applied;
\* nobody was told, so that either outcome counts as confirmed.
Crash(i) ==
  /\ Upset /\ NodeDown(i)
  /\ \E stored \in SUBSET Peers(i) :
       /\ \A j \in Peers(i) : (j \in stored) \in MayBeStored(i, j)
       /\ disk' = [disk EXCEPT ![i] = stored]
  /\ confirmed' = [confirmed EXCEPT ![i] = @ \cup {j \in ever[i] : ~Idle(i, j)}]
  /\ trusted' = [trusted EXCEPT ![i] = {}]
  /\ session' = [session EXCEPT ![i] = [s \in Session |-> "none"]]
  /\ writes' = [writes EXCEPT ![i] = [j \in Device |-> <<>>]]
  /\ given' = [given EXCEPT ![i] = {}] /\ adrift' = [adrift EXCEPT ![i] = {}]
  /\ UNCHANGED <<clock, served, ever>>

-----------------------------------------------------------------------------
(* The handshake                                                            *)

\* Mutant: a peer is listed as trusted once it has paired.
FoundTrusted(i, j) == found' = [found EXCEPT ![i][j] = Flag(TRUE)]

\* upsertDiscoveredDeviceFromPairing keeps what the entry said of trust.
PairingFound(i, j) ==
  found' = [found EXCEPT ![i][j] = IF @ = "unknown" THEN Flag(j \in trusted[i]) ELSE @]

RequestLocalPairing(s) ==
  /\ handshake[s] = "new" /\ Ends(s) \subseteq up
  /\ handshake' = [handshake EXCEPT ![s] = "sent"]
  /\ UNCHANGED <<up, trusted, disk, writes, found, session, clock, stream, served, confirmed, history, upsets>>

HandlePairingStream(s) ==
  LET j == To[s] IN
  /\ handshake[s] = "sent" /\ j \in up /\ clock[j][s] = 0
  /\ handshake' = [handshake EXCEPT ![s] = "answered"]
  /\ session' = [session EXCEPT ![j][s] = "pending"]
  /\ PairingFound(j, From[s])
  /\ UNCHANGED <<up, trusted, disk, writes, clock, stream, served, confirmed, history, upsets>>

PairingResponse(s) ==
  LET i == From[s] IN
  /\ handshake[s] = "answered" /\ i \in up /\ clock[i][s] = 0
  /\ handshake' = [handshake EXCEPT ![s] = "done"]
  /\ session' = [session EXCEPT ![i][s] = "pending"]
  /\ PairingFound(i, To[s])
  /\ UNCHANGED <<up, trusted, disk, writes, clock, stream, served, confirmed, history, upsets>>

\* The stream breaks, or a message is refused: the requester has no session,
\* the responder keeps the one it may have.
PairingFails(s) ==
  /\ handshake[s] \in {"sent", "answered"}
  /\ handshake' = [handshake EXCEPT ![s] = "failed"]
  /\ UNCHANGED <<up, trusted, disk, writes, found, session, clock, stream, served, confirmed, history, upsets>>

Tick(i, s) ==
  /\ handshake[s] \in {"sent", "answered"} \/ session[i][s] # "none"
  /\ clock[i][s] < 2
  /\ clock' = [clock EXCEPT ![i][s] = @ + 1]
  /\ UNCHANGED <<up, trusted, disk, writes, found, session, handshake, stream, served, confirmed, history, upsets>>

-----------------------------------------------------------------------------
(* The user's decisions                                                     *)

\* Mutant: while a write is under way the next is dropped.
CallOnce(i, j, w) ==
  writes' = IF Idle(i, j) THEN [writes EXCEPT ![i][j] = <<w>>] ELSE writes

Call(i, j, w) ==
  Len(writes[i][j]) < MaxWrites /\ writes' = [writes EXCEPT ![i][j] = Append(@, w)]

\* Until its write settles a session is still pending and may be accepted again.
Acceptable(i, s) == session[i][s] = "pending" /\ clock[i][s] < 2

AcceptPairing(i, s) ==
  LET j == Remote(i, s) IN
  /\ Acceptable(i, s)
  /\ trusted' = [trusted EXCEPT ![i] = @ \cup {j}]
  /\ Call(i, j, Save(s))
  /\ confirmed' = [confirmed EXCEPT ![i] = @ \cup {j}]
  /\ ever' = [ever EXCEPT ![i] = @ \cup {j}]
  /\ given' = [given EXCEPT ![i] = @ \ {j}]
  /\ UNCHANGED <<up, disk, found, session, handshake, clock, stream, served, adrift, upsets>>

\* Accepting after expiresAt expires the session, whatever its status was.
AcceptExpired(i, s) ==
  /\ session[i][s] # "none" /\ clock[i][s] = 2
  /\ session' = [session EXCEPT ![i][s] = "expired"]
  /\ UNCHANGED <<up, trusted, disk, writes, found, handshake, clock, stream, served, confirmed, history, upsets>>

RejectPairing(i, s) ==
  /\ session[i][s] # "none"
  /\ session' = [session EXCEPT ![i][s] = "rejected"]
  /\ UNCHANGED <<up, trusted, disk, writes, found, handshake, clock, stream, served, confirmed, history, upsets>>

\* listPairingSessions: refreshPairingSessionExpiry.
RefreshExpiry(i) ==
  /\ session' = [session EXCEPT ![i] = [s \in Session |->
       IF @[s] = "pending" /\ clock[i][s] >= 1 THEN "expired" ELSE @[s]]]
  /\ UNCHANGED <<up, trusted, disk, writes, found, handshake, clock, stream, served, confirmed, history, upsets>>

\* Mutant: the record is deleted in memory only.
RemoveInMemory(i, j) ==
  /\ Upset
  /\ trusted' = [trusted EXCEPT ![i] = @ \ {j}]
  /\ confirmed' = [confirmed EXCEPT ![i] = @ \ {j}]
  /\ given' = [given EXCEPT ![i] = @ \ {j}]
  /\ UNCHANGED <<up, disk, writes, found, session, handshake, clock, stream, served, ever, adrift>>

RemoveTrustedDevice(i, j) ==
  /\ Upset
  /\ trusted' = [trusted EXCEPT ![i] = @ \ {j}]
  /\ Call(i, j, Removal)
  /\ confirmed' = [confirmed EXCEPT ![i] = @ \ {j}]
  /\ given' = [given EXCEPT ![i] = @ \ {j}]
  /\ UNCHANGED <<up, disk, found, session, handshake, clock, stream, served, ever, adrift>>

\* upsertTrustedDevice: a record of the host's, in memory only.
UpsertTrustedDevice(i, j) ==
  /\ Upset
  /\ trusted' = [trusted EXCEPT ![i] = @ \cup {j}]
  /\ found' = [found EXCEPT ![i][j] = FlagIfFound(i, j, TRUE)]
  /\ confirmed' = [confirmed EXCEPT ![i] = @ \cup {j}]
  /\ ever' = [ever EXCEPT ![i] = @ \cup {j}]
  /\ given' = [given EXCEPT ![i] = @ \cup {j}]
  /\ UNCHANGED <<up, disk, writes, session, handshake, clock, stream, served, adrift>>

-----------------------------------------------------------------------------
(* The store settles the oldest of its calls                                *)

Settle(i, j) == writes' = [writes EXCEPT ![i][j] = Tail(@)]

SaveDone(i, j) ==
  /\ ~Idle(i, j) /\ Head(writes[i][j]).op = "save" /\ Settle(i, j)
  /\ disk' = [disk EXCEPT ![i] = @ \cup {j}]
  /\ session' = [session EXCEPT ![i][Head(writes[i][j]).session] = "accepted"]
  /\ found' = [found EXCEPT ![i][j] = FlagIfFound(i, j, TRUE)]
  /\ adrift' = [adrift EXCEPT ![i] = @ \ {j}]
  /\ UNCHANGED <<up, trusted, handshake, clock, stream, served, confirmed, ever, given, upsets>>

RemoveDone(i, j) ==
  /\ ~Idle(i, j) /\ Head(writes[i][j]) = Removal /\ Settle(i, j)
  /\ disk' = [disk EXCEPT ![i] = @ \ {j}]
  /\ found' = [found EXCEPT ![i][j] = FlagIfFound(i, j, FALSE)]
  /\ adrift' = [adrift EXCEPT ![i] = @ \ {j}]
  /\ UNCHANGED <<up, trusted, session, handshake, clock, stream, served, confirmed, ever, given, upsets>>

\* The promise rejects: the rest of the operation does not happen.  A removal
\* that failed, and was the last word, leaves the peer confirmed.
WriteFails(i, j) ==
  /\ ~Idle(i, j) /\ Upset /\ Settle(i, j)
  /\ adrift' = [adrift EXCEPT ![i] = @ \cup {j}]
  /\ confirmed' = [confirmed EXCEPT ![i] = IF writes[i][j] = <<Removal>> THEN @ \cup ({j} \cap ever[i]) ELSE @]
  /\ UNCHANGED <<up, trusted, disk, found, session, handshake, clock, stream, served, ever, given>>

-----------------------------------------------------------------------------
(* Discovery and business streams                                           *)

\* peer:discovery, and upsertDiscoveredDevice without a word on trust.
Discover(i, j) ==
  /\ i \in up
  /\ found' = [found EXCEPT ![i][j] = Flag(j \in trusted[i])]
  /\ UNCHANGED <<up, trusted, disk, writes, session, handshake, clock, stream, served, confirmed, history, upsets>>

\* Mutant: a pairing session is enough.
SessionIsEnough(i, j) ==
  j \in trusted[i] \/ \E s \in Session : Remote(i, s) = j /\ session[i][s] # "none"

\* canOpenProtocol of the local authorizer, for rpc and sync.
CanOpen(i, j) == j \in trusted[i]

OpenStream(i, j) ==
  /\ {i, j} \subseteq up /\ CanOpen(i, j)
  /\ stream' = stream \cup {<<i, j>>}
  /\ UNCHANGED <<up, trusted, disk, writes, found, session, handshake, clock, served, confirmed, history, upsets>>

\* handleRpcStream and handleSyncStream: a peer that is not trusted is refused.
HandleStream(i, j) ==
  /\ <<i, j>> \in stream
  /\ stream' = stream \ {<<i, j>>}
  /\ served' = IF CanOpen(j, i) THEN served \cup {<<i, j>>} ELSE served
  /\ UNCHANGED <<up, trusted, disk, writes, found, session, handshake, clock, confirmed, history, upsets>>

-----------------------------------------------------------------------------
Handshake(s) ==
  RequestLocalPairing(s) \/ HandlePairingStream(s) \/ PairingResponse(s) \/ PairingFails(s)

Decide(i, s) == AcceptPairing(i, s) \/ AcceptExpired(i, s) \/ RejectPairing(i, s)

StoreSettles(i, j) == SaveDone(i, j) \/ RemoveDone(i, j) \/ WriteFails(i, j)

Next ==
  \/ \E i \in Device : Start(i) \/ Stop(i) \/ Crash(i) \/ RefreshExpiry(i)
  \/ \E s \in Session : Handshake(s)
  \/ \E s \in Session : \E i \in Ends(s) : Tick(i, s) \/ Decide(i, s)
  \/ \E i \in Device : \E j \in Peers(i) :
       \/ RemoveTrustedDevice(i, j) \/ UpsertTrustedDevice(i, j) \/ StoreSettles(i, j)
       \/ Discover(i, j) \/ OpenStream(i, j) \/ HandleStream(i, j)

Spec == Init /\ [][Next]_vars

-----------------------------------------------------------------------------
\* A peer is trusted only while the user's last word on it was yes: one that
\* was removed stays removed, over restarts and with earlier accepts still
\* under way, until it is confirmed again (acceptPairing, removeTrustedDevice,
\* loadTrustedDevicesFromStore).
TrustWasConfirmed == \A i \in Device : trusted[i] \subseteq confirmed[i]

\* On a device that runs, when no write is under way, memory and store name
\* the same peers, but for those whose last write failed or that the host set
\* in memory only.
StoreMatches ==
  \A i \in up : \A j \in Peers(i) \ (adrift[i] \cup given[i]) :
    Idle(i, j) => (j \in trusted[i] <=> j \in disk[i])

\* toVisibleDevices: what the device list says of a peer.
ShownTrusted(i, j) == j \in trusted[i] \/ found[i][j] = "trusted"

\* The device list shows a peer as trusted exactly when its streams would be
\* accepted, once the writes about it have settled and unless one failed.
ShownIsServed ==
  \A i \in Device : \A j \in Peers(i) \ adrift[i] :
    Idle(i, j) => (ShownTrusted(i, j) <=> CanOpen(i, j))

\* What is shown of a peer is what is stored of it and what is served to it.
ViewsAgree == StoreMatches /\ ShownIsServed

\* A business request is handled only between devices whose users, or hosts,
\* both confirmed the other at some time: a one-sided session gives nothing.
BusinessNeedsBoth ==
  \A r \in served : r[2] \in ever[r[1]] /\ r[1] \in ever[r[2]]

\* docs/LIBP2P_NETWORK_PLAN.md:146: the streams of a peer that is not confirmed
\* are refused.  A peer whose session the user rejected, that is in no store
\* and was not set by the host, is not trusted.
RejectedRefused ==
  \A i \in Device, s \in Session :
    LET j == Remote(i, s) IN
    /\ session[i][s] = "rejected" /\ Idle(i, j)
    /\ j \notin disk[i] \cup given[i]
    /\ \A t \in Session : Remote(i, t) = j => session[i][t] # "accepted"
    => j \notin trusted[i]
==============================================================================
