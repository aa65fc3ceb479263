-------------------------- MODULE DeviceDirectory --------------------------
(***************************************************************************)
(* The list of devices of one device network service: its start and stop,  *)
(* what the network tells of other devices, what the host adds, the        *)
(* records of trust merged in, and the listeners that are told of it.      *)
(* The first list of a listener comes with a promise, later ones at once.  *)
(* Trust itself, with pairing and its store, is DeviceTrust.  A second     *)
(* service keeps everything in memory (memoryDeviceNetworkService.ts): all *)
(* its lists, of devices and of pairing sessions, come with promises.      *)
(***************************************************************************)
EXTENDS Naturals, Sequences, FiniteSets

CONSTANTS
    Peers,        \* other devices
    StartCalls,   \* calls of start; a node is named by the call that created it
    Observers,    \* listeners
    MaxNews,      \* bound: events of the network and calls of the host
    Pairings,     \* pairing sessions of the service in memory
    MaxUses,      \* bound: calls of the service in memory
    Unlisted

\* A pairing session of the service in memory.
PairingRecords == [peer : Peers, status : {"pending", "accepted", "rejected"}, late : BOOLEAN]

Kinds == {"trust", "pairing"}

ASSUME DirectoryAssumption ==
    Unlisted \notin PairingRecords /\ \A l \in Observers \X Kinds : l # "all"

VARIABLES
    startCalls,   \* call -> "idle", "load", "create", "listen", "up", "failed", "returned", "down"
    node,         \* libp2p: the call that created it, or Unlisted
    stopping,     \* the node a stop waits for, or Unlisted
    known,        \* discoveredDevices: peer -> Unlisted or [state, host]
    records,      \* trustedDevices: peer -> "none", "trusted" or "revoked"
    links,        \* connections: <<node, peer>>
    observing,    \* listeners that are registered
    firstList,    \* listener -> the list its promise will deliver, or Unlisted
    seen,         \* listener -> the last list it was given, or Unlisted
    late,         \* ghost: listeners whose first list came after a newer one
    unannounced,  \* ghost: records were loaded and not announced yet
    news,
    memory,       \* the service in memory: [trust, pairing]
    listeners,    \* its listeners: <<observer, "trust" or "pairing">>
    promised,     \* lists it has promised: [to, kind, list], in the order of their promises
    received,     \* the last list of each listener, or Unlisted
    uses

directoryVars == <<startCalls, node, stopping, known, records, links, observing, firstList, seen,
                   late, unannounced, news>>
memoryVars == <<memory, listeners, promised, received, uses>>
service == <<startCalls, node, stopping>>
audience == <<observing, firstList>>

DirectoryInit ==
    /\ startCalls = [c \in StartCalls |-> "idle"] /\ node = Unlisted /\ stopping = Unlisted
    /\ known = [p \in Peers |-> Unlisted] /\ records = [p \in Peers |-> "none"] /\ links = {}
    /\ observing = {} /\ firstList = [o \in Observers |-> Unlisted]
    /\ seen = [o \in Observers |-> Unlisted] /\ late = {} /\ unannounced = FALSE /\ news = 0

-----------------------------------------------------------------------------
(* The list and its listeners *)

\* toVisibleDevices: a record without a device is shown offline, unless it was revoked.
VisibleOf(devices, trust) ==
    [p \in Peers |->
       IF devices[p] # Unlisted THEN [state |-> devices[p].state, trusted |-> trust[p] = "trusted"]
       ELSE IF trust[p] = "trusted" THEN [state |-> "offline", trusted |-> TRUE] ELSE Unlisted]

Visible == VisibleOf(known, records)

\* Mutant: the listeners get the list from before the change.
AnnounceBefore ==
    /\ seen' = [o \in Observers |-> IF o \in observing THEN VisibleOf(known, records) ELSE seen[o]]
    /\ late' = late \ observing /\ unannounced' = FALSE

\* emitDevices
Announce ==
    /\ seen' = [o \in Observers |->
                  IF o \in observing THEN VisibleOf(known', records') ELSE seen[o]]
    /\ late' = late \ observing /\ unannounced' = FALSE

Quiet == UNCHANGED <<seen, late, unannounced>>

ObserveDevices(o) ==
    /\ o \notin observing /\ firstList[o] = Unlisted
    /\ observing' = observing \union {o}
    /\ firstList' = [firstList EXCEPT ![o] = Visible]
    /\ seen' = [seen EXCEPT ![o] = Unlisted]
    /\ UNCHANGED <<service, known, records, links, late, unannounced, news>>

\* Delivered even to a listener that has left meanwhile.
DeliverFirst(o) ==
    /\ firstList[o] # Unlisted
    /\ seen' = [seen EXCEPT ![o] = firstList[o]]
    /\ firstList' = [firstList EXCEPT ![o] = Unlisted]
    /\ late' = IF firstList[o] # Visible THEN late \union {o} ELSE late
    /\ UNCHANGED <<service, known, records, links, observing, unannounced, news>>

StopObserving(o) ==
    /\ o \in observing /\ observing' = observing \ {o}
    /\ UNCHANGED <<service, known, records, links, firstList, seen, late, unannounced, news>>

-----------------------------------------------------------------------------
(* The service *)

\* A call returns at once while there is a node, also one that is being stopped.
Start(c) ==
    /\ startCalls[c] = "idle" /\ c = CHOOSE d \in StartCalls : startCalls[d] = "idle"
    /\ startCalls' = [startCalls EXCEPT ![c] = IF node = Unlisted THEN "load" ELSE "returned"]
    /\ UNCHANGED <<node, stopping, known, records, links, audience, news>> /\ Quiet

LoadTrustedDevices(c) ==
    /\ startCalls[c] = "load" /\ startCalls' = [startCalls EXCEPT ![c] = "create"]
    /\ \E loaded \in SUBSET Peers :
         /\ records' = [p \in Peers |-> IF p \in loaded THEN "trusted" ELSE records[p]]
         /\ unannounced' = (unannounced \/ records' # records)
    /\ UNCHANGED <<node, stopping, known, links, audience, seen, late, news>>

\* Of two calls under way each creates a node; the service keeps the later.
CreateNode(c) ==
    /\ startCalls[c] = "create" /\ startCalls' = [startCalls EXCEPT ![c] = "listen"]
    /\ node' = c
    /\ UNCHANGED <<stopping, known, records, links, audience, news>> /\ Quiet

NodeStarted(c) ==
    /\ startCalls[c] = "listen" /\ startCalls' = [startCalls EXCEPT ![c] = "up"]
    /\ UNCHANGED <<node, stopping, known, records, links, audience, news>>
    /\ Announce

\* A node that does not start stays the node of the service.
NodeFails(c) ==
    /\ startCalls[c] \in {"load", "create", "listen"}
    /\ startCalls' = [startCalls EXCEPT ![c] = "failed"]
    /\ UNCHANGED <<node, stopping, known, records, links, audience, news>> /\ Quiet

Stop ==
    /\ node # Unlisted /\ stopping = Unlisted /\ stopping' = node
    /\ UNCHANGED <<startCalls, node, known, records, links, audience, news>> /\ Quiet

\* The node closed its connections first.  Whichever node the service has by then is let go.
Stopped ==
    /\ stopping # Unlisted /\ stopping' = Unlisted
    /\ \A p \in Peers : <<stopping, p>> \notin links
    /\ startCalls' = [startCalls EXCEPT ![stopping] = "down"]
    /\ node' = Unlisted /\ known' = [p \in Peers |-> Unlisted]
    /\ UNCHANGED <<records, links, audience, news>>
    /\ Announce

-----------------------------------------------------------------------------
(* The network and the host *)

Running(c) == startCalls[c] = "up"

News == news < MaxNews /\ news' = news + 1

\* Found again, a device that is connected counts as nearby.
PeerDiscovery(c, p) ==
    /\ Running(c) /\ News
    /\ known' = [known EXCEPT ![p] = [state |-> "nearby", host |-> FALSE]]
    /\ UNCHANGED <<service, records, links, audience>>
    /\ Announce

MarkPeer(p, state) ==
    IF known[p] # Unlisted
    THEN /\ known' = [known EXCEPT ![p] = [state |-> state, host |-> FALSE]]
         /\ UNCHANGED records /\ Announce
    ELSE UNCHANGED <<known, records>> /\ Quiet

\* A device that connects before it was found is not listed by that.
PeerConnect(c, p) ==
    /\ Running(c) /\ <<c, p>> \notin links /\ News
    /\ links' = links \union {<<c, p>>}
    /\ MarkPeer(p, "online")
    /\ UNCHANGED <<service, audience>>

PeerDisconnect(c, p) ==
    /\ <<c, p>> \in links /\ links' = links \ {<<c, p>>}
    /\ MarkPeer(p, "offline")
    /\ UNCHANGED <<service, audience, news>>

\* The host's own list, for instance that of the cloud.
UpsertDiscoveredDevice(p) ==
    /\ News
    /\ \E state \in {"online", "offline"} :
         known' = [known EXCEPT ![p] = [state |-> state, host |-> TRUE]]
    /\ UNCHANGED <<service, records, links, audience>>
    /\ Announce

\* upsertTrustedDevice, with a record that may be revoked.
UpsertTrustedDevice(p, record) ==
    /\ News
    /\ records' = [records EXCEPT ![p] = record]
    /\ UNCHANGED <<service, known, links, audience>>
    /\ Announce

DirectoryNext ==
    \/ \E o \in Observers : ObserveDevices(o) \/ DeliverFirst(o) \/ StopObserving(o)
    \/ \E c \in StartCalls :
         Start(c) \/ LoadTrustedDevices(c) \/ CreateNode(c) \/ NodeStarted(c) \/ NodeFails(c)
    \/ Stop \/ Stopped
    \/ \E c \in StartCalls, p \in Peers :
         PeerDiscovery(c, p) \/ PeerConnect(c, p) \/ PeerDisconnect(c, p)
    \/ \E p \in Peers :
         \/ UpsertDiscoveredDevice(p)
         \/ \E record \in {"trusted", "revoked"} : UpsertTrustedDevice(p, record)

-----------------------------------------------------------------------------
(***************************************************************************)
(* A listener that was told anything has the current list, but for two     *)
(* cases: its first list came after a newer one, or records were loaded    *)
(* by a start that has not come up (observeDevices, start).                *)
(***************************************************************************)
ListenersAreCurrent ==
    \A o \in observing : seen[o] \in {Unlisted, Visible} \/ o \in late \/ unannounced

(***************************************************************************)
(* A device that the network shows as online is connected, through this    *)
(* node or through one an overlapping start has left behind.               *)
(***************************************************************************)
OnlineIsConnected ==
    \A p \in Peers :
      known[p] # Unlisted /\ known[p].state = "online" /\ ~known[p].host =>
        \E c \in StartCalls : <<c, p>> \in links

-----------------------------------------------------------------------------
(* The service in memory *)

MemoryInit ==
    /\ \E given \in [Peers -> {"none", "trusted", "revoked"}] :
         memory = [trust |-> given, pairing |-> [s \in Pairings |-> Unlisted]]
    /\ listeners = {} /\ promised = <<>> /\ uses = 0
    /\ received = [l \in Observers \X Kinds |-> Unlisted]

\* What is listed: devices as they are; of sessions, which are objects that all lists share,
\* which there are.
ListOf(m, kind) ==
    IF kind = "trust" THEN m.trust ELSE {s \in Pairings : m.pairing[s] # Unlisted}

Promise(to, kind) == [to |-> to, kind |-> kind, list |-> ListOf(memory', kind)]

Use == uses < MaxUses /\ uses' = uses + 1

\* Mutant: a change tells the listeners of sessions only.
EmitPairings(changed, kinds) ==
    /\ memory' = changed
    /\ promised' = promised \o <<Promise("all", "pairing")>>
    /\ UNCHANGED <<listeners, received>>

\* emitPairingSessions and emitDevices, in this order where a call does both.
Emit(changed, kinds) ==
    /\ memory' = changed
    /\ promised' = promised \o (IF "pairing" \in kinds THEN <<Promise("all", "pairing")>> ELSE <<>>)
                            \o (IF "trust" \in kinds THEN <<Promise("all", "trust")>> ELSE <<>>)
    /\ UNCHANGED <<listeners, received>>

ObserveMemory(l) ==
    /\ l \notin listeners /\ Use /\ listeners' = listeners \union {l}
    /\ UNCHANGED <<memory, received>>
    /\ promised' = Append(promised, Promise(l, l[2]))

\* A list goes to who listens when it comes; a first list also to who has left.
DeliverList ==
    /\ promised # <<>> /\ promised' = Tail(promised)
    /\ LET first == Head(promised)
           to == IF first.to = "all" THEN {l \in listeners : l[2] = first.kind} ELSE {first.to}
       IN received' = [l \in DOMAIN received |-> IF l \in to THEN first.list ELSE received[l]]
    /\ UNCHANGED <<memory, listeners, uses>>

StopListening(l) ==
    /\ l \in listeners /\ listeners' = listeners \ {l}
    /\ UNCHANGED <<memory, promised, received, uses>>

\* start and stop only change how the own device is shown, and tell the listeners.
StartOrStopMemory == Use /\ Emit(memory, {"trust"})

RequestLocalPairing(s, p) ==
    /\ memory.pairing[s] = Unlisted /\ Use
    /\ Emit([memory EXCEPT !.pairing[s] = [peer |-> p, status |-> "pending", late |-> FALSE]],
            {"pairing"})

PairingExpires(s) ==
    /\ memory.pairing[s] # Unlisted /\ ~memory.pairing[s].late
    /\ memory' = [memory EXCEPT !.pairing[s].late = TRUE]
    /\ UNCHANGED <<listeners, promised, received, uses>>

\* A call about an unknown, expired or decided session fails.
AcceptPairing(s) ==
    /\ memory.pairing[s] # Unlisted /\ ~memory.pairing[s].late
    /\ memory.pairing[s].status = "pending" /\ Use
    /\ Emit([memory EXCEPT !.trust[memory.pairing[s].peer] = "trusted",
                           !.pairing[s].status = "accepted"], Kinds)

\* Also of a session that was accepted, whose device stays trusted.
RejectPairing(s) ==
    /\ memory.pairing[s] # Unlisted /\ Use
    /\ Emit([memory EXCEPT !.pairing[s].status = "rejected"], {"pairing"})

RemoveTrustedDevice(p) == Use /\ Emit([memory EXCEPT !.trust[p] = "none"], {"trust"})

MemoryNext ==
    \/ \E l \in Observers \X Kinds : ObserveMemory(l) \/ StopListening(l)
    \/ DeliverList \/ StartOrStopMemory
    \/ \E s \in Pairings :
         PairingExpires(s) \/ AcceptPairing(s) \/ RejectPairing(s)
    \/ \E s \in Pairings, p \in Peers : RequestLocalPairing(s, p)
    \/ \E p \in Peers : RemoveTrustedDevice(p)

(***************************************************************************)
(* When the promised lists have come, every listener has the current one:  *)
(* all lists of the service in memory come in the order of the changes,    *)
(* the first list of a listener included (observeDevices, emitDevices).    *)
(***************************************************************************)
MemoryListsAreCurrent ==
    promised = <<>> => \A l \in listeners : received[l] = ListOf(memory, l[2])
=============================================================================
