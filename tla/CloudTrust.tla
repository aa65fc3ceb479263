----------------------------- MODULE CloudTrust -----------------------------
(***************************************************************************)
(* What a node of the command line has from the cloud: the devices of the  *)
(* account merged into its trust store (syncCloudDevices), the grants its  *)
(* calls present and the checks of both ends (CloudDeviceAuthorizer), and  *)
(* the daemon's registration, relay reservation and heartbeats (cli.ts).   *)
(* The cloud itself is external: it lists devices, issues a grant for two  *)
(* devices of the account, and keeps what the last heartbeat said.         *)
(***************************************************************************)
EXTENDS Naturals, FiniteSets

CONSTANTS
    CloudDevices,     \* devices the cloud may list
    RecordContents,   \* what a record says of a device: key, name and platform
    MaxStoreChanges,  \* bound: changes of the listing and the store, and restarts
    Callers,          \* devices of the account
    CallPairs,        \* which of them call which
    CloudCalls,       \* calls between them
    GrantLife,        \* how long a grant is valid, in units of 30 s
    Margin,           \* how long a cached grant must still be valid
    MaxGrantTime, MaxGrantChanges,    \* bounds
    MaxRuns, MaxBeats,                \* bounds: runs of the daemon, heartbeats of one
    NoRecord

ASSUME CloudAssumption ==
    /\ GrantLife \in Nat /\ Margin \in Nat /\ GrantLife > Margin
    /\ \A pair \in CallPairs : pair \in Callers \X Callers /\ pair[1] # pair[2]
    /\ NoRecord \notin Nat \union [content : RecordContents, revoked : BOOLEAN]

VARIABLES
    listing,       \* the cloud's list: device -> NoRecord or [content, revoked]
    trustFile,     \* trusted-devices.json: device -> NoRecord or [content, revoked]
    trustCache,    \* CachedCliDeviceTrustStore.records, likewise
    cloudSync,     \* the sync that runs: [at, listed, loaded, todo, overtaken]
    shared,        \* devices whose cached record is the object the sync has loaded
    mergedAs,      \* ghost: device -> what a sync has listed and nothing changed since
    unwritten,     \* ghost: devices whose cached record is not the written one
    storeChanges

syncVars == <<listing, trustFile, trustCache, cloudSync, shared, mergedAs, unwritten, storeChanges>>
stores == <<trustFile, trustCache, shared, unwritten>>

VARIABLES
    keyed,         \* devices that have the public key of grants: cli.ts goes on without it
    trusts,        \* device -> other -> "none", "trusted" or "revoked"
    leftAt,        \* devices no longer in the account, with when they left
    grantCache,    \* device -> other -> NoRecord or a grant
    cloudCalls,    \* call -> [at, from, to, grant, since, age]
    grantNow,      \* the time
    grantChanges

grantVars == <<keyed, trusts, leftAt, grantCache, cloudCalls, grantNow, grantChanges>>

VARIABLES
    identityFile,  \* device-identity.json: [kind, id]
    daemon,        \* where cli.ts start is
    network,       \* the network service has addresses
    relay,         \* what it says of relays: "none", "reserved" or "connected"
    beats,         \* heartbeats under way: [number, id, addresses, relay]
    boundIds,      \* identities the cloud has registered
    presence,      \* the cloud: the heartbeat that landed last
    beatCount, runCount

daemonVars == <<identityFile, daemon, network, relay, beats, boundIds, presence, beatCount,
                runCount>>
cloudVars == <<syncVars, grantVars, daemonVars>>

-----------------------------------------------------------------------------
(* The devices of the account in the trust store *)

DeviceRecords == [content : RecordContents, revoked : BOOLEAN]
NoDevices == [p \in CloudDevices |-> NoRecord]
NoSync == [at |-> "idle", listed |-> NoDevices, loaded |-> NoDevices, todo |-> {}, overtaken |-> {}]

SyncInit ==
    /\ listing = NoDevices /\ trustFile = NoDevices /\ trustCache = NoDevices
    /\ cloudSync = NoSync /\ shared = {} /\ mergedAs = NoDevices /\ unwritten = {}
    /\ storeChanges = 0

StoreChange == storeChanges < MaxStoreChanges /\ storeChanges' = storeChanges + 1

\* A user names, revokes or removes a device at the cloud.
CloudLists(p) ==
    /\ StoreChange
    /\ \E r \in (DeviceRecords \union {NoRecord}) \ {listing[p]} :
         listing' = [listing EXCEPT ![p] = r]
    /\ UNCHANGED <<stores, cloudSync, mergedAs>>

\* Mutant: only what is cached is changed.
CacheOnly(p, r) ==
    /\ trustCache' = [trustCache EXCEPT ![p] = r] /\ trustFile' = trustFile
    /\ unwritten' = unwritten \ {p}

\* saveTrustedDevice and removeTrustedDevice: the cache first, then the file, which may fail.
SaveRecord(p, r) ==
    /\ trustCache' = [trustCache EXCEPT ![p] = r]
    /\ \/ trustFile' = [trustFile EXCEPT ![p] = r] /\ unwritten' = unwritten \ {p}
       \/ trustFile' = trustFile /\ unwritten' = unwritten \union {p}

\* A record that comes between the read of a load and its use is overtaken by it.
Overtakes(p) == IF cloudSync.at = "loaded" THEN {p} ELSE {}

\* acceptPairing and removeTrustedDevice of the network service.
UserChanges(p) ==
    /\ StoreChange
    /\ \E r \in {NoRecord} \union [content : RecordContents, revoked : {FALSE}] :
         /\ SaveRecord(p, r)
         /\ cloudSync' = [cloudSync EXCEPT !.overtaken = @ \union Overtakes(p)]
    /\ shared' = shared \ {p} /\ mergedAs' = [mergedAs EXCEPT ![p] = NoRecord]
    /\ UNCHANGED listing

\* The process starts again: the cache is what was written.
Restart ==
    /\ StoreChange
    /\ trustCache' = trustFile /\ cloudSync' = NoSync /\ shared' = {} /\ unwritten' = {}
    /\ mergedAs' = NoDevices
    /\ UNCHANGED <<listing, trustFile>>

ListCloudDevices ==
    /\ cloudSync.at = "idle" /\ StoreChange
    /\ cloudSync' = IF listing = NoDevices THEN NoSync
                    ELSE [NoSync EXCEPT !.at = "listed", !.listed = listing]
    /\ mergedAs' = NoDevices
    /\ UNCHANGED <<listing, stores>>

\* The file is read at once, the cache replaced after the await of it.
ReadStored ==
    /\ cloudSync.at = "listed"
    /\ cloudSync' = [cloudSync EXCEPT !.at = "loaded", !.loaded = trustFile]
    /\ UNCHANGED <<listing, stores, mergedAs, storeChanges>>

Listed == {p \in CloudDevices : cloudSync.listed[p] # NoRecord}

CacheStored ==
    /\ cloudSync.at = "loaded"
    /\ trustCache' = cloudSync.loaded
    /\ shared' = {p \in CloudDevices : cloudSync.loaded[p] # NoRecord}
    /\ unwritten' = cloudSync.overtaken
    /\ cloudSync' = [cloudSync EXCEPT !.at = "merge", !.todo = Listed]
    /\ mergedAs' = [p \in CloudDevices |-> IF p \in cloudSync.overtaken THEN NoRecord
                                          ELSE cloudSync.listed[p]]
    /\ UNCHANGED <<listing, trustFile, storeChanges>>

\* Mutant: a record that is there is left as it is.
IsNew(p) == cloudSync.loaded[p] = NoRecord

\* A device is saved when it is new or says something else; otherwise only the loaded copy is
\* brought up to date, which is the cached record unless that was replaced meanwhile.
IsSaved(p) ==
    IsNew(p) \/ cloudSync.loaded[p].content # cloudSync.listed[p].content

Refreshed(quiet) ==
    [p \in CloudDevices |-> IF p \in quiet \intersect shared
                            THEN [trustCache[p] EXCEPT !.revoked = cloudSync.listed[p].revoked]
                            ELSE trustCache[p]]

\* The loop runs on to the next record it saves; a save that fails ends the sync.
MergeNext ==
    /\ cloudSync.at = "merge"
    /\ \E p \in {q \in cloudSync.todo : IsSaved(q)},
          quiet \in SUBSET {q \in cloudSync.todo : ~IsSaved(q)} :
         /\ trustCache' = [Refreshed(quiet) EXCEPT ![p] = cloudSync.listed[p]]
         /\ \/ /\ trustFile' = [trustFile EXCEPT ![p] = cloudSync.listed[p]]
               /\ unwritten' = unwritten \ {p}
               /\ cloudSync' = [cloudSync EXCEPT !.todo = @ \ (quiet \union {p})]
               /\ UNCHANGED mergedAs
            \/ /\ unwritten' = unwritten \union {p} /\ cloudSync' = NoSync
               /\ mergedAs' = NoDevices /\ UNCHANGED trustFile
         /\ shared' = shared \ {p}
    /\ UNCHANGED <<listing, storeChanges>>

MergeEnds ==
    /\ cloudSync.at = "merge" /\ \A p \in cloudSync.todo : ~IsSaved(p)
    /\ trustCache' = Refreshed(cloudSync.todo)
    /\ cloudSync' = NoSync /\ shared' = {}
    /\ UNCHANGED <<listing, trustFile, mergedAs, unwritten, storeChanges>>

SyncNext ==
    \/ \E p \in CloudDevices : CloudLists(p) \/ UserChanges(p)
    \/ Restart \/ ListCloudDevices \/ ReadStored \/ CacheStored \/ MergeNext \/ MergeEnds

-----------------------------------------------------------------------------
(* Calls with grants *)

NoCall ==
    [at |-> "idle", from |-> NoRecord, to |-> NoRecord, grant |-> NoRecord, since |-> 0, age |-> 0]

GrantsInit ==
    /\ keyed \in SUBSET Callers
    /\ trusts = [d \in Callers |-> [e \in Callers |-> "none"]]
    /\ leftAt = [d \in Callers |-> NoRecord]
    /\ grantCache = [d \in Callers |-> [e \in Callers |-> NoRecord]]
    /\ cloudCalls = [c \in CloudCalls |-> NoCall]
    /\ grantNow = 0 /\ grantChanges = 0

GrantChange == grantChanges < MaxGrantChanges /\ grantChanges' = grantChanges + 1

GrantTick ==
    /\ grantNow < MaxGrantTime /\ grantNow' = grantNow + 1
    /\ UNCHANGED <<keyed, trusts, leftAt, grantCache, cloudCalls, grantChanges>>

\* A device is revoked at the cloud, which gives it no grants any more.
LeaveAccount(d) ==
    /\ GrantChange /\ leftAt[d] = NoRecord /\ leftAt' = [leftAt EXCEPT ![d] = grantNow]
    /\ UNCHANGED <<keyed, trusts, grantCache, cloudCalls, grantNow>>

\* The record one device has of another changes: a pairing, a removal or a sync.
RecordChanges(d, e) ==
    /\ d # e /\ GrantChange
    /\ \E r \in {"none", "trusted", "revoked"} \ {trusts[d][e]} :
         trusts' = [trusts EXCEPT ![d][e] = r]
    /\ UNCHANGED <<keyed, leftAt, grantCache, cloudCalls, grantNow>>

Continue(c, call) ==
    /\ cloudCalls' = [cloudCalls EXCEPT ![c] = call]
    /\ UNCHANGED <<keyed, trusts, leftAt, grantNow, grantChanges>>

CallEnds(c, how, age) == Continue(c, [NoCall EXCEPT !.at = how, !.age = age])

\* Mutant: a cached grant is used to its end.
FreshToTheEnd(g) == g # NoRecord /\ g.until > grantNow

Fresh(g) == g # NoRecord /\ g.until > grantNow + Margin

\* createConnectionGrantResolver: the cached grant, or the cloud is asked for one.
CallNode(c, d, e) ==
    /\ cloudCalls[c].at = "idle"
    /\ c = CHOOSE b \in CloudCalls : cloudCalls[b].at = "idle"
    /\ LET g == grantCache[d][e]
           call == [NoCall EXCEPT !.from = d, !.to = e]
       IN Continue(c, IF Fresh(g) THEN [call EXCEPT !.at = "open", !.grant = g, !.since = grantNow]
                      ELSE [call EXCEPT !.at = "fetch"])
    /\ UNCHANGED grantCache

Call(c) == cloudCalls[c]

\* The cloud answers: a grant, if both devices are of the account.  Without one the call goes on.
GrantAnswered(c) ==
    /\ Call(c).at = "fetch"
    /\ LET g == [subject |-> Call(c).from, allowed |-> {Call(c).to}, until |-> grantNow + GrantLife]
       IN \/ /\ leftAt[Call(c).from] = NoRecord /\ leftAt[Call(c).to] = NoRecord
             /\ grantCache' = [grantCache EXCEPT ![Call(c).from][Call(c).to] = g]
             /\ Continue(c, [Call(c) EXCEPT !.at = "open", !.grant = g, !.since = grantNow])
          \/ /\ UNCHANGED grantCache
             /\ Continue(c, [Call(c) EXCEPT !.at = "open", !.since = grantNow])

\* Mutant: a grant does not end.
NeverEnds(g, subject, allowed) == g.subject = subject /\ allowed \in g.allowed

\* verifyDeviceConnectionGrant: the cloud issued it for these two and it has not ended.
Verified(g, subject, allowed) ==
    g.subject = subject /\ allowed \in g.allowed /\ g.until > grantNow

\* canOpenProtocol of device d, for a stream from one device to another.
MayOpen(d, from, to, g) ==
    LET record == trusts[d][CHOOSE e \in {from, to} : e # d]
    IN \/ record = "trusted"
       \/ record = "none" /\ g # NoRecord /\ d \in keyed /\ Verified(g, from, to)

OpenStream(c) ==
    /\ Call(c).at = "open"
    /\ LET call == Call(c)
       IN IF MayOpen(call.from, call.from, call.to, call.grant)
          THEN Continue(c, [call EXCEPT !.at = "dial"])
          ELSE CallEnds(c, "denied", 0)
    /\ UNCHANGED grantCache

\* How long two devices have not both been of the account.
OutFor(from, to) ==
    LET left == {leftAt[d] : d \in {from, to}} \ {NoRecord}
    IN IF left = {} THEN 0 ELSE grantNow - CHOOSE t \in left : \A u \in left : t <= u

\* The other device reads the request and its grant.
RequestArrives(c) ==
    /\ Call(c).at = "dial"
    /\ LET call == Call(c)
           record == trusts[call.to][call.from]
       IN IF MayOpen(call.to, call.from, call.to, call.grant)
          THEN CallEnds(c, "served", IF record = "trusted" THEN 0 ELSE OutFor(call.from, call.to))
          ELSE IF call.grant = NoRecord \/ call.to \notin keyed \/ record = "revoked"
          THEN CallEnds(c, "refused", 0)
          ELSE CallEnds(c, "outdated", grantNow - call.since)
    /\ UNCHANGED grantCache

DialFails(c) ==
    /\ Call(c).at = "dial" /\ CallEnds(c, "lost", 0)
    /\ UNCHANGED grantCache

CloudCallSteps(c) == GrantAnswered(c) \/ OpenStream(c) \/ RequestArrives(c) \/ DialFails(c)

GrantsNext ==
    \/ GrantTick
    \/ \E d \in Callers : LeaveAccount(d) \/ \E e \in Callers : RecordChanges(d, e)
    \/ \E c \in CloudCalls :
         CloudCallSteps(c) \/ \E pair \in CallPairs : CallNode(c, pair[1], pair[2])

-----------------------------------------------------------------------------
(* The daemon *)

DaemonInit ==
    /\ identityFile \in [kind : {"none", "incomplete", "unreadable"}, id : {0}]
                         \union [kind : {"valid", "mismatched"}, id : {1}]
    /\ daemon = "ended" /\ network = FALSE /\ relay = "none"
    /\ beats = {} /\ boundIds = {} /\ presence = NoRecord /\ beatCount = 0 /\ runCount = 0

Stage(from, to) == daemon = from /\ daemon' = to

cloudSide == <<beats, boundIds, presence, beatCount>>

\* loadOrCreateDeviceIdentity: a new identity takes the place of an incomplete one; a file that is
\* not JSON ends the program.
LoadIdentity ==
    /\ \/ identityFile.kind \in {"valid", "mismatched"} /\ Stage("start", "loaded")
          /\ UNCHANGED identityFile
       \/ identityFile.kind = "unreadable" /\ Stage("start", "ended") /\ UNCHANGED identityFile
       \/ /\ identityFile.kind \in {"none", "incomplete"}
          /\ \/ Stage("start", "loaded")
                /\ identityFile' = [kind |-> "valid", id |-> identityFile.id + 1]
             \/ Stage("start", "ended")
                /\ identityFile' = [kind |-> "unreadable", id |-> identityFile.id]
    /\ UNCHANGED <<network, relay, cloudSide, runCount>>

\* A rejection that nothing handles ends the program, wherever it comes before the heartbeats.
StartNetwork ==
    /\ \/ Stage("loaded", "bind") /\ network' = TRUE
       \/ Stage("loaded", "ended") /\ UNCHANGED network
    /\ UNCHANGED <<identityFile, relay, cloudSide, runCount>>

\* signDeviceBinding refuses an identity whose parts do not belong together; the cloud registers
\* what is signed, and its answer may be lost.
RegisterDevice ==
    /\ \/ identityFile.kind = "valid" /\ Stage("bind", "reserve")
          /\ boundIds' = boundIds \union {identityFile.id} /\ UNCHANGED network
       \/ /\ Stage("bind", "ended") /\ network' = FALSE
          /\ \/ identityFile.kind = "valid" /\ boundIds' = boundIds \union {identityFile.id}
             \/ UNCHANGED boundIds
    /\ UNCHANGED <<identityFile, relay, beats, presence, beatCount, runCount>>

Beat ==
    [number |-> beatCount + 1, id |-> identityFile.id, addresses |-> network, relay |-> relay']

SendHeartbeat == beats' = beats \union {Beat} /\ beatCount' = beatCount + 1

\* configureRelayReservation, when the cloud gives one; then the first heartbeat.
ConfigureRelay ==
    /\ Stage("reserve", "running") /\ relay' \in {"none", "reserved"}
    /\ SendHeartbeat
    /\ UNCHANGED <<identityFile, network, boundIds, presence, runCount>>

\* A relay takes the node in or lets it go.
RelayChanges ==
    /\ network /\ daemon = "running"
    /\ relay' \in {"reserved", "connected"} \ {relay} /\ relay # "none"
    /\ UNCHANGED <<identityFile, daemon, network, cloudSide, runCount>>

\* The timer, every minute, whether the last heartbeat was answered or not.
Heartbeat ==
    /\ daemon = "running" /\ beatCount < MaxBeats * runCount
    /\ UNCHANGED relay /\ SendHeartbeat
    /\ UNCHANGED <<identityFile, daemon, network, boundIds, presence, runCount>>

HeartbeatLands(b) ==
    /\ beats' = beats \ {b} /\ presence' \in {b, presence}
    /\ UNCHANGED <<identityFile, daemon, network, relay, boundIds, beatCount, runCount>>

\* Mutant: the timer goes on while the network stops.
SignalOnly ==
    /\ daemon = "running" /\ network' = FALSE
    /\ UNCHANGED <<identityFile, daemon, relay, cloudSide, runCount>>

\* The first signal clears the timer and stops the network.
Shutdown ==
    /\ Stage("running", "stopping") /\ network' = FALSE
    /\ UNCHANGED <<identityFile, relay, cloudSide, runCount>>

NetworkStopped ==
    /\ Stage("stopping", "ended")
    /\ UNCHANGED <<identityFile, network, relay, cloudSide, runCount>>

\* A signal before the handlers are there, a crash, or the end of the machine.
Killed ==
    /\ daemon # "ended" /\ daemon' = "ended" /\ network' = FALSE
    /\ UNCHANGED <<identityFile, relay, cloudSide, runCount>>

StartDaemon ==
    /\ runCount < MaxRuns /\ runCount' = runCount + 1
    /\ Stage("ended", "start") /\ relay' = "none"
    /\ UNCHANGED <<identityFile, network, cloudSide>>

DaemonContinues ==
    LoadIdentity \/ StartNetwork \/ RegisterDevice \/ ConfigureRelay \/ NetworkStopped

DaemonNext ==
    \/ DaemonContinues \/ RelayChanges \/ Heartbeat \/ Shutdown \/ Killed \/ StartDaemon
    \/ \E b \in beats : HeartbeatLands(b)

-----------------------------------------------------------------------------
CloudInit == SyncInit /\ GrantsInit /\ DaemonInit

\* The cloud answers, streams open or break, and the network starts and stops.
CloudFairness ==
    /\ \A c \in CloudCalls : WF_grantVars(CloudCallSteps(c))
    /\ WF_daemonVars(DaemonContinues)

(***************************************************************************)
(* After a sync, and until a user or another sync changes it, each device  *)
(* that the cloud listed is cached as listed, revocation included, and     *)
(* written with the key, name and platform it was listed with: also when   *)
(* pairings and removals come during the sync, except for the devices they *)
(* are about (syncCloudDevices).  Of revocations the file may know less.   *)
(***************************************************************************)
SyncIsKept ==
    cloudSync.at = "idle" =>
      \A p \in CloudDevices : mergedAs[p] # NoRecord =>
          /\ trustCache[p] = mergedAs[p]
          /\ trustFile[p] # NoRecord /\ trustFile[p].content = mergedAs[p].content

(***************************************************************************)
(* The cached records, which streams are authorised by, are the written    *)
(* ones but for revocations, unless the last write of a device failed or   *)
(* came between the two halves of a load (CachedCliDeviceTrustStore).      *)
(***************************************************************************)
CacheIsWritten ==
    \A p \in CloudDevices \ unwritten :
        IF trustFile[p] = NoRecord THEN trustCache[p] = NoRecord
        ELSE trustCache[p] # NoRecord /\ trustCache[p].content = trustFile[p].content

(***************************************************************************)
(* A device that left the account is served by a grant no longer than      *)
(* grants live, whatever either end has cached                             *)
(* (docs/LIBP2P_NETWORK_PLAN.md, "a revoked device gets no grants").       *)
(***************************************************************************)
RevocationTakesHold ==
    \A c \in CloudCalls : cloudCalls[c].at = "served" => cloudCalls[c].age < GrantLife

(***************************************************************************)
(* A grant that a call was given does not run out on its way: the other    *)
(* device finds it outdated only if the call took longer than the margin   *)
(* a cached grant must have left (createConnectionGrantResolver).          *)
(***************************************************************************)
GrantsOutlastCalls ==
    \A c \in CloudCalls : cloudCalls[c].at = "outdated" => cloudCalls[c].age > Margin

(***************************************************************************)
(* The cloud knows a node by the identity on its file, over all its runs,  *)
(* and is told of it only by a running network: no heartbeat takes the     *)
(* addresses of a node away (loadOrCreateDeviceIdentity, shutdown).        *)
(***************************************************************************)
PresenceIsSound ==
    /\ boundIds # {} => identityFile.kind = "valid" /\ boundIds = {identityFile.id}
    /\ \A b \in beats \union ({presence} \ {NoRecord}) : b.id \in boundIds /\ b.addresses

(***************************************************************************)
(* Every call with a grant ends, and a daemon that starts or stops gets to *)
(* run or ends: neither stays for ever where it waits for the cloud, the   *)
(* other device or the network.                                            *)
(***************************************************************************)
CloudCallsEnd ==
    /\ \A c \in CloudCalls : []<>(cloudCalls[c].at \notin {"fetch", "open", "dial"})
    /\ []<>(daemon \in {"running", "ended"})
=============================================================================
