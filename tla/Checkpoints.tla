---------------------------- MODULE Checkpoints ----------------------------
(***************************************************************************)
(* Checkpoints of conversations: what a turn saves after its tools, in the *)
(* store that keeps one file per conversation, and the store in memory     *)
(* that shows what is meant.  A file is truncated when it is opened and    *)
(* written afterwards; a name keeps "_" for characters a file must not     *)
(* have, so that two conversations may share one.  A record is the number  *)
(* of messages it holds.                                                   *)
(***************************************************************************)
EXTENDS Naturals, FiniteSets

CONSTANTS
    Chats,         \* conversations
    FileOf,        \* conversation -> its file (checkpointPath)
    Saves,         \* saves, each made once
    MaxMessages,   \* bound: messages of a conversation
    MaxCrashes,    \* bound: ends of the process
    NoFile, Torn

ASSUME FilesAssumption == NoFile # Torn /\ {NoFile, Torn} \intersect [chat : Chats, count : Nat] = {}

VARIABLES
    logged,        \* conversation -> messages in the store of conversations
    checkpointFiles,   \* file -> NoFile, Torn or [chat, count]
    inMemory,      \* conversation -> NoFile or [chat, count], of the store in memory
    save,          \* save -> [stage, chat, count]
    crashes,
    spoiled        \* ghost: files with a crash, a failure, an overlap or a shared name

checkpointVars == <<logged, checkpointFiles, inMemory, save, crashes, spoiled>>

Shared(v) == \E o \in Chats \ {v} : FileOf[o] = FileOf[v]

CheckpointsInit ==
    /\ logged = [v \in Chats |-> 0]
    /\ checkpointFiles = [f \in {FileOf[v] : v \in Chats} |-> NoFile]
    /\ inMemory = [v \in Chats |-> NoFile]
    /\ save = [s \in Saves |-> [stage |-> "idle", chat |-> NoFile, count |-> 0]]
    /\ crashes = 0
    /\ spoiled = {FileOf[v] : v \in {u \in Chats : Shared(u)}}

-----------------------------------------------------------------------------

MessageStored(v) ==
    /\ logged[v] < MaxMessages /\ logged' = [logged EXCEPT ![v] = @ + 1]
    /\ UNCHANGED <<checkpointFiles, inMemory, save, crashes, spoiled>>

UnderWay(v) == {s \in Saves : save[s].stage \in {"read", "open"} /\ FileOf[save[s].chat] = FileOf[v]}

\* runAgentToolLoopTurn reads the messages once the tools of a turn have answered.
ReadMessages(s, v) ==
    /\ save[s].stage = "idle"
    /\ save' = [save EXCEPT ![s] = [stage |-> "read", chat |-> v, count |-> logged[v]]]
    /\ spoiled' = IF UnderWay(v) # {} THEN spoiled \union {FileOf[v]} ELSE spoiled
    /\ UNCHANGED <<logged, checkpointFiles, inMemory, crashes>>

Record(s) == [chat |-> save[s].chat, count |-> save[s].count]

\* fs.writeFile opens the file and truncates it.
OpenFile(s) ==
    /\ save[s].stage = "read"
    /\ save' = [save EXCEPT ![s].stage = "open"]
    /\ checkpointFiles' = [checkpointFiles EXCEPT ![FileOf[save[s].chat]] = Torn]
    /\ UNCHANGED <<logged, inMemory, crashes, spoiled>>

\* Mutant: the record holds what was logged by the time it is written.
WriteLater(s) ==
    /\ save[s].stage = "open"
    /\ save' = [save EXCEPT ![s].stage = "done"]
    /\ checkpointFiles' = [checkpointFiles EXCEPT ![FileOf[save[s].chat]] =
                  [chat |-> save[s].chat, count |-> save[s].count + 1]]
    /\ inMemory' = [inMemory EXCEPT ![save[s].chat] = Record(s)]
    /\ UNCHANGED <<logged, crashes, spoiled>>

\* Over a longer text that another save has written meanwhile its end remains.
WriteRecord(s) ==
    LET file == FileOf[save[s].chat]
        old  == checkpointFiles[file]
    IN  /\ save[s].stage = "open"
        /\ save' = [save EXCEPT ![s].stage = "done"]
        /\ \/ checkpointFiles' = [checkpointFiles EXCEPT ![file] = Record(s)]
           \/ /\ old \notin {NoFile, Torn}
              /\ old.chat # save[s].chat \/ old.count > save[s].count
              /\ checkpointFiles' = [checkpointFiles EXCEPT ![file] = Torn]
        /\ inMemory' = [inMemory EXCEPT ![save[s].chat] = Record(s)]
        /\ UNCHANGED <<logged, crashes, spoiled>>

\* The turn logs a save that fails and goes on.
SaveGoesWrong(s) ==
    /\ save[s].stage \in {"read", "open"}
    /\ save' = [save EXCEPT ![s].stage = "done"]
    /\ spoiled' = IF save[s].stage = "open" THEN spoiled \union {FileOf[save[s].chat]} ELSE spoiled
    /\ UNCHANGED <<logged, checkpointFiles, inMemory, crashes>>

Crash ==
    /\ crashes < MaxCrashes /\ crashes' = crashes + 1
    /\ save' = [s \in Saves |-> IF save[s].stage = "idle" THEN save[s]
                                                          ELSE [save[s] EXCEPT !.stage = "done"]]
    /\ spoiled' = spoiled \union {FileOf[save[s].chat] : s \in {t \in Saves : save[t].stage = "open"}}
    /\ UNCHANGED <<logged, checkpointFiles, inMemory>>

DeleteCheckpoint(v) ==
    /\ checkpointFiles' = [checkpointFiles EXCEPT ![FileOf[v]] = NoFile]
    /\ inMemory' = [inMemory EXCEPT ![v] = NoFile]
    /\ spoiled' = IF UnderWay(v) # {} THEN spoiled \union {FileOf[v]} ELSE spoiled
    /\ UNCHANGED <<logged, save, crashes>>

\* loadCheckpoint: a text that does not parse is no checkpoint; whose it is is not looked at.
LoadCheckpoint(v) == IF checkpointFiles[FileOf[v]] = Torn THEN NoFile ELSE checkpointFiles[FileOf[v]]

\* listCheckpoints passes over what does not parse.
ListCheckpoints == {checkpointFiles[f] : f \in DOMAIN checkpointFiles} \ {NoFile, Torn}

CheckpointsNext ==
    \/ \E v \in Chats : MessageStored(v) \/ DeleteCheckpoint(v)
    \/ \E s \in Saves :
         \/ \E v \in Chats : ReadMessages(s, v)
         \/ OpenFile(s) \/ WriteRecord(s) \/ SaveGoesWrong(s)
    \/ Crash

-----------------------------------------------------------------------------
(***************************************************************************)
(* A checkpoint is a beginning of a conversation, and of the one that is   *)
(* asked for unless two share a name; without a crash, a failure or two    *)
(* saves at once the file holds between saves what the store in memory     *)
(* would, so that loading and listing agree with it (FileCheckpointStore,  *)
(* InMemoryCheckpointStore).                                               *)
(***************************************************************************)
CheckpointsAreSound ==
    /\ \A r \in ListCheckpoints : r.count <= logged[r.chat]
    /\ \A v \in Chats :
         /\ LoadCheckpoint(v) # NoFile /\ ~Shared(v) => LoadCheckpoint(v).chat = v
         /\ FileOf[v] \notin spoiled /\ UnderWay(v) = {} => LoadCheckpoint(v) = inMemory[v]
=============================================================================
