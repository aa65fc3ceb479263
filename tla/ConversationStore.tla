-------------------------- MODULE ConversationStore --------------------------
(***************************************************************************)
(* The message store of one device: SQLiteAgentStorage's three tables.     *)
(* `rows` is the messages table, `count` the messageCount column of the    *)
(* conversations table (NoRow where the conversation has no row) and       *)
(* `blobs` the attachments table.  Every better-sqlite3 call is            *)
(* synchronous, so each method of the class is one atomic step.            *)
(*                                                                         *)
(* A message is a model value: its conversation and the hashes of its      *)
(* attachments never change.  Title, preview and timestamp columns are     *)
(* left out, nothing here depends on them.                                 *)
(***************************************************************************)
EXTENDS Integers, FiniteSets

CONSTANTS
  Node,           \* devices, each with a store of its own
  Conv,           \* conversation ids
  Message,        \* message ids
  Hash,           \* content hashes of attachments
  ConvOf,         \* the conversation of a message
  AttachmentsOf   \* the attachment hashes a message refers to

ASSUME StoreAssumption ==
  /\ IsFiniteSet(Message)
  /\ ConvOf \in [Message -> Conv]
  /\ AttachmentsOf \in [Message -> SUBSET Hash]

VARIABLES
  rows,    \* [Node -> SUBSET Message]
  count,   \* [Node -> [Conv -> Nat \cup {NoRow}]]
  blobs    \* [Node -> SUBSET Hash]

NoRow == -1

StoreTypeOK ==
  /\ rows \in [Node -> SUBSET Message]
  /\ count \in [Node -> [Conv -> Nat \cup {NoRow}]]
  /\ blobs \in [Node -> SUBSET Hash]

StoreInit ==
  /\ rows = [n \in Node |-> {}]
  /\ count = [n \in Node |-> [c \in Conv |-> NoRow]]
  /\ blobs = [n \in Node |-> {}]

MessagesOf(S, c) == {m \in S : ConvOf[m] = c}

\* getMessages
GetMessages(n, c) == MessagesOf(rows[n], c)

\* Every conversation row of a store; listConversations returns the part of
\* it its LIMIT admits.
Directory(n) == {c \in Conv : count[n][c] # NoRow}

\* Mutant: conversations without a row are listed.
ListConversationsAll(n, limit) == {Conv}

\* listConversations: the `limit` most recent rows.  Recency is abstracted:
\* any subset of that size may be the most recent one.
ListConversations(n, limit) ==
  IF Cardinality(Directory(n)) <= limit
  THEN {Directory(n)}
  ELSE {D \in SUBSET Directory(n) : Cardinality(D) = limit}

\* appendMessage: one transaction that creates the conversation row with
\* messageCount 1 or adds one to it, and inserts the message.  A duplicate
\* message id makes the INSERT throw and rolls the whole transaction back.
AppendMessage(n, m) ==
  LET c == ConvOf[m] IN
  /\ m \notin rows[n]
  /\ rows' = [rows EXCEPT ![n] = @ \cup {m}]
  /\ count' = [count EXCEPT ![n][c] = IF @ = NoRow THEN 1 ELSE @ + 1]

\* Mutant: UPDATE instead of an upsert.
UpdateConversationMetadata(n, c, k) ==
  count' = [count EXCEPT ![n][c] = IF @ = NoRow THEN NoRow ELSE k]

\* upsertConversationMetadata: every column is overwritten.
UpsertConversationMetadata(n, c, k) ==
  count' = [count EXCEPT ![n][c] = k]

\* The conversations one of whose given messages is new to the store.
Affected(n, ms) == {ConvOf[m] : m \in ms \ rows[n]}

\* Mutant: the given messages replace those of their conversations.
ReplaceMessages(n, ms) ==
  /\ rows' = [rows EXCEPT ![n] =
       {m \in @ : ConvOf[m] \notin Affected(n, ms)} \cup ms]
  /\ UNCHANGED count

\* insertMessagesIfAbsent: INSERT OR IGNORE of each message, then messageCount
\* becomes COUNT(*) for the affected conversations that have a row.
InsertMessagesIfAbsent(n, ms) ==
  LET after == rows[n] \cup ms IN
  /\ rows' = [rows EXCEPT ![n] = after]
  /\ count' = [count EXCEPT ![n] =
       [c \in Conv |-> IF c \in Affected(n, ms) /\ @[c] # NoRow
                       THEN Cardinality(MessagesOf(after, c))
                       ELSE @[c]]]

\* saveAttachment: an upsert by content hash.
SaveAttachment(n, h) == blobs' = [blobs EXCEPT ![n] = @ \cup {h}]

==============================================================================
