------------------------------ MODULE MCChatSync ------------------------------
(* Small instances of ChatSync. *)
EXTENDS ChatSync, TLC

CONSTANTS A, B, C,        \* devices
          ab, ba, bc, ac, \* engines: first letter the device, second the peer
          abc,            \* an engine of A with the two peers B and C
          c1, c2,         \* conversations
          m1, m2, m3,     \* messages
          h1, h2          \* attachment hashes

AllNodeOf == ab :> A @@ ba :> B @@ bc :> B @@ ac :> A @@ abc :> A
AllPeersOf == ab :> <<B>> @@ ba :> <<A>> @@ bc :> <<C>> @@ ac :> <<C>>
              @@ abc :> <<B, C>>
MCNodeOf == [e \in Engine |-> AllNodeOf[e]]
MCPeersOf == [e \in Engine |-> AllPeersOf[e]]

OneConv == [m \in Message |-> c1]
\* Each message has a conversation of its own.
SplitConvs == [m \in Message |-> IF m = m2 THEN c2 ELSE c1]

NoAttachments == [m \in Message |-> {}]
\* m2 repeats the attachment of m1 and has one of its own.
SharedBlob == [m \in Message |-> IF m = m1 THEN {h1} ELSE {h1, h2}]

AnyWriter == [m \in Message |-> Node]
CWrites == [m \in Message |-> {C}]
BWrites == [m \in Message |-> {B}]

\* The runtime writes the same origin id on every device; an engine counts its
\* own changes under its device's peer id.
LocalOrigin == [c \in Conv |-> "local"]
SelfPeerId == [e \in Engine |-> "self"]
EmptyVector == {[o \in Origin |-> 0]}

==============================================================================
