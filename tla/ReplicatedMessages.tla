-------------------------- MODULE ReplicatedMessages --------------------------
(***************************************************************************)
(* What chat synchronisation promises: each device holds a set of          *)
(* messages that only grows; a message enters the system once, at the      *)
(* device that writes it, and any other device gets it only as a copy of   *)
(* what some device already holds.                                         *)
(***************************************************************************)
CONSTANTS Node, Message, NoNode

VARIABLES have, author

Init ==
  /\ have = [n \in Node |-> {}]
  /\ author = [m \in Message |-> NoNode]

Write(n, m) ==
  /\ author[m] = NoNode
  /\ author' = [author EXCEPT ![m] = n]
  /\ have' = [have EXCEPT ![n] = @ \cup {m}]

Held == UNION {have[k] : k \in Node}

Deliver(n, S) ==
  /\ S \subseteq Held
  /\ have' = [have EXCEPT ![n] = @ \cup S]
  /\ UNCHANGED author

Next ==
  \E n \in Node :
    \/ \E m \in Message : Write(n, m)
    \/ \E S \in SUBSET Message : Deliver(n, S)

Spec == Init /\ [][Next]_<<have, author>>

\* A message some device holds does not stay away from another one forever.
Reach(n, m) ==
  /\ m \notin have[n]
  /\ \E S \in SUBSET Message : m \in S /\ Deliver(n, S)

FairSpec ==
  Spec /\ \A n \in Node, m \in Message : WF_<<have, author>>(Reach(n, m))

\* A device never loses a message, and an author keeps what it wrote.
Provenance ==
  \A n \in Node : \A m \in have[n] :
    author[m] \in Node /\ m \in have[author[m]]

\* Every message that was written reaches every device.
Converges ==
  \A m \in Message :
    (author[m] # NoNode) ~> (\A n \in Node : m \in have[n])

==============================================================================
