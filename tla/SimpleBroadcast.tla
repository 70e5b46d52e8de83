-------------------------- MODULE SimpleBroadcast ---------------------------
(***************************************************************************)
(* Simple mode (main.go, the flag -simple): a client message goes to every *)
(* peer, and every node passes what it receives on to every peer but the   *)
(* sender.  A message carries the name of its origin and no number, so     *)
(* only the origin can tell that it has seen one.  The sender of a packet  *)
(* becomes a peer.  A message is known by its origin; each node sends one. *)
(* Two equal packets that are on their way at once count as one.  None is  *)
(* lost.                                                                   *)
(***************************************************************************)
EXTENDS Integers, FiniteSets

CONSTANTS
  Node,
  PeerFlag,  \* PeerFlag[n]: the -peers flag of n
  Senders    \* nodes whose client sends a message

ConstantsOK == /\ \A n \in Node : PeerFlag[n] \subseteq Node \ {n}
               /\ Senders \subseteq Node

VARIABLES
  peers,  \* peers[n]: peer_list of n
  sent,   \* nodes whose client has sent its message
  shown,  \* shown[n]: origins of the messages that n has printed
  net     \* packets on their way

vars == <<peers, sent, shown, net>>

-----------------------------------------------------------------------------
Message == [src : Node, dst : Node, origin : Node]

TypeOK ==
  /\ peers \in [Node -> SUBSET Node] /\ \A n \in Node : n \notin peers[n]
  /\ sent \subseteq Senders
  /\ shown \in [Node -> SUBSET Node]
  /\ net \subseteq Message

Init ==
  /\ peers = PeerFlag
  /\ sent = {}
  /\ shown = [n \in Node |-> {}]
  /\ net = {}

(* sendToPeers                                                             *)
ToPeers(n, list, sender, origin) ==
  {[src |-> n, dst |-> q, origin |-> origin] : q \in list \ sender}

(* handleClient: without a peer the message is lost.                       *)
ClientMessage(n) ==
  /\ n \in Senders \ sent
  /\ sent' = sent \cup {n}
  /\ net' = net \cup ToPeers(n, peers[n], {}, n)
  /\ UNCHANGED <<peers, shown>>

(* "append new peer" *)
Learn(n, m) == peers[n] \cup {m.src}

(* Mutant: it goes to the sender instead of to the others. *)
PassedOnBack(n, m) ==
  IF m.origin = n THEN {} ELSE ToPeers(n, {m.src}, {}, m.origin)

(* "if receiving packet from itself, stop sending"                         *)
PassedOn(n, m) ==
  IF m.origin = n THEN {} ELSE ToPeers(n, Learn(n, m), {m.src}, m.origin)

Receive(n, m) ==
  /\ m.dst = n
  /\ peers' = [peers EXCEPT ![n] = Learn(n, m)]
  /\ shown' = [shown EXCEPT ![n] = @ \cup {m.origin}]
  /\ net' = (net \ {m}) \cup PassedOn(n, m)
  /\ UNCHANGED sent

Next == \E n \in Node : ClientMessage(n) \/ \E m \in net : Receive(n, m)

Spec == Init /\ [][Next]_vars

-----------------------------------------------------------------------------
(* Properties. *)

(* Every way from n along the peers of the flags leads to these nodes.     *)
Reached(n) ==
  LET grow[k \in 0 .. Cardinality(Node)] ==
        IF k = 0 THEN {n} ELSE grow[k - 1] \cup UNION {PeerFlag[q] : q \in grow[k - 1]}
  IN grow[Cardinality(Node)]

(* A message stops being passed on, and has then got to every node that   *)
(* peers lead to (main.go:332-340, 158-176, 470-484).  It does on a tree   *)
(* and where every cycle passes the origin; on another cycle a packet goes *)
(* round for ever, since only its origin knows it.                         *)
EveryoneHears ==
  <>[](net = {} /\ \A n \in sent : \A q \in Reached(n) \ {n} : n \in shown[q])
=============================================================================
