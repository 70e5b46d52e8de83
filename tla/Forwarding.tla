----------------------------- MODULE Forwarding -----------------------------
(***************************************************************************)
(* Private messages, data requests and replies under way to one node, Dest *)
(* (main.go), along next-hop tables that the rumors of Dest are changing   *)
(* meanwhile (dsdv.go).  How rumors get from node to node is left out: a   *)
(* node takes them in order, from any peer that has them (Gossip).  A      *)
(* packet is handled later than it is sent, so every table it meets may be *)
(* newer than the one that sent it there.  trail records its way.          *)
(***************************************************************************)
EXTENDS Integers, Sequences

CONSTANTS
  Node, Dest, None,
  Peer,      \* Peer[n]: nodes whose rumors reach n
  Packet,
  HopLimit,  \* of a new packet (10 in gui.go and client/main.go)
  MaxNews    \* bound: rumors of Dest

ASSUME DestAssumption == Dest \in Node /\ None \notin Node
ASSUME PeerAssumption == Peer \in [Node -> SUBSET Node]
ASSUME LimitAssumption == HopLimit \in Nat \ {0} /\ MaxNews \in Nat

VARIABLES
  heard,  \* heard[n]: rumors of Dest that n has counted
  hop,    \* hop[n]: nextHopTable[Dest] of n
  fate,   \* fate[p]: what has become of p
  trail   \* trail[p]: for each node that p came to, the node, the HopLimit p
          \* had and the rumors the node had counted

vars == <<heard, hop, fate, trail>>

-----------------------------------------------------------------------------
Route == [via : Node \cup {None}, seq : 0 .. MaxNews]
Stop  == [at : Node, limit : 1 .. HopLimit, heard : 0 .. MaxNews]

TypeOK ==
  /\ heard \in [Node -> 0 .. MaxNews]
  /\ hop \in [Node -> Route]
  /\ fate \in [Packet -> {"new", "moving", "arrived", "expired", "stranded"}]
  /\ trail \in [Packet -> Seq(Stop)]

Init ==
  /\ heard = [n \in Node |-> 0]
  /\ hop = [n \in Node |-> [via |-> None, seq |-> 0]]
  /\ fate = [p \in Packet |-> "new"]
  /\ trail = [p \in Packet |-> <<>>]

(* updateNextHop                                                           *)
UpdateNextHop(n, relay, id) ==
  IF n # Dest /\ (hop[n].via = None \/ (hop[n].seq < id /\ hop[n].via # relay))
  THEN [hop EXCEPT ![n] = [via |-> relay, seq |-> id]]
  ELSE hop

(* A chat message or a route rumor of Dest.                                *)
Announce ==
  /\ heard[Dest] < MaxNews
  /\ heard' = [heard EXCEPT ![Dest] = @ + 1]
  /\ UNCHANGED <<hop, fate, trail>>

(* Mutant: an old rumor changes the route too. *)
RouteAfterAny(n, relay, id) == UpdateNextHop(n, relay, id)

(* "in-order new gossip message"                                           *)
RouteAfter(n, relay, id) ==
  IF id = heard[n] + 1 THEN UpdateNextHop(n, relay, id) ELSE hop

(* n handles a rumor of Dest that relay has; one out of order is no news.  *)
Rumor(n, relay, id) ==
  /\ n # Dest /\ relay \in Peer[n] /\ id \in 1 .. heard[relay]
  /\ hop' = RouteAfter(n, relay, id)
  /\ heard' = [heard EXCEPT ![n] = IF id = @ + 1 THEN id ELSE @]
  /\ UNCHANGED <<fate, trail>>

(* Mutant: any peer will do. *)
ViaPeer(n) == CHOOSE q \in Peer[n] : TRUE

(* nextHopTable[destination].NextHop                                       *)
Via(n) == hop[n].via

Stopping(n, limit) == [at |-> n, limit |-> limit, heard |-> heard[n]]

(* handleClient: a private message goes to the next hop, if there is one.  *)
Send(p, n) ==
  /\ fate[p] = "new" /\ n # Dest /\ hop[n].via # None
  /\ fate' = [fate EXCEPT ![p] = "moving"]
  /\ trail' = [trail EXCEPT ![p] = <<Stopping(n, HopLimit), Stopping(Via(n), HopLimit)>>]
  /\ UNCHANGED <<heard, hop>>

(* Mutant: the last hop is not for use. *)
MayForwardLess(limit) == limit > 2

(* "if msg.Private.HopLimit > 1"                                           *)
MayForward(limit) == limit > 1

(* handleGossiper: a packet at its destination is delivered, another one   *)
(* goes to the next hop with one hop less.                                 *)
Forward(p) ==
  LET stop == trail[p][Len(trail[p])]
      n    == stop.at
  IN /\ fate[p] = "moving"
     /\ \/ /\ n = Dest
           /\ fate' = [fate EXCEPT ![p] = "arrived"]
           /\ UNCHANGED trail
        \/ /\ n # Dest /\ hop[n].via = None
           /\ fate' = [fate EXCEPT ![p] = "stranded"]
           /\ UNCHANGED trail
        \/ /\ n # Dest /\ hop[n].via # None /\ ~MayForward(stop.limit)
           /\ fate' = [fate EXCEPT ![p] = "expired"]
           /\ UNCHANGED trail
        \/ /\ n # Dest /\ hop[n].via # None /\ MayForward(stop.limit)
           /\ trail' = [trail EXCEPT ![p] = Append(@, Stopping(Via(n), stop.limit - 1))]
           /\ UNCHANGED fate
     /\ UNCHANGED <<heard, hop>>

Next == \/ Announce
        \/ \E n, relay \in Node, id \in 1 .. MaxNews : Rumor(n, relay, id)
        \/ \E p \in Packet : Forward(p) \/ \E n \in Node : Send(p, n)

Spec == Init /\ [][Next]_vars

(* The packet loop of every node runs for ever, and packets are not lost.  *)
FairSpec == Spec /\ \A p \in Packet : WF_vars(Forward(p))

-----------------------------------------------------------------------------
(* Properties. *)

(* A packet is never at a node that cannot send it on: whoever is named as *)
(* a next hop has a route itself (main.go:220, 233, 243; dsdv.go:25).      *)
NeverStranded == \A p \in Packet : fate[p] # "stranded"

(* A packet comes back to a node only when the node has counted a newer    *)
(* rumor of the destination in between: tables that change while it is     *)
(* under way cannot send it round for nothing (dsdv.go:27).                *)
RevisitNeedsNews ==
  \A p \in Packet : \A i, j \in DOMAIN trail[p] :
    i < j /\ trail[p][i].at = trail[p][j].at => trail[p][i].heard < trail[p][j].heard

CameBack(p) ==
  \E i, j \in DOMAIN trail[p] :
    i < j /\ trail[p][i].at = trail[p][j].at /\ trail[p][i].heard < trail[p][j].heard

(* With a hop for every other node, every packet arrives, however the      *)
(* tables change meanwhile; or it runs out of hops because it came back    *)
(* somewhere under news (main.go:214-246).                                 *)
Arrives ==
  \A p \in Packet :
    fate[p] # "new" ~> fate[p] = "arrived" \/ (fate[p] = "expired" /\ CameBack(p))

-----------------------------------------------------------------------------
(* Why: a route leads to a node that has counted as much, and among nodes  *)
(* that have counted the same, routes run in no circle.                    *)
RoutesKnown ==
  \A n \in Node : /\ n = Dest => hop[n].via = None
                  /\ n # Dest => (hop[n].via # None <=> heard[n] > 0)
                  /\ hop[n].seq <= heard[n]
RelayIsAhead == \A n \in Node : hop[n].via # None => heard[n] <= heard[hop[n].via]
NoLoop == \A S \in SUBSET Node : S # {} => \E n \in S : hop[n].via \notin S
RoutesInv == RoutesKnown /\ RelayIsAhead /\ NoLoop

(* From U, routes stay in U for as long as nobody counts beyond h.         *)
Closed(U, h) ==
  \A n \in U : heard[n] >= h /\ (heard[n] = h /\ n # Dest => hop[n].via \in U)

(* The last node of a trail sees ahead of it only nodes that are new to    *)
(* the trail or have counted a rumor since.                                *)
AheadOf(t) ==
  LET h == t[Len(t)].heard
  IN /\ t # <<>> /\ h > 0
     /\ \A i \in DOMAIN t : t[i].heard <= h /\ t[i].heard <= heard[t[i].at]
     /\ \E U \in SUBSET Node :
          /\ Closed(U, h) /\ t[Len(t)].at \in U
          /\ \A i \in 1 .. Len(t) - 1 :
               t[i].heard = h /\ heard[t[i].at] = h => t[i].at \notin U
TrailInv == \A p \in Packet : fate[p] = "moving" => AheadOf(trail[p])
=============================================================================
