------------------------------- MODULE Gossip -------------------------------
(***************************************************************************)
(* Rumor mongering, anti-entropy and the DSDV next-hop table of a network  *)
(* of gossipers (main.go, gossip.go, dsdv.go, the peer form of gui.go).    *)
(*                                                                         *)
(* A node stands both for a gossiper's name and for its UDP address.  Its  *)
(* goroutines interleave: the packet loop handleGossiper (variable         *)
(* handler says where it is inside a rumor), the client loop handleClient, *)
(* the anti-entropy ticker, and the short-lived goroutines rumorMongering  *)
(* and compareStatusAndSend (variable tasks).  Datagrams may be lost,      *)
(* duplicated and reordered.                                               *)
(***************************************************************************)
EXTENDS Integers, Sequences, FiniteSets

CONSTANTS
  Node,         \* gossipers
  None,         \* the empty string or nil of the code
  Text,         \* rumor texts (a route rumor is one with an empty text)
  PeerFlag,     \* PeerFlag[n]: the -peers flag of n
  Gui,          \* nodes started with -gui, whose web page can add peers
  DataRaces,    \* may unsynchronised accesses of two goroutines overlap?
  MaxID,        \* bound: MaxID[n] rumors are published by n
  MaxNet,       \* bound: datagrams in flight; beyond it an older one is lost
  MaxTasks      \* bound: goroutines of a node; a spawn beyond it waits

ASSUME NoneAssumption == None \notin Node
ASSUME PeerAssumption == \A n \in Node : PeerFlag[n] \subseteq Node \ {n}
ASSUME GuiAssumption == Gui \subseteq Node
ASSUME RacesAssumption == DataRaces \in BOOLEAN
ASSUME BoundAssumption == /\ MaxID \in [Node -> Nat]
                          /\ MaxNet \in Nat /\ MaxTasks \in Nat

VARIABLES
  alive,    \* alive[n]: the process of n has not panicked
  peers,    \* peers[n]: addresses in peer_list, each with its recv_channel
  want,     \* want[n][o]: NextID of o in status.Want, 0 when o is not listed
  msgs,     \* msgs[n][o]: nodeName_msgs[o]
  hop,      \* hop[n][o]: nextHopTable[o], via None when there is no entry
  handler,  \* handler[n]: where handleGossiper is inside a rumor
  tasks,    \* tasks[n]: goroutines of n that have not returned
  net       \* datagrams on their way

vars == <<alive, peers, want, msgs, hop, handler, tasks, net>>

-----------------------------------------------------------------------------
(* Data. *)

Rumor  == [origin : Node, id : Nat, text : Text]
Vector == [Node -> Nat]                        \* a StatusPacket
Route  == [via : Node \cup {None}, seq : Nat]  \* a NextHopPair

RumorPacket  == [kind : {"rumor"}, src : Node, dst : Node, rumor : Rumor]
StatusPacket == [kind : {"status"}, src : Node, dst : Node, want : Vector]

Idle    == [pc : {"idle"}]
Growing == [pc : {"grow"}, src : Node, rumor : Rumor, own : Nat]
Storing == [pc : {"store"}, src : Node, rumor : Rumor]

Monger  == {m \in [task : {"monger"}, sender : Node \cup {None}, peer : Node,
                   rumor : Rumor] : m.sender # m.peer}
Waiting == [task : {"wait"}, peer : Node, rumor : Rumor]
Compare == [task : {"compare"}, peer : Node, seen : Vector, rumor : Rumor \cup {None}]

(* State of the right shape; a rumor is not passed back to its sender.     *)
TypeOK ==
  /\ alive \in [Node -> BOOLEAN]
  /\ peers \in [Node -> SUBSET Node]
  /\ want \in [Node -> Vector]
  /\ msgs \in [Node -> [Node -> Seq(Text)]]
  /\ hop \in [Node -> [Node -> Route]]
  /\ handler \in [Node -> Idle \cup Growing \cup Storing]
  /\ tasks \in [Node -> SUBSET (Monger \cup Waiting \cup Compare)]
  /\ net \subseteq RumorPacket \cup StatusPacket

Init ==
  /\ alive = [n \in Node |-> TRUE]
  /\ peers = [n \in Node |-> PeerFlag[n]]
  /\ want = [n \in Node |-> [o \in Node |-> IF o = n THEN 1 ELSE 0]]
  /\ msgs = [n \in Node |-> [o \in Node |-> <<>>]]
  /\ hop = [n \in Node |-> [o \in Node |-> [via |-> None, seq |-> 0]]]
  /\ handler = [n \in Node |-> [pc |-> "idle"]]
  /\ tasks = [n \in Node |-> {}]
  /\ net = {}

-----------------------------------------------------------------------------
(* The UDP network: a datagram may be lost when it is sent, or while it is *)
(* in flight when the bound MaxNet is reached, and may be received again.  *)

Send(packets) ==
  \E kept \in SUBSET packets :
    LET excess == Cardinality(net \cup kept) - MaxNet
    IN \E lost \in SUBSET (net \ kept) :
         /\ Cardinality(lost) = IF excess > 0 THEN excess ELSE 0
         /\ net' = (net \ lost) \cup kept

Receive(p) == \E gone \in SUBSET {p} : net' = net \ gone

RumorTo(n, q, r) == [kind |-> "rumor", src |-> n, dst |-> q, rumor |-> r]
StatusTo(n, q) == [kind |-> "status", src |-> n, dst |-> q, want |-> want[n]]

-----------------------------------------------------------------------------
(* Goroutines. *)

(* Goroutine t of n returns and starts those in new. *)
Replace(n, t, new) ==
  /\ Cardinality((tasks[n] \ {t}) \cup new) <= MaxTasks
  /\ tasks' = [tasks EXCEPT ![n] = (@ \ {t}) \cup new]

Spawn(n, new) ==
  /\ Cardinality(tasks[n] \cup new) <= MaxTasks
  /\ tasks' = [tasks EXCEPT ![n] = @ \cup new]

(* randomPeer(excluded) followed by "go rumorMongering". *)
MongerTasks(n, sender, r) ==
  {[task |-> "monger", sender |-> sender, peer |-> q, rumor |-> r] :
     q \in peers[n] \ {sender}}

(* "if continueSending() && peer_list.Len() != 1": heads or tails. *)
CoinFlips(n, sender, r) ==
  {{}} \cup (IF Cardinality(peers[n]) # 1
             THEN {{t} : t \in MongerTasks(n, sender, r)} ELSE {})

-----------------------------------------------------------------------------
(* The client loop handleClient, case "RUMOR": a chat message or a route   *)
(* rumor of the routeRumor ticker becomes the next rumor of n.             *)
PublishRumor(n, text) ==
  /\ alive[n]
  /\ Len(msgs[n][n]) < MaxID[n]
  /\ msgs' = [msgs EXCEPT ![n][n] = Append(@, text)]
  /\ want' = [want EXCEPT ![n][n] = @ + 1]
  /\ LET r == [origin |-> n, id |-> want[n][n], text |-> text]
     IN IF peers[n] = {} THEN UNCHANGED tasks
        ELSE \E t \in MongerTasks(n, None, r) : Spawn(n, {t})
  /\ UNCHANGED <<alive, peers, hop, handler, net>>

(* nodeHandler, POST /node/: the web page adds a peer. *)
AddPeer(n, q) ==
  /\ alive[n] /\ n \in Gui
  /\ q \notin peers[n] \cup {n}
  /\ peers' = [peers EXCEPT ![n] = @ \cup {q}]
  /\ UNCHANGED <<alive, want, msgs, hop, handler, tasks, net>>

(* One tick of antiEntropy: the vector clock goes to a random peer. *)
AntiEntropy(n, q) ==
  /\ alive[n] /\ q \in peers[n]
  /\ Send({StatusTo(n, q)})
  /\ UNCHANGED <<alive, peers, want, msgs, hop, handler, tasks>>

-----------------------------------------------------------------------------
(* The packet loop handleGossiper. *)

(* "append new peer": the sender of any packet becomes a peer. *)
LearnPeer(n, p) == peers' = [peers EXCEPT ![n] = @ \cup ({p.src} \ {n})]

(* Mutant: the existence check is missing. *)
UpdateStatusAlways(w, o) == [w EXCEPT ![o] = 1]

(* updateStatus: a new origin is listed with NextID 1. *)
UpdateStatus(w, o) == IF w[o] = 0 THEN [w EXCEPT ![o] = 1] ELSE w

(* Mutant: an origin heard from directly gets no entry. *)
UpdateNextHopRelayedOnly(n, o, relay, id) ==
  LET route == hop[n][o]
  IN IF o # n /\ relay # o /\ (route.via = None \/ (route.seq < id /\ route.via # relay))
     THEN [hop EXCEPT ![n][o] = [via |-> relay, seq |-> id]]
     ELSE hop

(* updateNextHop: the first route to o, or a newer rumor by another relay. *)
UpdateNextHop(n, o, relay, id) ==
  LET route == hop[n][o]
  IN IF o # n /\ (route.via = None \/ (route.seq < id /\ route.via # relay))
     THEN [hop EXCEPT ![n][o] = [via |-> relay, seq |-> id]]
     ELSE hop

(* Mutant: any newer rumor is accepted, a gap is not noticed. *)
CountRumorWithGaps(n, w, relay, r) ==
  LET listed == UpdateStatus(w, r.origin)
  IN IF listed[r.origin] <= r.id
     THEN /\ want' = [want EXCEPT ![n] = [listed EXCEPT ![r.origin] = @ + 1]]
          /\ hop' = UpdateNextHop(n, r.origin, relay, r.id)
          /\ handler' = [handler EXCEPT
                           ![n] = [pc |-> "store", src |-> relay, rumor |-> r]]
     ELSE /\ want' = [want EXCEPT ![n] = listed]
          /\ handler' = [handler EXCEPT ![n] = [pc |-> "idle"]]
          /\ UNCHANGED hop

(* Mutant: NextID follows the last rumor received. *)
CountRumorOverwrites(n, w, relay, r) ==
  LET listed == UpdateStatus(w, r.origin)
  IN IF listed[r.origin] = r.id
     THEN /\ want' = [want EXCEPT ![n] = [listed EXCEPT ![r.origin] = @ + 1]]
          /\ hop' = UpdateNextHop(n, r.origin, relay, r.id)
          /\ handler' = [handler EXCEPT
                           ![n] = [pc |-> "store", src |-> relay, rumor |-> r]]
     ELSE /\ want' = [want EXCEPT ![n] = [listed EXCEPT ![r.origin] = r.id + 1]]
          /\ handler' = [handler EXCEPT ![n] = [pc |-> "idle"]]
          /\ UNCHANGED hop

(* Mutant: the route is taken before the rumor is known to be new. *)
CountRumorRoutesFirst(n, w, relay, r) ==
  LET listed == UpdateStatus(w, r.origin)
  IN /\ hop' = IF r.origin = n THEN hop
               ELSE [hop EXCEPT ![n][r.origin] = [via |-> relay, seq |-> r.id]]
     /\ IF listed[r.origin] = r.id
        THEN /\ want' = [want EXCEPT ![n] = [listed EXCEPT ![r.origin] = @ + 1]]
             /\ handler' = [handler EXCEPT
                              ![n] = [pc |-> "store", src |-> relay, rumor |-> r]]
        ELSE /\ want' = [want EXCEPT ![n] = listed]
             /\ handler' = [handler EXCEPT ![n] = [pc |-> "idle"]]

(* The rest of the rumor branch once Want of n is w: a rumor in order gets *)
(* its route and its count; storing its text is the handler's next step.   *)
CountRumor(n, w, relay, r) ==
  LET listed == UpdateStatus(w, r.origin)
  IN IF listed[r.origin] = r.id
     THEN /\ want' = [want EXCEPT ![n] = [listed EXCEPT ![r.origin] = @ + 1]]
          /\ hop' = UpdateNextHop(n, r.origin, relay, r.id)
          /\ handler' = [handler EXCEPT
                           ![n] = [pc |-> "store", src |-> relay, rumor |-> r]]
     ELSE /\ want' = [want EXCEPT ![n] = listed]
          /\ handler' = [handler EXCEPT ![n] = [pc |-> "idle"]]
          /\ UNCHANGED hop

(* A rumor arrives.  Listing a new origin copies the old Want (its own     *)
(* entry is what a client may be incrementing) and installs the copy in a  *)
(* later step, AssignWant, when the append reallocates.                    *)
RecvRumor(n, p) ==
  /\ alive[n] /\ handler[n].pc = "idle"
  /\ p.kind = "rumor" /\ p.dst = n
  /\ Receive(p)
  /\ LearnPeer(n, p)
  /\ \/ CountRumor(n, want[n], p.src, p.rumor)
     \/ /\ DataRaces /\ want[n][p.rumor.origin] = 0
        /\ handler' = [handler EXCEPT
                         ![n] = [pc |-> "grow", src |-> p.src, rumor |-> p.rumor,
                                 own |-> want[n][n]]]
        /\ UNCHANGED <<want, hop>>
  /\ UNCHANGED <<alive, msgs, tasks>>

(* The reallocated Want replaces the old one, own entry included. *)
AssignWant(n) ==
  /\ alive[n] /\ handler[n].pc = "grow"
  /\ LET h == handler[n]
     IN CountRumor(n, [want[n] EXCEPT ![n] = h.own], h.src, h.rumor)
  /\ UNCHANGED <<alive, peers, msgs, tasks, net>>

(* The text is appended after the count, and the rumor is passed on. *)
StoreRumor(n) ==
  /\ alive[n] /\ handler[n].pc = "store"
  /\ LET h == handler[n]
     IN /\ msgs' = [msgs EXCEPT ![n][h.rumor.origin] = Append(@, h.rumor.text)]
        /\ IF Cardinality(peers[n]) # 1
           THEN \E t \in MongerTasks(n, h.src, h.rumor) : Spawn(n, {t})
           ELSE UNCHANGED tasks
  /\ handler' = [handler EXCEPT ![n] = [pc |-> "idle"]]
  /\ UNCHANGED <<alive, peers, want, hop, net>>

(* nodeName_msgs is a plain map: the runtime ends the process when it sees *)
(* a write of handler or client overlap another access.                    *)
MapRace(n) ==
  /\ alive[n] /\ DataRaces
  /\ LET storing    == handler[n].pc = "store"
         publishing == Len(msgs[n][n]) < MaxID[n]
         comparing  == \E t \in tasks[n] : t.task = "compare"
     IN \/ storing /\ (publishing \/ comparing)
        \/ publishing /\ comparing
  /\ alive' = [alive EXCEPT ![n] = FALSE]
  /\ UNCHANGED <<peers, want, msgs, hop, handler, tasks, net>>

(* A status goes through recv_channels[sender] to whoever reads it: the    *)
(* antiEntropyReceiver of the sender, or a rumorMongering that waits for   *)
(* the sender's answer.                                                    *)
RecvStatus(n, p) ==
  /\ alive[n] /\ handler[n].pc = "idle"
  /\ p.kind = "status" /\ p.dst = n
  /\ Receive(p)
  /\ LearnPeer(n, p)
  /\ \/ Spawn(n, {[task |-> "compare", peer |-> p.src, seen |-> p.want,
                   rumor |-> None]})
     \/ \E t \in tasks[n] :
          /\ t.task = "wait" /\ t.peer = p.src
          /\ Replace(n, t, {[task |-> "compare", peer |-> p.src, seen |-> p.want,
                             rumor |-> t.rumor]})
  /\ UNCHANGED <<alive, want, msgs, hop, handler>>

-----------------------------------------------------------------------------
(* rumorMongering *)

(* The rumor goes to the peer, the own status to whoever sent the rumor. *)
StartMonger(n, t) ==
  /\ alive[n] /\ t \in tasks[n] /\ t.task = "monger"
  /\ Send({RumorTo(n, t.peer, t.rumor)} \cup
          (IF t.sender = None THEN {} ELSE {StatusTo(n, t.sender)}))
  /\ Replace(n, t, {[task |-> "wait", peer |-> t.peer, rumor |-> t.rumor]})
  /\ UNCHANGED <<alive, peers, want, msgs, hop, handler>>

(* No answer within a second: on heads another peer gets the rumor. *)
MongerTimeout(n, t) ==
  /\ alive[n] /\ t \in tasks[n] /\ t.task = "wait"
  /\ \E new \in CoinFlips(n, t.peer, t.rumor) : Replace(n, t, new)
  /\ UNCHANGED <<alive, peers, want, msgs, hop, handler, net>>

-----------------------------------------------------------------------------
(* compareStatusAndSend *)

(* Mutant: origins the peer does not list are passed over. *)
StatusDifferenceListedOnly(theirs, mine) ==
  {o \in Node : theirs[o] > 0 /\ theirs[o] < mine[o]}

(* statusDifference(theirs, mine): the origins of which theirs lacks a     *)
(* rumor counted in mine, and the first rumor it lacks.                    *)
StatusDifference(theirs, mine) ==
  {o \in Node : \/ theirs[o] = 0 /\ mine[o] > 1
                \/ theirs[o] > 0 /\ theirs[o] < mine[o]}

(* diff[0]: Want lists the own name first, the others in the order in      *)
(* which they became known, which may be any.                              *)
FirstListed(n, diff) == IF n \in diff THEN {n} ELSE diff

FirstLacking(theirs, o) == IF theirs[o] = 0 THEN 1 ELSE theirs[o]

(* The peer lacks a rumor: send it the first one it lacks.  The lookup     *)
(* nodeName_msgs[o][id-1] panics when the rumor is counted but not stored. *)
SendMissing(n, t) ==
  /\ alive[n] /\ t \in tasks[n] /\ t.task = "compare"
  /\ \E o \in FirstListed(n, StatusDifference(t.seen, want[n])) :
       LET id == FirstLacking(t.seen, o)
       IN IF id <= Len(msgs[n][o])
          THEN /\ Send({RumorTo(n, t.peer, [origin |-> o, id |-> id,
                                            text |-> msgs[n][o][id]])})
               /\ UNCHANGED alive
          ELSE /\ alive' = [alive EXCEPT ![n] = FALSE]
               /\ UNCHANGED net
  /\ Replace(n, t, {})
  /\ UNCHANGED <<peers, want, msgs, hop, handler>>

(* The peer lacks nothing: ask for what this node lacks, if anything; a    *)
(* rumorMongering that got its answer may go on with another peer.         *)
AskOrStop(n, t) ==
  /\ alive[n] /\ t \in tasks[n] /\ t.task = "compare"
  /\ StatusDifference(t.seen, want[n]) = {}
  /\ IF StatusDifference(want[n], t.seen) # {}
     THEN Send({StatusTo(n, t.peer)}) ELSE UNCHANGED net
  /\ \E new \in (IF t.rumor = None THEN {{}} ELSE CoinFlips(n, t.peer, t.rumor)) :
       Replace(n, t, new)
  /\ UNCHANGED <<alive, peers, want, msgs, hop, handler>>

-----------------------------------------------------------------------------
Next ==
  \E n \in Node :
    \/ \E text \in Text : PublishRumor(n, text)
    \/ \E q \in Node : AddPeer(n, q) \/ AntiEntropy(n, q)
    \/ \E p \in net : RecvRumor(n, p) \/ RecvStatus(n, p)
    \/ AssignWant(n)
    \/ StoreRumor(n)
    \/ MapRace(n)
    \/ \E t \in tasks[n] : \/ StartMonger(n, t)
                           \/ MongerTimeout(n, t)
                           \/ SendMissing(n, t)
                           \/ AskOrStop(n, t)

Spec == Init /\ [][Next]_vars

-----------------------------------------------------------------------------
(* What gossip promises. *)

RL == INSTANCE RumorLog WITH log <- msgs

(* Every step publishes at the owner of a log, or extends a copy of it by  *)
(* the next entry, whatever is lost, repeated or reordered (main.go,       *)
(* rumor branch and case "RUMOR"; gossip.go, compareStatusAndSend).        *)
RefinesRumorLog == RL!Spec

(* All nodes that hold the i-th rumor of an origin hold the same text.     *)
Agreement == RL!PrefixOfOwner

Stored(n, o) ==
  Len(msgs[n][o]) +
  (IF handler[n].pc = "store" /\ handler[n].rumor.origin = o THEN 1 ELSE 0)

(* The vector clock announces what nodeName_msgs holds, but for the rumor  *)
(* that handleGossiper has counted and not yet stored; no rumor is skipped *)
(* or stored twice.                                                        *)
CountMatchesLog ==
  \A n, o \in Node :
    want[n][o] = IF want[n][o] = 0 THEN Stored(n, o) ELSE Stored(n, o) + 1

(* A vector clock never goes back: the NextID of an origin is never reused *)
(* for another rumor, and a peer is never told to resend.                  *)
NextIDNeverDrops ==
  [][\A n, o \in Node : want'[n][o] >= want[n][o]]_want

(* The next hop to an origin has accepted every rumor of it that this node *)
(* has: routes point to where the news came from (dsdv.go).                *)
RelayIsAhead ==
  \A n, o \in Node :
    LET relay == hop[n][o].via
    IN relay \notin {None, o} => want[relay][o] >= want[n][o]

(* No set of nodes forwards a private message, a request or a reply to a   *)
(* destination among its members only: from any set of nodes, some node    *)
(* has its next hop outside the set.                                       *)
NoRoutingLoop ==
  \A o \in Node : \A S \in SUBSET Node :
    S # {} => \E n \in S : hop[n][o].via \notin S

(* A relay a message is forwarded to has itself a route to the destination,*)
(* so it never dereferences a missing entry of nextHopTable.               *)
RelaysHaveRoutes ==
  \A n, o \in Node :
    LET relay == hop[n][o].via
    IN relay \notin {None, o} => hop[relay][o].via # None

(* Why routes are sound: whoever passes a rumor on, other than its origin, *)
(* has counted it, and a node has a route exactly to the origins of which  *)
(* it has counted a rumor.                                                 *)
Holds(n, r) == n # r.origin => want[n][r.origin] > r.id

RumorsHeld ==
  /\ \A p \in net : p.kind = "rumor" => Holds(p.src, p.rumor)
  /\ \A n \in Node :
       /\ \A t \in tasks[n] : (t.task = "compare" /\ t.rumor = None) \/ Holds(n, t.rumor)
       /\ handler[n].pc # "idle" => Holds(handler[n].src, handler[n].rumor)
       /\ handler[n].pc = "store" => Holds(n, handler[n].rumor)

RoutesKnown ==
  \A n, o \in Node :
    /\ n = o => hop[n][o].via = None
    /\ n # o => (hop[n][o].via = None <=> want[n][o] <= 1)
    /\ hop[n][o].via # None => hop[n][o].seq < want[n][o]

RouteInv == RumorsHeld /\ RoutesKnown /\ RelayIsAhead /\ NoRoutingLoop

(* Why copies agree, when no data race interferes: every rumor under way   *)
(* is in its owner's log, and the one being stored is the next of its log. *)
Genuine(r) ==
  /\ r.id \in 1 .. Len(msgs[r.origin][r.origin])
  /\ r.text = msgs[r.origin][r.origin][r.id]

RumorsGenuine ==
  /\ \A p \in net : p.kind = "rumor" => Genuine(p.rumor)
  /\ \A n \in Node : \A t \in tasks[n] :
       (t.task = "compare" /\ t.rumor = None) \/ Genuine(t.rumor)
  /\ \A n \in Node : handler[n].pc # "idle" => Genuine(handler[n].rumor)

StoresNext ==
  \A n \in Node :
    /\ handler[n].pc # "grow"
    /\ want[n][n] # 0
    /\ handler[n].pc = "store" =>
         LET r == handler[n].rumor
         IN r.origin # n /\ r.id = Len(msgs[n][r.origin]) + 1

LogInv == Agreement /\ CountMatchesLog /\ RumorsGenuine /\ StoresNext

-----------------------------------------------------------------------------
(* Fairness.  Goroutines are scheduled; the ticker of antiEntropy reaches  *)
(* every peer again and again; a datagram with news for the receiver that  *)
(* is sent again and again leaves, and arrives, in the end.                *)

GoroutineEnds(n) ==
  \E t \in tasks[n] :
    /\ MongerTimeout(n, t) \/ SendMissing(n, t) \/ AskOrStop(n, t)
    /\ Cardinality(tasks'[n]) < Cardinality(tasks[n])

StatusLeaves(n, q) == AntiEntropy(n, q) /\ StatusTo(n, q) \in net'

StatusArrives(n, q) ==
  \E p \in net : RecvStatus(n, p) /\ p.src = q /\ p.want = want[q]

RumorLeaves(n, q) ==
  \E t \in tasks[n] :
    /\ t.peer = q /\ SendMissing(n, t)
    /\ \E p \in net' : /\ p.kind = "rumor" /\ p.src = n /\ p.dst = q
                       /\ p.rumor.id >= want[q][p.rumor.origin]

RumorArrives(n) == \E p \in net : RecvRumor(n, p) /\ want' # want

Fairness ==
  \A n \in Node :
    /\ WF_vars(StoreRumor(n))
    /\ WF_vars(\E t \in tasks[n] : StartMonger(n, t))
    /\ WF_vars(GoroutineEnds(n))
    /\ SF_vars(RumorArrives(n))
    /\ \A q \in Node \ {n} :
         /\ WF_vars(StatusLeaves(n, q))
         /\ SF_vars(StatusArrives(n, q))
         /\ SF_vars(RumorLeaves(n, q))

FairSpec == Spec /\ Fairness

(* Anti-entropy brings every rumor to every node, even if every datagram   *)
(* of rumor mongering is lost, unless a gossiper panics (README.md names   *)
(* the networks this is checked for).                                      *)
Converges ==
  \A n, o \in Node :
    (\A m \in Node : alive[m]) /\ Len(msgs[n][o]) < Len(msgs[o][o])
      ~> \/ \E m \in Node : ~alive[m]
         \/ \A m \in Node : msgs[m][o] = msgs[o][o]
=============================================================================
