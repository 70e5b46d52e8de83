---------------------------- MODULE GossipProofs ----------------------------
(***************************************************************************)
(* Theorems about module Gossip, for every set of nodes, every network and *)
(* every bound: types and routes, then the logs and clocks, and last the   *)
(* peer table (module PeerTable).                                          *)
(***************************************************************************)
EXTENDS Gossip, SharedState, FiniteSetTheorems, TLAPS

Packet == RumorPacket \cup StatusPacket
Task == Monger \cup Waiting \cup Compare

-----------------------------------------------------------------------------
(* The network and the goroutines. *)

LEMMA SendAdds ==
  ASSUME NEW packets, Send(packets)
  PROVE  net' \subseteq net \cup packets
BY DEF Send

LEMMA ReceiveShrinks ==
  ASSUME NEW p, Receive(p)
  PROVE  net' \subseteq net
BY DEF Receive

LEMMA SpawnAdds ==
  ASSUME TypeOK, NEW n \in Node, NEW new \in SUBSET Task, Spawn(n, new)
  PROVE  /\ tasks' \in [Node -> SUBSET Task]
         /\ tasks'[n] \subseteq tasks[n] \cup new
         /\ \A m \in Node \ {n} : tasks'[m] = tasks[m]
BY DEF Spawn, TypeOK, Task

LEMMA ReplaceAdds ==
  ASSUME TypeOK, NEW n \in Node, NEW t, NEW new \in SUBSET Task, Replace(n, t, new)
  PROVE  /\ tasks' \in [Node -> SUBSET Task]
         /\ tasks'[n] \subseteq tasks[n] \cup new
         /\ \A m \in Node \ {n} : tasks'[m] = tasks[m]
BY DEF Replace, TypeOK, Task

LEMMA SpawnFrom ==
  ASSUME TypeOK, NEW n \in Node, NEW new, Spawn(n, new)
  PROVE  \A m \in Node : \A u \in tasks'[m] : u \in tasks[m] \/ (m = n /\ u \in new)
<1>1. tasks' = [tasks EXCEPT ![n] = @ \cup new]
  BY DEF Spawn
<1>2. tasks \in [Node -> SUBSET Task]
  BY DEF TypeOK, Task
<1> QED
  BY <1>1, <1>2

LEMMA ReplaceFrom ==
  ASSUME TypeOK, NEW n \in Node, NEW t, NEW new, Replace(n, t, new)
  PROVE  \A m \in Node : \A u \in tasks'[m] : u \in tasks[m] \/ (m = n /\ u \in new)
<1>1. tasks' = [tasks EXCEPT ![n] = (@ \ {t}) \cup new]
  BY DEF Replace
<1>2. tasks \in [Node -> SUBSET Task]
  BY DEF TypeOK, Task
<1> QED
  BY <1>1, <1>2

LEMMA CompareType ==
  ASSUME TypeOK, NEW n \in Node, NEW t \in tasks[n], t.task = "compare"
  PROVE  t.peer \in Node /\ t.seen \in Vector /\ t.rumor \in Rumor \cup {None}
BY DEF TypeOK, Monger, Waiting, Compare

(* Whoever passes r on from sender does it by mongering with a peer. *)
LEMMA MongerTasksType ==
  ASSUME TypeOK, NEW n \in Node, NEW sender \in Node \cup {None}, NEW r \in Rumor
  PROVE  /\ MongerTasks(n, sender, r) \subseteq Monger
         /\ \A t \in MongerTasks(n, sender, r) : t.task = "monger" /\ t.rumor = r
BY DEF MongerTasks, Monger, TypeOK

LEMMA CoinFlipsType ==
  ASSUME TypeOK, NEW n \in Node, NEW sender \in Node \cup {None}, NEW r \in Rumor,
         NEW new \in CoinFlips(n, sender, r)
  PROVE  /\ new \subseteq Monger
         /\ \A t \in new : t.task = "monger" /\ t.rumor = r
BY MongerTasksType DEF CoinFlips

LEMMA CountRumorType ==
  ASSUME TypeOK, NEW n \in Node, NEW w \in Vector, NEW relay \in Node, NEW r \in Rumor,
         CountRumor(n, w, relay, r)
  PROVE  /\ want' \in [Node -> Vector]
         /\ hop' \in [Node -> [Node -> Route]]
         /\ handler' \in [Node -> Idle \cup Growing \cup Storing]
<1> DEFINE listed == UpdateStatus(w, r.origin)
<1>1. r.origin \in Node /\ r.id \in Nat
  BY DEF Rumor
<1>2. listed \in Vector
  BY <1>1 DEF UpdateStatus, Vector
<1>3. UpdateNextHop(n, r.origin, relay, r.id) \in [Node -> [Node -> Route]]
  BY <1>1 DEF UpdateNextHop, TypeOK, Route
<1>4. CASE listed[r.origin] = r.id
  <2>1. want' \in [Node -> Vector]
    <3>1. [listed EXCEPT ![r.origin] = @ + 1] \in Vector
      BY <1>1, <1>2 DEF Vector
    <3>2. want' = [want EXCEPT ![n] = [listed EXCEPT ![r.origin] = @ + 1]]
      BY <1>4 DEF CountRumor
    <3> QED
      BY <3>1, <3>2 DEF TypeOK
  <2>2. [pc |-> "store", src |-> relay, rumor |-> r] \in Storing
    BY DEF Storing
  <2>3. /\ hop' = UpdateNextHop(n, r.origin, relay, r.id)
        /\ handler' = [handler EXCEPT
                         ![n] = [pc |-> "store", src |-> relay, rumor |-> r]]
    BY <1>4 DEF CountRumor
  <2>4. handler' \in [Node -> Idle \cup Growing \cup Storing]
    BY <2>2, <2>3 DEF TypeOK
  <2> QED
    BY <1>3, <2>1, <2>3, <2>4
<1>5. CASE listed[r.origin] # r.id
  <2>1. /\ want' = [want EXCEPT ![n] = listed]
        /\ handler' = [handler EXCEPT ![n] = [pc |-> "idle"]]
        /\ hop' = hop
    BY <1>5 DEF CountRumor
  <2>2. [pc |-> "idle"] \in Idle
    BY DEF Idle
  <2> QED
    BY <1>2, <2>1, <2>2 DEF TypeOK
<1> QED
  BY <1>4, <1>5

-----------------------------------------------------------------------------
(* Type correctness. *)

LEMMA TypeInit == Init => TypeOK
BY NoneAssumption, PeerAssumption
   DEF Init, TypeOK, Vector, Route, Idle

LEMMA TypeNext == TypeOK /\ [Next]_vars => TypeOK'
<1> SUFFICES ASSUME TypeOK, [Next]_vars
             PROVE  TypeOK'
  OBVIOUS
<1>1. ASSUME NEW n \in Node, NEW text \in Text, PublishRumor(n, text)
      PROVE  TypeOK'
  <2> DEFINE r == [origin |-> n, id |-> want[n][n], text |-> text]
  <2>1. r \in Rumor
    BY DEF Rumor, TypeOK, Vector
  <2>2. tasks' \in [Node -> SUBSET Task]
    <3>1. CASE peers[n] = {}
      BY <1>1, <3>1 DEF PublishRumor, TypeOK, Task
    <3>2. CASE peers[n] # {}
      <4>1. PICK t \in MongerTasks(n, None, r) : Spawn(n, {t})
        BY <1>1, <3>2 DEF PublishRumor
      <4>2. {t} \in SUBSET Task
        BY <2>1, <4>1, MongerTasksType DEF Task
      <4> QED
        BY <4>1, <4>2, SpawnAdds
    <3> QED
      BY <3>1, <3>2
  <2>3. want' \in [Node -> Vector] /\ msgs' \in [Node -> [Node -> Seq(Text)]]
    BY <1>1 DEF PublishRumor, TypeOK, Vector
  <2> QED
    BY <1>1, <2>2, <2>3 DEF PublishRumor, TypeOK, Task
<1>2. ASSUME NEW n \in Node, NEW q \in Node, AddPeer(n, q)
      PROVE  TypeOK'
  BY <1>2 DEF AddPeer, TypeOK
<1>3. ASSUME NEW n \in Node, NEW q \in Node, AntiEntropy(n, q)
      PROVE  TypeOK'
  <2>1. StatusTo(n, q) \in StatusPacket
    BY DEF StatusTo, StatusPacket, TypeOK
  <2>2. net' \subseteq Packet
    BY <1>3, <2>1, SendAdds DEF AntiEntropy, TypeOK, Packet
  <2> QED
    BY <1>3, <2>2 DEF AntiEntropy, TypeOK, Packet
<1>4. ASSUME NEW n \in Node, NEW p \in net, RecvRumor(n, p)
      PROVE  TypeOK'
  <2>1. p \in RumorPacket
    BY <1>4 DEF RecvRumor, TypeOK, RumorPacket, StatusPacket
  <2>2. p.src \in Node /\ p.rumor \in Rumor
    BY <2>1 DEF RumorPacket
  <2>3. net' \subseteq Packet
    BY <1>4, ReceiveShrinks DEF RecvRumor, TypeOK, Packet
  <2>4. peers' \in [Node -> SUBSET Node]
    BY <1>4, <2>2 DEF RecvRumor, LearnPeer, TypeOK
  <2>5. /\ want' \in [Node -> Vector]
        /\ hop' \in [Node -> [Node -> Route]]
        /\ handler' \in [Node -> Idle \cup Growing \cup Storing]
    <3>1. CASE CountRumor(n, want[n], p.src, p.rumor)
      BY <2>2, <3>1, CountRumorType DEF TypeOK
    <3>2. CASE ~CountRumor(n, want[n], p.src, p.rumor)
      <4>1. want' = want /\ hop' = hop
        BY <1>4, <3>2 DEF RecvRumor
      <4>2. handler' = [handler EXCEPT
                          ![n] = [pc |-> "grow", src |-> p.src, rumor |-> p.rumor,
                                  own |-> want[n][n]]]
        BY <1>4, <3>2 DEF RecvRumor
      <4>3. [pc |-> "grow", src |-> p.src, rumor |-> p.rumor, own |-> want[n][n]]
              \in Growing
        BY <2>2 DEF Growing, TypeOK, Vector
      <4> QED
        BY <4>1, <4>2, <4>3 DEF TypeOK
    <3> QED
      BY <3>1, <3>2
  <2> QED
    BY <1>4, <2>3, <2>4, <2>5 DEF RecvRumor, TypeOK, Packet
<1>5. ASSUME NEW n \in Node, NEW p \in net, RecvStatus(n, p)
      PROVE  TypeOK'
  <2>1. p \in StatusPacket
    BY <1>5 DEF RecvStatus, TypeOK, RumorPacket, StatusPacket
  <2>2. p.src \in Node /\ p.want \in Vector
    BY <2>1 DEF StatusPacket
  <2>3. net' \subseteq Packet
    BY <1>5, ReceiveShrinks DEF RecvStatus, TypeOK, Packet
  <2>4. peers' \in [Node -> SUBSET Node]
    BY <1>5, <2>2 DEF RecvStatus, LearnPeer, TypeOK
  <2>5. tasks' \in [Node -> SUBSET Task]
    <3>1. ASSUME NEW r \in Rumor \cup {None}
          PROVE  {[task |-> "compare", peer |-> p.src, seen |-> p.want, rumor |-> r]}
                   \in SUBSET Task
      BY <2>2 DEF Task, Compare
    <3>2. ASSUME NEW t \in tasks[n], t.task = "wait"
          PROVE  t.rumor \in Rumor
      BY <3>2 DEF TypeOK, Monger, Waiting, Compare
    <3> QED
      BY <1>5, <3>1, <3>2, SpawnAdds, ReplaceAdds DEF RecvStatus
  <2> QED
    BY <1>5, <2>3, <2>4, <2>5 DEF RecvStatus, TypeOK, Packet, Task
<1>6. ASSUME NEW n \in Node, AssignWant(n)
      PROVE  TypeOK'
  <2>1. handler[n] \in Growing
    BY <1>6 DEF AssignWant, TypeOK, Idle, Growing, Storing
  <2>2. /\ handler[n].src \in Node /\ handler[n].rumor \in Rumor
        /\ [want[n] EXCEPT ![n] = handler[n].own] \in Vector
    BY <2>1 DEF Growing, TypeOK, Vector
  <2> QED
    BY <1>6, <2>2, CountRumorType DEF AssignWant, TypeOK
<1>7. ASSUME NEW n \in Node, StoreRumor(n)
      PROVE  TypeOK'
  <2> DEFINE h == handler[n]
  <2>1. h \in Storing
    BY <1>7 DEF StoreRumor, TypeOK, Idle, Growing, Storing
  <2>2. h.src \in Node /\ h.rumor \in Rumor /\ h.rumor.origin \in Node /\ h.rumor.text \in Text
    BY <2>1 DEF Storing, Rumor
  <2>3. msgs' \in [Node -> [Node -> Seq(Text)]]
    BY <1>7, <2>2 DEF StoreRumor, TypeOK
  <2>4. tasks' \in [Node -> SUBSET Task]
    <3>1. \A t \in MongerTasks(n, h.src, h.rumor) : {t} \in SUBSET Task
      BY <2>2, MongerTasksType DEF Task
    <3> QED
      BY <1>7, <3>1, SpawnAdds DEF StoreRumor, TypeOK, Task
  <2>5. handler' \in [Node -> Idle \cup Growing \cup Storing]
    BY <1>7 DEF StoreRumor, TypeOK, Idle
  <2> QED
    BY <1>7, <2>3, <2>4, <2>5 DEF StoreRumor, TypeOK, Task
<1>8. ASSUME NEW n \in Node, MapRace(n)
      PROVE  TypeOK'
  BY <1>8 DEF MapRace, TypeOK
<1>9. ASSUME NEW n \in Node, NEW t \in tasks[n], StartMonger(n, t)
      PROVE  TypeOK'
  <2>1. t \in Monger
    BY <1>9 DEF StartMonger, TypeOK, Monger, Waiting, Compare
  <2>2. t.peer \in Node /\ t.rumor \in Rumor /\ t.sender \in Node \cup {None}
    BY <2>1 DEF Monger
  <2>3. RumorTo(n, t.peer, t.rumor) \in Packet
    BY <2>2 DEF RumorTo, RumorPacket, Packet
  <2>4. \A q \in Node : StatusTo(n, q) \in Packet
    BY DEF StatusTo, StatusPacket, TypeOK, Packet
  <2>5. net' \subseteq Packet
    BY <1>9, <2>2, <2>3, <2>4, SendAdds DEF StartMonger, TypeOK, Packet
  <2>6. {[task |-> "wait", peer |-> t.peer, rumor |-> t.rumor]} \in SUBSET Task
    BY <2>2 DEF Task, Waiting
  <2>7. tasks' \in [Node -> SUBSET Task]
    BY <1>9, <2>6, ReplaceAdds DEF StartMonger
  <2> QED
    BY <1>9, <2>5, <2>7 DEF StartMonger, TypeOK, Packet, Task
<1>10. ASSUME NEW n \in Node, NEW t \in tasks[n], MongerTimeout(n, t)
       PROVE  TypeOK'
  <2>1. t.peer \in Node /\ t.rumor \in Rumor
    BY <1>10 DEF MongerTimeout, TypeOK, Monger, Waiting, Compare
  <2>2. \A new \in CoinFlips(n, t.peer, t.rumor) : new \in SUBSET Task
    BY <2>1, CoinFlipsType DEF Task
  <2>3. tasks' \in [Node -> SUBSET Task]
    BY <1>10, <2>2, ReplaceAdds DEF MongerTimeout
  <2> QED
    BY <1>10, <2>3 DEF MongerTimeout, TypeOK, Task
<1>11. ASSUME NEW n \in Node, NEW t \in tasks[n], SendMissing(n, t)
       PROVE  TypeOK'
  <2>1. t.peer \in Node /\ t.seen \in Vector
    BY <1>11, CompareType DEF SendMissing
  <2>2. PICK o \in FirstListed(n, StatusDifference(t.seen, want[n])) :
          LET id == FirstLacking(t.seen, o)
          IN IF id <= Len(msgs[n][o])
             THEN /\ Send({RumorTo(n, t.peer, [origin |-> o, id |-> id,
                                               text |-> msgs[n][o][id]])})
                  /\ UNCHANGED alive
             ELSE /\ alive' = [alive EXCEPT ![n] = FALSE]
                  /\ UNCHANGED net
    BY <1>11 DEF SendMissing
  <2> DEFINE id == FirstLacking(t.seen, o)
  <2>3. o \in Node
    BY <2>2 DEF FirstListed, StatusDifference
  <2>4. id \in Nat /\ id >= 1
    BY <2>1, <2>3 DEF FirstLacking, Vector
  <2>5. net' \subseteq Packet /\ alive' \in [Node -> BOOLEAN]
    <3>1. CASE id <= Len(msgs[n][o])
      <4>1. msgs[n][o][id] \in Text
        BY <2>3, <2>4, <3>1 DEF TypeOK
      <4>2. RumorTo(n, t.peer, [origin |-> o, id |-> id, text |-> msgs[n][o][id]])
              \in Packet
        BY <2>1, <2>3, <2>4, <4>1 DEF RumorTo, RumorPacket, Rumor, Packet
      <4> QED
        BY <2>2, <3>1, <4>2, SendAdds DEF TypeOK, Packet
    <3>2. CASE ~(id <= Len(msgs[n][o]))
      BY <2>2, <3>2 DEF TypeOK, Packet
    <3> QED
      BY <3>1, <3>2
  <2>6. tasks' \in [Node -> SUBSET Task]
    BY <1>11, ReplaceAdds DEF SendMissing
  <2> QED
    BY <1>11, <2>5, <2>6 DEF SendMissing, TypeOK, Packet, Task
<1>12. ASSUME NEW n \in Node, NEW t \in tasks[n], AskOrStop(n, t)
       PROVE  TypeOK'
  <2>1. t.peer \in Node /\ t.rumor \in Rumor \cup {None}
    BY <1>12, CompareType DEF AskOrStop
  <2>2. \A new \in (IF t.rumor = None THEN {{}} ELSE CoinFlips(n, t.peer, t.rumor)) :
          new \in SUBSET Task
    BY <2>1, CoinFlipsType DEF Task
  <2>3. tasks' \in [Node -> SUBSET Task]
    BY <1>12, <2>2, ReplaceAdds DEF AskOrStop
  <2>4. StatusTo(n, t.peer) \in Packet
    BY <2>1 DEF StatusTo, StatusPacket, TypeOK, Packet
  <2>5. net' \subseteq Packet
    BY <1>12, <2>4, SendAdds DEF AskOrStop, TypeOK, Packet
  <2> QED
    BY <1>12, <2>3, <2>5 DEF AskOrStop, TypeOK, Packet, Task
<1>13. CASE UNCHANGED vars
  BY <1>13 DEF vars, TypeOK
<1> QED
  BY <1>1, <1>2, <1>3, <1>4, <1>5, <1>6, <1>7, <1>8, <1>9, <1>10, <1>11, <1>12, <1>13
     DEF Next

(* The state of every gossiper always has the shape TypeOK: in particular  *)
(* randomPeer(excluded) never returns the gossiper a rumor came from.      *)
THEOREM TypeCorrect == Spec => []TypeOK
BY TypeInit, TypeNext, PTL DEF Spec

-----------------------------------------------------------------------------
(* Routing.  A step either leaves routes alone, or handleGossiper counts a *)
(* rumor whose relay has counted it before (CountRumor).                   *)

LEMMA Entries ==
  ASSUME TypeOK
  PROVE  \A n, o \in Node : /\ want[n][o] \in Nat
                            /\ hop[n][o].via \in Node \cup {None} /\ hop[n][o].seq \in Nat
BY DEF TypeOK, Vector, Route

LEMMA NewEntries ==
  ASSUME want' \in [Node -> Vector]
  PROVE  \A n, o \in Node : want'[n][o] \in Nat
BY DEF Vector

(* What CountRumor does to vector clocks: other nodes keep theirs, and n   *)
(* raises the entry of the origin, others than itself staying put.         *)
LEMMA CountRumorRaises ==
  ASSUME TypeOK, NEW n \in Node, NEW w \in Vector, NEW relay \in Node, NEW r \in Rumor,
         \A x \in Node \ {n} : w[x] = want[n][x],
         CountRumor(n, w, relay, r)
  PROVE  /\ \A m \in Node \ {n} : want'[m] = want[m]
         /\ \A o \in Node \ {n, r.origin} : want'[n][o] = want[n][o]
         /\ \A m, o \in Node : m # o => want'[m][o] >= want[m][o]
         /\ r.origin # n /\ handler'[n].pc = "store" =>
              /\ want'[n][r.origin] = r.id + 1
              /\ want[n][r.origin] <= r.id /\ r.id >= 1
         /\ r.origin # n /\ handler'[n].pc # "store" =>
              /\ hop' = hop
              /\ want'[n][r.origin] = IF want[n][r.origin] = 0 THEN 1 ELSE want[n][r.origin]
<1> DEFINE o == r.origin
<1> DEFINE listed == UpdateStatus(w, o)
<1>1. o \in Node /\ r.id \in Nat
  BY DEF Rumor
<1>2. /\ listed \in Vector
      /\ \A x \in Node \ {o} : listed[x] = w[x]
      /\ listed[o] = IF w[o] = 0 THEN 1 ELSE w[o]
  BY <1>1 DEF UpdateStatus, Vector
<1>3. want \in [Node -> [Node -> Nat]] /\ listed \in [Node -> Nat] /\ w \in [Node -> Nat]
  BY <1>2 DEF TypeOK, Vector
<1>4. CASE listed[o] = r.id
  <2>1. /\ want' = [want EXCEPT ![n] = [listed EXCEPT ![o] = @ + 1]]
        /\ handler' = [handler EXCEPT ![n] = [pc |-> "store", src |-> relay, rumor |-> r]]
    BY <1>4 DEF CountRumor
  <2>2. handler'[n].pc = "store"
    BY <2>1 DEF TypeOK
  <2>3. /\ \A m \in Node \ {n} : want'[m] = want[m]
        /\ want'[n] = [listed EXCEPT ![o] = @ + 1]
    BY <1>3, <2>1
  <2>4. want'[n][o] = r.id + 1 /\ \A x \in Node \ {o} : want'[n][x] = w[x]
    BY <1>1, <1>2, <1>3, <1>4, <2>3
  <2>5. o # n => want[n][o] <= r.id /\ r.id >= 1
    BY <1>1, <1>2, <1>3, <1>4
  <2> QED
    BY <1>1, <1>3, <2>2, <2>3, <2>4, <2>5
<1>5. CASE listed[o] # r.id
  <2>1. /\ want' = [want EXCEPT ![n] = listed]
        /\ handler' = [handler EXCEPT ![n] = [pc |-> "idle"]]
        /\ hop' = hop
    BY <1>5 DEF CountRumor
  <2>2. handler'[n].pc # "store"
    BY <2>1 DEF TypeOK
  <2>3. /\ \A m \in Node \ {n} : want'[m] = want[m]
        /\ want'[n] = listed
    BY <1>3, <2>1
  <2> QED
    BY <1>1, <1>2, <1>3, <2>1, <2>2, <2>3
<1> QED
  BY <1>4, <1>5

(* A step that leaves routes alone, and the entries other nodes have of an *)
(* origin but for listing it, keeps routes sound.                          *)
LEMMA RoutesStay ==
  ASSUME TypeOK, RouteInv, hop' = hop, want' \in [Node -> Vector],
         \A m, o \in Node :
           m # o => want'[m][o] = want[m][o] \/ (want[m][o] = 0 /\ want'[m][o] = 1)
  PROVE  RoutesKnown' /\ RelayIsAhead' /\ NoRoutingLoop'
<1>1. RoutesKnown'
  <2> SUFFICES ASSUME NEW n \in Node, NEW o \in Node
               PROVE  /\ n = o => hop[n][o].via = None
                      /\ n # o => (hop[n][o].via = None <=> want'[n][o] <= 1)
                      /\ hop[n][o].via # None => hop[n][o].seq < want'[n][o]
    BY DEF RoutesKnown
  <2>1. want[n][o] \in Nat /\ want'[n][o] \in Nat /\ hop[n][o].seq \in Nat
    BY DEF TypeOK, Vector, Route
  <2> QED
    BY <2>1 DEF RouteInv, RoutesKnown
<1>2. RelayIsAhead'
  <2> SUFFICES ASSUME NEW n \in Node, NEW o \in Node, hop[n][o].via \notin {None, o}
               PROVE  want'[hop[n][o].via][o] >= want'[n][o]
    BY DEF RelayIsAhead
  <2>1. n # o /\ hop[n][o].via \in Node
    BY DEF RouteInv, RoutesKnown, TypeOK, Route
  <2>2. want[n][o] > 1
    BY <2>1, Entries DEF RouteInv, RoutesKnown
  <2>3. want'[n][o] = want[n][o] /\ want[hop[n][o].via][o] >= want[n][o]
    BY <2>1, <2>2 DEF RouteInv, RelayIsAhead
  <2> QED
    BY <2>1, <2>2, <2>3, Entries
<1>3. NoRoutingLoop'
  BY DEF RouteInv, NoRoutingLoop
<1> QED
  BY <1>1, <1>2, <1>3

LEMMA HoldsStays ==
  ASSUME NEW n \in Node, NEW r \in Rumor, TypeOK, Holds(n, r),
         \A o \in Node : n # o => /\ want'[n][o] \in Nat
                                  /\ want'[n][o] >= want[n][o]
  PROVE  Holds(n, r)'
BY DEF Holds, Rumor, TypeOK, Vector

(* The heart of loop freedom.  When n accepts rumor r from relay, every    *)
(* node that has counted r forwards to nodes that have counted r, up to    *)
(* the origin; n is not among them.  A set closed under forwarding that    *)
(* contains n would therefore have contained such a set before the step.   *)
LEMMA RoutesAfterCount ==
  ASSUME TypeOK, RouteInv,
         NEW n \in Node, NEW w \in Vector, NEW relay \in Node, NEW r \in Rumor,
         \A x \in Node \ {n} : w[x] = want[n][x],
         Holds(relay, r), CountRumor(n, w, relay, r)
  PROVE  RoutesKnown' /\ RelayIsAhead' /\ NoRoutingLoop'
<1> DEFINE o == r.origin
<1>1. o \in Node /\ r.id \in Nat
  BY DEF Rumor
<1>2. want' \in [Node -> Vector] /\ hop' \in [Node -> [Node -> Route]]
  BY CountRumorType
<1>a. /\ \A m \in Node \ {n} : want'[m] = want[m]
      /\ \A x \in Node \ {n, o} : want'[n][x] = want[n][x]
      /\ \A m, x \in Node : m # x => want'[m][x] >= want[m][x]
      /\ o # n /\ handler'[n].pc = "store" =>
           /\ want'[n][o] = r.id + 1
           /\ want[n][o] <= r.id /\ r.id >= 1
      /\ o # n /\ handler'[n].pc # "store" =>
           /\ hop' = hop
           /\ want'[n][o] = IF want[n][o] = 0 THEN 1 ELSE want[n][o]
  BY CountRumorRaises
<1>3. CASE o = n
  <2>1. hop' = hop
    BY <1>3 DEF CountRumor, UpdateNextHop
  <2> QED
    BY <1>2, <1>3, <1>a, <2>1, RoutesStay
<1>4. CASE o # n /\ handler'[n].pc # "store"
  BY <1>1, <1>2, <1>4, <1>a, RoutesStay
<1>5. CASE o # n /\ handler'[n].pc = "store"
  <2>1. /\ want[n][o] \in Nat /\ want[n][o] <= r.id /\ r.id >= 1
        /\ want'[n][o] = r.id + 1
        /\ \A m, x \in Node : <<m, x>> # <<n, o>> /\ m # x => want'[m][x] = want[m][x]
    BY <1>1, <1>5, <1>a, Entries
  <2>2. relay # o => want[relay][o] >= r.id + 1 /\ relay # n
    BY <1>1, <2>1, Entries DEF Holds
  <2>3. hop' = UpdateNextHop(n, o, relay, r.id)
    BY <1>5 DEF CountRumor, TypeOK
  <2>4. /\ hop'[n][o].via = relay /\ hop'[n][o].seq <= r.id
        /\ \A m, x \in Node : <<m, x>> # <<n, o>> => hop'[m][x] = hop[m][x]
    <3>1. hop[n][o].via # None => hop[n][o].seq < r.id
      BY <1>1, <2>1, Entries DEF RouteInv, RoutesKnown
    <3>2. CASE hop[n][o].via = None \/ (hop[n][o].seq < r.id /\ hop[n][o].via # relay)
      <4>1. hop' = [hop EXCEPT ![n][o] = [via |-> relay, seq |-> r.id]]
        BY <1>5, <2>3, <3>2 DEF UpdateNextHop
      <4> QED
        BY <1>1, <4>1 DEF TypeOK
    <3>3. CASE hop[n][o].via = relay /\ hop[n][o].via # None
      <4>1. hop' = hop
        BY <2>3, <3>3 DEF UpdateNextHop
      <4> QED
        BY <1>1, <3>1, <3>3, <4>1 DEF TypeOK, Route
    <3> QED
      BY <3>1, <3>2, <3>3
  <2>5. RoutesKnown'
    <3> SUFFICES ASSUME NEW m \in Node, NEW x \in Node
                 PROVE  /\ m = x => hop'[m][x].via = None
                        /\ m # x => (hop'[m][x].via = None <=> want'[m][x] <= 1)
                        /\ hop'[m][x].via # None => hop'[m][x].seq < want'[m][x]
      BY DEF RoutesKnown
    <3>1. CASE m = n /\ x = o
      BY <1>1, <1>2, <1>5, <2>1, <2>4, <3>1, NoneAssumption DEF Route
    <3>2. CASE ~(m = n /\ x = o)
      BY <2>1, <2>4, <3>2 DEF RouteInv, RoutesKnown
    <3> QED
      BY <3>1, <3>2
  <2>6. RelayIsAhead'
    <3> SUFFICES ASSUME NEW m \in Node, NEW x \in Node, hop'[m][x].via \notin {None, x}
                 PROVE  want'[hop'[m][x].via][x] >= want'[m][x]
      BY DEF RelayIsAhead
    <3> DEFINE via == hop'[m][x].via
    <3>1. m # x /\ via \in Node
      BY <1>2, <2>5 DEF RoutesKnown, Route
    <3>2. CASE m = n /\ x = o
      BY <2>1, <2>2, <2>4, <3>2
    <3>3. CASE ~(m = n /\ x = o)
      <4>1. want[via][x] >= want[m][x] /\ want'[m][x] = want[m][x]
        BY <2>1, <2>4, <3>1, <3>3 DEF RouteInv, RelayIsAhead
      <4>2. want'[via][x] >= want[via][x]
        BY <3>1, <3>3, <4>1, <1>a, <2>1
      <4> QED
        BY <3>1, <4>1, <4>2, <1>2, Entries, NewEntries
    <3> QED
      BY <3>2, <3>3
  <2>7. NoRoutingLoop'
    <3> SUFFICES ASSUME NEW x \in Node, NEW S \in SUBSET Node, S # {},
                        \A m \in S : hop'[m][x].via \in S
                 PROVE  FALSE
      BY DEF NoRoutingLoop
    <3>1. CASE x # o \/ n \notin S
      <4>1. \A m \in S : hop'[m][x] = hop[m][x]
        BY <2>4, <3>1
      <4> QED
        BY <4>1 DEF RouteInv, NoRoutingLoop
    <3>2. CASE x = o /\ n \in S
      <4>1. o \notin S
        BY <1>1, <2>5, <3>2, NoneAssumption DEF RoutesKnown
      <4> DEFINE T == {m \in S : want[m][o] >= r.id + 1}
      <4>2. relay \in T /\ n \notin T
        BY <1>1, <2>1, <2>2, <2>4, <3>2, <4>1
      <4>3. PICK m \in T : hop[m][o].via \notin T
        BY <1>1, <4>2 DEF RouteInv, NoRoutingLoop
      <4>4. m # n /\ hop'[m][o] = hop[m][o] /\ hop[m][o].via \in S
        BY <1>1, <2>4, <3>2, <4>2, <4>3
      <4>5. hop[m][o].via \notin {None, o}
        BY <4>1, <4>4, NoneAssumption
      <4>6. want[hop[m][o].via][o] >= want[m][o] /\ want[m][o] >= r.id + 1
        BY <1>1, <4>3, <4>5 DEF RouteInv, RelayIsAhead
      <4> QED
        BY <1>1, <4>3, <4>4, <4>6, Entries
    <3> QED
      BY <3>1, <3>2
  <2> QED
    BY <2>5, <2>6, <2>7
<1> QED
  BY <1>3, <1>4, <1>5

(* Rumors under way stay held when vector clocks grow and every new        *)
(* datagram, goroutine and handler state is about a held rumor.            *)
LEMMA RumorsHeldStays ==
  ASSUME TypeOK, TypeOK', RumorsHeld,
         \A m, o \in Node : m # o => want'[m][o] >= want[m][o],
         \A p \in net' : p \in net \/ (p.kind = "rumor" => Holds(p.src, p.rumor)'),
         \A n \in Node : \A t \in tasks'[n] :
           t \in tasks[n] \/ (t.task = "compare" /\ t.rumor = None) \/ Holds(n, t.rumor)',
         \A n \in Node :
           \/ handler'[n] = handler[n]
           \/ /\ handler'[n].pc # "idle" => Holds(handler[n].src, handler[n].rumor)'
              /\ handler'[n].pc = "store" => Holds(n, handler[n].rumor)'
  PROVE  RumorsHeld'
<1>0. want' \in [Node -> Vector]
  BY DEF TypeOK
<1>1. \A n \in Node, r \in Rumor : Holds(n, r) => Holds(n, r)'
  BY <1>0, HoldsStays, NewEntries
<1>2. ASSUME NEW p \in net', p.kind = "rumor"
      PROVE  Holds(p.src, p.rumor)'
  <2>1. CASE p \in net
    <3>1. p.src \in Node /\ p.rumor \in Rumor
      BY <1>2, <2>1 DEF TypeOK, RumorPacket, StatusPacket
    <3> QED
      BY <1>1, <1>2, <2>1, <3>1 DEF RumorsHeld
  <2> QED
    BY <1>2, <2>1
<1>3. ASSUME NEW n \in Node, NEW t \in tasks'[n]
      PROVE  (t.task = "compare" /\ t.rumor = None) \/ Holds(n, t.rumor)'
  <2>1. CASE t \in tasks[n]
    <3>1. (t.task = "compare" /\ t.rumor = None) \/ t.rumor \in Rumor
      BY <2>1 DEF TypeOK, Monger, Waiting, Compare
    <3> QED
      BY <1>1, <2>1, <3>1 DEF RumorsHeld
  <2> QED
    BY <1>3, <2>1
<1>4. ASSUME NEW n \in Node
      PROVE  /\ handler'[n].pc # "idle" => Holds(handler[n].src, handler[n].rumor)'
             /\ handler'[n].pc = "store" => Holds(n, handler[n].rumor)'
  <2>1. CASE handler'[n] = handler[n]
    <3>1. handler[n].pc # "idle" => handler[n].src \in Node /\ handler[n].rumor \in Rumor
      BY DEF TypeOK, Idle, Growing, Storing
    <3>2. /\ handler'[n].pc # "idle" =>
               Holds(handler[n].src, handler[n].rumor)
          /\ handler'[n].pc = "store" => Holds(n, handler[n].rumor)
      BY <2>1 DEF RumorsHeld
    <3> QED
      BY <1>1, <2>1, <3>1, <3>2 DEF Holds
  <2> QED
    BY <1>4, <2>1
<1> QED
  BY <1>2, <1>3, <1>4 DEF RumorsHeld

(* The two facts above for a step of the packet loop that counts a rumor.  *)
LEMMA RouteCount ==
  ASSUME TypeOK, TypeOK', RouteInv,
         NEW n \in Node, NEW w \in Vector, NEW relay \in Node, NEW r \in Rumor,
         \A x \in Node \ {n} : w[x] = want[n][x],
         Holds(relay, r), CountRumor(n, w, relay, r),
         net' \subseteq net, tasks' = tasks
  PROVE  RouteInv'
<1>1. /\ \A m, x \in Node : m # x => want'[m][x] >= want[m][x]
      /\ r.origin # n /\ handler'[n].pc = "store" => want'[n][r.origin] = r.id + 1
  BY CountRumorRaises
<1>2. want' \in [Node -> Vector]
  BY DEF TypeOK
<1>3. Holds(relay, r)'
  BY <1>1, <1>2, HoldsStays, NewEntries
<1>4. handler'[n].pc = "store" => Holds(n, r)'
  BY <1>1 DEF Holds, Rumor
<1>5. \/ handler' = [handler EXCEPT ![n] = [pc |-> "store", src |-> relay, rumor |-> r]]
      \/ handler' = [handler EXCEPT ![n] = [pc |-> "idle"]]
  BY DEF CountRumor
<1>6. /\ \A m \in Node \ {n} : handler'[m] = handler[m]
      /\ handler'[n].pc # "idle" => handler'[n].src = relay /\ handler'[n].rumor = r
      /\ handler'[n].pc = "store" => handler'[n].rumor = r
  BY <1>5 DEF TypeOK
<1>7. ASSUME NEW m \in Node
      PROVE  \/ handler'[m] = handler[m]
             \/ /\ handler'[m].pc # "idle" => Holds(handler[m].src, handler[m].rumor)'
                /\ handler'[m].pc = "store" => Holds(m, handler[m].rumor)'
  BY <1>3, <1>4, <1>6 DEF Holds
<1>8. RumorsHeld'
  BY <1>1, <1>7, RumorsHeldStays DEF RouteInv
<1> QED
  BY <1>8, RoutesAfterCount DEF RouteInv

(* The same for a step that counts nothing. *)
LEMMA RouteQuiet ==
  ASSUME TypeOK, TypeOK', RouteInv,
         hop' = hop, \A m, o \in Node : m # o => want'[m][o] = want[m][o],
         \A p \in net' : p \in net \/ (p.kind = "rumor" => Holds(p.src, p.rumor)'),
         \A n \in Node : \A t \in tasks'[n] :
           t \in tasks[n] \/ (t.task = "compare" /\ t.rumor = None) \/ Holds(n, t.rumor)',
         \A n \in Node :
           \/ handler'[n] = handler[n]
           \/ /\ handler'[n].pc # "idle" => Holds(handler[n].src, handler[n].rumor)'
              /\ handler'[n].pc = "store" => Holds(n, handler[n].rumor)'
  PROVE  RouteInv'
<1>1. want' \in [Node -> Vector]
  BY DEF TypeOK
<1>2. \A m, o \in Node : m # o => want'[m][o] >= want[m][o]
  BY Entries
<1>3. RumorsHeld'
  BY <1>2, RumorsHeldStays DEF RouteInv
<1> QED
  BY <1>1, <1>3, RoutesStay DEF RouteInv

LEMMA RouteInit == Init => RouteInv
<1> SUFFICES ASSUME Init PROVE RouteInv
  OBVIOUS
<1>1. RumorsHeld
  BY DEF Init, RumorsHeld
<1>2. RoutesKnown
  BY DEF Init, RoutesKnown
<1>3. RelayIsAhead
  BY DEF Init, RelayIsAhead
<1>4. NoRoutingLoop
  BY NoneAssumption DEF Init, NoRoutingLoop
<1> QED
  BY <1>1, <1>2, <1>3, <1>4 DEF RouteInv

LEMMA RouteNext == TypeOK /\ TypeOK' /\ RouteInv /\ [Next]_vars => RouteInv'
<1> SUFFICES ASSUME TypeOK, TypeOK', RouteInv, [Next]_vars
             PROVE  RouteInv'
  OBVIOUS
<1>0. ASSUME want' = want, NEW n \in Node, NEW r
      PROVE  Holds(n, r) <=> Holds(n, r)'
  BY <1>0 DEF Holds
<1>1. ASSUME NEW n \in Node, NEW text \in Text, PublishRumor(n, text)
      PROVE  RouteInv'
  <2> DEFINE r == [origin |-> n, id |-> want[n][n], text |-> text]
  <2>1. Holds(n, r)'
    BY DEF Holds
  <2>2. r \in Rumor
    BY Entries DEF Rumor
  <2>3. \A m \in Node : \A t \in tasks'[m] : t \in tasks[m] \/ Holds(m, t.rumor)'
    <3>1. CASE peers[n] = {}
      BY <1>1, <3>1 DEF PublishRumor
    <3>2. CASE peers[n] # {}
      <4>1. PICK t \in MongerTasks(n, None, r) : Spawn(n, {t})
        BY <1>1, <3>2 DEF PublishRumor
      <4>2. t.rumor = r /\ {t} \in SUBSET Task
        BY <2>2, <4>1, MongerTasksType DEF Task
      <4>3. tasks'[n] \subseteq tasks[n] \cup {t} /\ \A m \in Node \ {n} : tasks'[m] = tasks[m]
        BY <4>1, <4>2, SpawnAdds
      <4> QED
        BY <2>1, <4>2, <4>3 DEF Holds
    <3> QED
      BY <3>1, <3>2
  <2>4. \A m, o \in Node : m # o => want'[m][o] = want[m][o]
    BY <1>1 DEF PublishRumor, TypeOK, Vector
  <2> QED
    BY <1>1, <2>3, <2>4, RouteQuiet DEF PublishRumor
<1>2. ASSUME NEW n \in Node, NEW q \in Node, AddPeer(n, q)
      PROVE  RouteInv'
  BY <1>2, RouteQuiet DEF AddPeer
<1>3. ASSUME NEW n \in Node, NEW q \in Node, AntiEntropy(n, q)
      PROVE  RouteInv'
  <2>1. \A p \in net' : p \in net \/ p.kind # "rumor"
    BY <1>3, SendAdds DEF AntiEntropy, StatusTo
  <2> QED
    BY <1>3, <2>1, RouteQuiet DEF AntiEntropy
<1>4. ASSUME NEW n \in Node, NEW p \in net, RecvRumor(n, p)
      PROVE  RouteInv'
  <2>1. p.src \in Node /\ p.rumor \in Rumor /\ p.kind = "rumor"
    BY <1>4 DEF RecvRumor, TypeOK, RumorPacket, StatusPacket
  <2>2. Holds(p.src, p.rumor)
    BY <2>1 DEF RouteInv, RumorsHeld
  <2>3. net' \subseteq net /\ tasks' = tasks
    BY <1>4, ReceiveShrinks DEF RecvRumor
  <2>4. CASE CountRumor(n, want[n], p.src, p.rumor)
    BY <2>1, <2>2, <2>3, <2>4, RouteCount DEF TypeOK
  <2>5. CASE ~CountRumor(n, want[n], p.src, p.rumor)
    <3>1. /\ want' = want /\ hop' = hop
          /\ handler' = [handler EXCEPT
                           ![n] = [pc |-> "grow", src |-> p.src, rumor |-> p.rumor,
                                   own |-> want[n][n]]]
      BY <1>4, <2>5 DEF RecvRumor
    <3>2. /\ \A m \in Node \ {n} : handler'[m] = handler[m]
          /\ handler'[n].pc = "grow" /\ handler'[n].src = p.src
          /\ handler'[n].rumor = p.rumor
      BY <3>1 DEF TypeOK
    <3> QED
      BY <2>2, <2>3, <3>1, <3>2, RouteQuiet DEF Holds
  <2> QED
    BY <2>4, <2>5
<1>5. ASSUME NEW n \in Node, NEW p \in net, RecvStatus(n, p)
      PROVE  RouteInv'
  <2>1. \A m \in Node : \A t \in tasks'[m] :
          t \in tasks[m] \/ (t.task = "compare" /\ t.rumor = None) \/ Holds(m, t.rumor)
    <3>1. \A t \in tasks[n] : t.task = "wait" => Holds(n, t.rumor)
      BY DEF RouteInv, RumorsHeld
    <3> DEFINE cmp(r) == [task |-> "compare", peer |-> p.src, seen |-> p.want, rumor |-> r]
    <3>2. CASE Spawn(n, {cmp(None)})
      <4>1. \A m \in Node : \A t \in tasks'[m] : t \in tasks[m] \/ t = cmp(None)
        BY <3>2, SpawnFrom
      <4> QED
        BY <4>1
    <3>3. ASSUME NEW t \in tasks[n], t.task = "wait", Replace(n, t, {cmp(t.rumor)})
          PROVE  \A m \in Node : \A u \in tasks'[m] : u \in tasks[m] \/ Holds(m, u.rumor)
      <4>1. \A m \in Node : \A u \in tasks'[m] :
              u \in tasks[m] \/ (m = n /\ u = cmp(t.rumor))
        BY <3>3, ReplaceFrom
      <4> QED
        BY <3>1, <3>3, <4>1
    <3> QED
      BY <1>5, <3>2, <3>3 DEF RecvStatus
  <2>2. net' \subseteq net /\ want' = want /\ hop' = hop /\ handler' = handler
    BY <1>5, ReceiveShrinks DEF RecvStatus
  <2> QED
    BY <1>0, <2>1, <2>2, RouteQuiet
<1>6. ASSUME NEW n \in Node, AssignWant(n)
      PROVE  RouteInv'
  <2> DEFINE w == [want[n] EXCEPT ![n] = handler[n].own]
  <2>1. handler[n] \in Growing
    BY <1>6 DEF AssignWant, TypeOK, Idle, Growing, Storing
  <2>2. handler[n].src \in Node /\ handler[n].rumor \in Rumor
    BY <2>1 DEF Growing
  <2>3. w \in Vector /\ \A x \in Node \ {n} : w[x] = want[n][x]
    BY <2>1 DEF Growing, TypeOK, Vector
  <2>4. Holds(handler[n].src, handler[n].rumor)
    BY <1>6 DEF AssignWant, RouteInv, RumorsHeld
  <2>5. CountRumor(n, w, handler[n].src, handler[n].rumor) /\ net' = net /\ tasks' = tasks
    BY <1>6 DEF AssignWant
  <2> HIDE DEF w
  <2> QED
    BY <2>2, <2>3, <2>4, <2>5, RouteCount
<1>7. ASSUME NEW n \in Node, StoreRumor(n)
      PROVE  RouteInv'
  <2> DEFINE h == handler[n]
  <2>1. h \in Storing
    BY <1>7 DEF StoreRumor, TypeOK, Idle, Growing, Storing
  <2>2. h.src \in Node /\ h.rumor \in Rumor /\ Holds(n, h.rumor)
    BY <1>7, <2>1 DEF Storing, StoreRumor, RouteInv, RumorsHeld
  <2>3. \A m \in Node : \A t \in tasks'[m] : t \in tasks[m] \/ (t.rumor = h.rumor /\ m = n)
    <3>1. \A t \in MongerTasks(n, h.src, h.rumor) : t.rumor = h.rumor
      BY <2>2, MongerTasksType
    <3>2. CASE tasks' = tasks
      BY <3>2
    <3>3. ASSUME NEW u \in MongerTasks(n, h.src, h.rumor), Spawn(n, {u})
          PROVE  \A m \in Node : \A t \in tasks'[m] : t \in tasks[m] \/ (t = u /\ m = n)
      BY <3>3, SpawnFrom
    <3> QED
      BY <1>7, <3>1, <3>2, <3>3 DEF StoreRumor
  <2>4. \A m \in Node : handler'[m] = handler[m] \/ handler'[m].pc = "idle"
    BY <1>7 DEF StoreRumor, TypeOK
  <2>5. want' = want /\ hop' = hop /\ net' = net
    BY <1>7 DEF StoreRumor
  <2>6. \A m \in Node : \A t \in tasks'[m] : t \in tasks[m] \/ Holds(m, t.rumor)'
    BY <1>0, <2>2, <2>3, <2>5
  <2> QED
    BY <2>4, <2>5, <2>6, RouteQuiet
<1>8. ASSUME NEW n \in Node, MapRace(n)
      PROVE  RouteInv'
  BY <1>8, RouteQuiet DEF MapRace
<1>9. ASSUME NEW n \in Node, NEW t \in tasks[n], StartMonger(n, t)
      PROVE  RouteInv'
  <2>1. Holds(n, t.rumor)
    BY <1>9 DEF StartMonger, RouteInv, RumorsHeld
  <2>2. \A p \in net' : p \in net \/ (p.kind = "rumor" => p.src = n /\ p.rumor = t.rumor)
    BY <1>9, SendAdds DEF StartMonger, RumorTo, StatusTo
  <2>3. \A m \in Node : \A u \in tasks'[m] : u \in tasks[m] \/ (u.rumor = t.rumor /\ m = n)
    BY <1>9, ReplaceFrom DEF StartMonger
  <2>4. want' = want /\ hop' = hop /\ handler' = handler
    BY <1>9 DEF StartMonger
  <2>5. /\ \A p \in net' : p \in net \/ (p.kind = "rumor" => Holds(p.src, p.rumor)')
        /\ \A m \in Node : \A u \in tasks'[m] : u \in tasks[m] \/ Holds(m, u.rumor)'
    BY <1>0, <2>1, <2>2, <2>3, <2>4
  <2> QED
    BY <2>4, <2>5, RouteQuiet
<1>10. ASSUME NEW n \in Node, NEW t \in tasks[n], MongerTimeout(n, t)
       PROVE  RouteInv'
  <2>1. Holds(n, t.rumor) /\ t.peer \in Node /\ t.rumor \in Rumor
    BY <1>10 DEF MongerTimeout, RouteInv, RumorsHeld, TypeOK, Monger, Waiting, Compare
  <2>2. \A new \in CoinFlips(n, t.peer, t.rumor) : \A u \in new : u.rumor = t.rumor
    BY <2>1, CoinFlipsType
  <2>3. \A m \in Node : \A u \in tasks'[m] : u \in tasks[m] \/ (u.rumor = t.rumor /\ m = n)
    BY <1>10, <2>2, ReplaceFrom DEF MongerTimeout
  <2>4. want' = want /\ hop' = hop /\ handler' = handler /\ net' = net
    BY <1>10 DEF MongerTimeout
  <2>5. \A m \in Node : \A u \in tasks'[m] : u \in tasks[m] \/ Holds(m, u.rumor)'
    BY <1>0, <2>1, <2>3, <2>4
  <2> QED
    BY <2>4, <2>5, RouteQuiet
<1>11. ASSUME NEW n \in Node, NEW t \in tasks[n], SendMissing(n, t)
       PROVE  RouteInv'
  <2>1. t.seen \in Vector
    BY <1>11, CompareType DEF SendMissing
  <2>2. PICK o \in FirstListed(n, StatusDifference(t.seen, want[n])) :
          \/ net' = net
          \/ Send({RumorTo(n, t.peer, [origin |-> o, id |-> FirstLacking(t.seen, o),
                                       text |-> msgs[n][o][FirstLacking(t.seen, o)]])})
    BY <1>11 DEF SendMissing
  <2>3. o \in Node /\ FirstLacking(t.seen, o) < want[n][o]
    BY <2>1, <2>2, Entries DEF FirstListed, StatusDifference, FirstLacking, Vector
  <2>4. \A p \in net' : p \in net \/ (/\ p.src = n /\ p.rumor.origin = o
                                     /\ p.rumor.id = FirstLacking(t.seen, o))
    BY <2>2, SendAdds DEF RumorTo
  <2>5. /\ want' = want /\ hop' = hop /\ handler' = handler
        /\ \A m \in Node : tasks'[m] \subseteq tasks[m]
    BY <1>11, ReplaceFrom DEF SendMissing
  <2>6. \A p \in net' : p \in net \/ Holds(p.src, p.rumor)'
    BY <2>3, <2>4, <2>5, Entries DEF Holds
  <2> QED
    BY <2>5, <2>6, RouteQuiet
<1>12. ASSUME NEW n \in Node, NEW t \in tasks[n], AskOrStop(n, t)
       PROVE  RouteInv'
  <2> DEFINE flips == IF t.rumor = None THEN {{}} ELSE CoinFlips(n, t.peer, t.rumor)
  <2>1. t.rumor # None => Holds(n, t.rumor) /\ t.peer \in Node /\ t.rumor \in Rumor
    BY <1>12 DEF AskOrStop, RouteInv, RumorsHeld, TypeOK, Monger, Waiting, Compare
  <2>2. \A new \in flips : \A u \in new : u.rumor = t.rumor /\ t.rumor # None
    BY <2>1, CoinFlipsType
  <2>3. \A m \in Node : \A u \in tasks'[m] :
          u \in tasks[m] \/ (u.rumor = t.rumor /\ t.rumor # None /\ m = n)
    BY <1>12, <2>2, ReplaceFrom DEF AskOrStop
  <2>4. \A p \in net' : p \in net \/ p.kind # "rumor"
    BY <1>12, SendAdds DEF AskOrStop, StatusTo
  <2>5. want' = want /\ hop' = hop /\ handler' = handler
    BY <1>12 DEF AskOrStop
  <2>6. \A m \in Node : \A u \in tasks'[m] : u \in tasks[m] \/ Holds(m, u.rumor)'
    BY <1>0, <2>1, <2>3, <2>5
  <2> QED
    BY <2>4, <2>5, <2>6, RouteQuiet
<1>13. CASE UNCHANGED vars
  BY <1>13, RouteQuiet DEF vars
<1> QED
  BY <1>1, <1>2, <1>3, <1>4, <1>5, <1>6, <1>7, <1>8, <1>9, <1>10, <1>11, <1>12, <1>13
     DEF Next

(* Routing tables never contain a loop, whatever order, loss, repetition   *)
(* or data race gossip meets (dsdv.go, updateNextHop).                     *)
THEOREM LoopFree == Spec => []NoRoutingLoop
<1>1. Init => TypeOK /\ RouteInv
  BY TypeInit, RouteInit
<1>2. (TypeOK /\ RouteInv) /\ [Next]_vars => (TypeOK /\ RouteInv)'
  BY TypeNext, RouteNext
<1>3. RouteInv => NoRoutingLoop
  BY DEF RouteInv
<1> QED
  BY <1>1, <1>2, <1>3, PTL DEF Spec

(* A relay always has a route of its own to every destination that others  *)
(* reach through it: it never looks up a missing entry of nextHopTable.    *)
THEOREM RelaysRoute == Spec => []RelaysHaveRoutes
<1>1. Init => TypeOK /\ RouteInv
  BY TypeInit, RouteInit
<1>2. (TypeOK /\ RouteInv) /\ [Next]_vars => (TypeOK /\ RouteInv)'
  BY TypeNext, RouteNext
<1>3. TypeOK /\ RouteInv => RelaysHaveRoutes
  <2> SUFFICES ASSUME TypeOK, RouteInv, NEW n \in Node, NEW o \in Node,
                      hop[n][o].via \notin {None, o}
               PROVE  hop[hop[n][o].via][o].via # None
    BY DEF RelaysHaveRoutes
  <2>1. n # o /\ hop[n][o].via \in Node
    BY Entries DEF RouteInv, RoutesKnown
  <2>2. want[n][o] > 1 /\ want[hop[n][o].via][o] >= want[n][o]
    BY <2>1, Entries DEF RouteInv, RoutesKnown, RelayIsAhead
  <2> QED
    BY <2>1, <2>2, Entries DEF RouteInv, RoutesKnown
<1> QED
  BY <1>1, <1>2, <1>3, PTL DEF Spec

(* Whoever n sends to for o has counted at least as many rumors of o as n. *)
THEOREM RelaysAhead == Spec => []RelayIsAhead
<1>1. Init => TypeOK /\ RouteInv
  BY TypeInit, RouteInit
<1>2. (TypeOK /\ RouteInv) /\ [Next]_vars => (TypeOK /\ RouteInv)'
  BY TypeNext, RouteNext
<1>3. RouteInv => RelayIsAhead
  BY DEF RouteInv
<1> QED
  BY <1>1, <1>2, <1>3, PTL DEF Spec

-----------------------------------------------------------------------------
(***************************************************************************)
(* Without data races gossip implements RumorLog: every copy of a rumor    *)
(* log is a prefix of its owner's, whatever the network does.              *)
(***************************************************************************)
LEMMA LogEntries ==
  ASSUME TypeOK
  PROVE  \A n, o \in Node : msgs[n][o] \in Seq(Text) /\ Len(msgs[n][o]) \in Nat
BY DEF TypeOK

(* What a rumor under way is about stays in its owner's log as logs grow. *)
LogsGrow ==
  \A n, o \in Node :
    /\ Len(msgs'[n][o]) >= Len(msgs[n][o])
    /\ \A i \in 1 .. Len(msgs[n][o]) : msgs'[n][o][i] = msgs[n][o][i]

LEMMA LogAppend ==
  ASSUME TypeOK, NEW n \in Node, NEW o \in Node, NEW text \in Text,
         msgs' = [msgs EXCEPT ![n][o] = Append(@, text)]
  PROVE  /\ \A m, x \in Node : ~(m = n /\ x = o) => msgs'[m][x] = msgs[m][x]
         /\ Len(msgs'[n][o]) = Len(msgs[n][o]) + 1
         /\ \A i \in 1 .. Len(msgs[n][o]) : msgs'[n][o][i] = msgs[n][o][i]
         /\ msgs'[n][o][Len(msgs[n][o]) + 1] = text
         /\ LogsGrow
<1>1. /\ \A m, x \in Node : ~(m = n /\ x = o) => msgs'[m][x] = msgs[m][x]
      /\ msgs'[n][o] = Append(msgs[n][o], text)
  BY DEF TypeOK
<1>2. /\ Len(msgs'[n][o]) = Len(msgs[n][o]) + 1
      /\ \A i \in 1 .. Len(msgs[n][o]) : msgs'[n][o][i] = msgs[n][o][i]
      /\ msgs'[n][o][Len(msgs[n][o]) + 1] = text
  BY <1>1, LogEntries
<1>3. LogsGrow
  <2> SUFFICES ASSUME NEW m \in Node, NEW x \in Node
               PROVE  /\ Len(msgs'[m][x]) >= Len(msgs[m][x])
                      /\ \A i \in 1 .. Len(msgs[m][x]) : msgs'[m][x][i] = msgs[m][x][i]
    BY DEF LogsGrow
  <2>1. CASE m = n /\ x = o
    BY <1>2, <2>1, LogEntries
  <2>2. CASE ~(m = n /\ x = o)
    BY <1>1, <2>2, LogEntries
  <2> QED
    BY <2>1, <2>2
<1> QED
  BY <1>1, <1>2, <1>3

LEMMA GenuineStays ==
  ASSUME TypeOK, TypeOK', LogsGrow, NEW r \in Rumor, Genuine(r)
  PROVE  Genuine(r)'
<1>1. r.origin \in Node /\ r.id \in Nat
  BY DEF Rumor
<1> DEFINE old == msgs[r.origin][r.origin]
           new == msgs'[r.origin][r.origin]
<1>2. Len(old) \in Nat /\ Len(new) \in Nat
  BY <1>1 DEF TypeOK
<1>3. Len(new) >= Len(old) /\ \A i \in 1 .. Len(old) : new[i] = old[i]
  BY <1>1 DEF LogsGrow
<1> QED
  BY <1>1, <1>2, <1>3 DEF Genuine

LEMMA RumorsGenuineStays ==
  ASSUME TypeOK, TypeOK', RumorsGenuine, LogsGrow,
         \A p \in net' : p \in net \/ (p.kind = "rumor" => Genuine(p.rumor)'),
         \A n \in Node : \A t \in tasks'[n] :
           t \in tasks[n] \/ (t.task = "compare" /\ t.rumor = None) \/ Genuine(t.rumor)',
         \A n \in Node : handler'[n] = handler[n]
                         \/ (handler'[n].pc # "idle" => Genuine(handler[n].rumor)')
  PROVE  RumorsGenuine'
<1>1. \A r \in Rumor : Genuine(r) => Genuine(r)'
  BY GenuineStays
<1>2. ASSUME NEW p \in net', p.kind = "rumor"
      PROVE  Genuine(p.rumor)'
  <2>1. CASE p \in net
    <3>1. p.rumor \in Rumor
      BY <1>2, <2>1 DEF TypeOK, RumorPacket, StatusPacket
    <3> QED
      BY <1>1, <1>2, <2>1, <3>1 DEF RumorsGenuine
  <2> QED
    BY <1>2, <2>1
<1>3. ASSUME NEW n \in Node, NEW t \in tasks'[n]
      PROVE  (t.task = "compare" /\ t.rumor = None) \/ Genuine(t.rumor)'
  <2>1. CASE t \in tasks[n]
    <3>1. (t.task = "compare" /\ t.rumor = None) \/ t.rumor \in Rumor
      BY <2>1 DEF TypeOK, Monger, Waiting, Compare
    <3> QED
      BY <1>1, <2>1, <3>1 DEF RumorsGenuine
  <2> QED
    BY <1>3, <2>1
<1>4. ASSUME NEW n \in Node, handler'[n].pc # "idle"
      PROVE  Genuine(handler[n].rumor)'
  <2>1. CASE handler'[n] = handler[n]
    <3>1. handler[n].rumor \in Rumor /\ Genuine(handler[n].rumor)
      BY <1>4, <2>1 DEF TypeOK, Idle, Growing, Storing, RumorsGenuine
    <3>2. PICK r \in Rumor : r = handler[n].rumor
      BY <3>1
    <3>3. Genuine(r)'
      BY <1>1, <3>1, <3>2
    <3>4. handler'[n].rumor = r
      BY <2>1, <3>2
    <3> QED
      BY <3>3, <3>4 DEF Genuine
  <2> QED
    BY <1>4, <2>1
<1> QED
  BY <1>2, <1>3, <1>4 DEF RumorsGenuine

(* Logs, counts and agreement are about want, msgs and handlers only. *)
LEMMA LogQuiet ==
  ASSUME TypeOK, TypeOK', LogInv, want' = want, msgs' = msgs, handler' = handler,
         \A p \in net' : p \in net \/ (p.kind = "rumor" => Genuine(p.rumor)'),
         \A n \in Node : \A t \in tasks'[n] :
           t \in tasks[n] \/ (t.task = "compare" /\ t.rumor = None) \/ Genuine(t.rumor)'
  PROVE  LogInv'
<1>1. RumorsGenuine'
  BY LogEntries, RumorsGenuineStays DEF LogInv, LogsGrow
<1>2. Agreement'
  BY DEF LogInv, Agreement, RL!PrefixOfOwner
<1>3. CountMatchesLog'
  BY DEF LogInv, CountMatchesLog, Stored
<1>4. StoresNext'
  BY DEF LogInv, StoresNext
<1> QED
  BY <1>1, <1>2, <1>3, <1>4 DEF LogInv

LEMMA StoredIdle ==
  ASSUME TypeOK, NEW n \in Node, NEW o \in Node
  PROVE  /\ ~(handler[n].pc = "store" /\ handler[n].rumor.origin = o)
              => Stored(n, o) = Len(msgs[n][o])
         /\ handler[n].pc = "store" /\ handler[n].rumor.origin = o
              => Stored(n, o) = Len(msgs[n][o]) + 1
<1> DEFINE here == handler[n].pc = "store" /\ handler[n].rumor.origin = o
<1>1. Len(msgs[n][o]) \in Nat
  BY LogEntries
<1>2. Stored(n, o) = Len(msgs[n][o]) + (IF here THEN 1 ELSE 0)
  BY DEF Stored
<1>3. CASE here
  <2>1. Stored(n, o) = Len(msgs[n][o]) + 1
    BY <1>2, <1>3
  <2> QED
    BY <1>3, <2>1
<1>4. CASE ~here
  <2>1. Stored(n, o) = Len(msgs[n][o]) + 0
    BY <1>2, <1>4
  <2> QED
    BY <1>1, <1>4, <2>1
<1> QED
  BY <1>3, <1>4

LEMMA StoredIdleNext ==
  ASSUME TypeOK', NEW n \in Node, NEW o \in Node
  PROVE  /\ ~(handler'[n].pc = "store" /\ handler'[n].rumor.origin = o)
              => Stored(n, o)' = Len(msgs'[n][o])
         /\ handler'[n].pc = "store" /\ handler'[n].rumor.origin = o
              => Stored(n, o)' = Len(msgs'[n][o]) + 1
<1> DEFINE here == handler'[n].pc = "store" /\ handler'[n].rumor.origin = o
<1>1. Len(msgs'[n][o]) \in Nat
  BY DEF TypeOK
<1>2. Stored(n, o)' = Len(msgs'[n][o]) + (IF here THEN 1 ELSE 0)
  BY DEF Stored
<1>3. CASE here
  <2>1. Stored(n, o)' = Len(msgs'[n][o]) + 1
    BY <1>2, <1>3
  <2> QED
    BY <1>3, <2>1
<1>4. CASE ~here
  <2>1. Stored(n, o)' = Len(msgs'[n][o]) + 0
    BY <1>2, <1>4
  <2> QED
    BY <1>1, <1>4, <2>1
<1> QED
  BY <1>3, <1>4

(* No rumor of its own is being stored by an owner. *)
LEMMA OwnCount ==
  ASSUME TypeOK, LogInv
  PROVE  \A n \in Node : /\ Stored(n, n) = Len(msgs[n][n])
                         /\ want[n][n] = Len(msgs[n][n]) + 1
<1> SUFFICES ASSUME NEW n \in Node
             PROVE  /\ Stored(n, n) = Len(msgs[n][n])
                    /\ want[n][n] = Len(msgs[n][n]) + 1
  OBVIOUS
<1>1. ~(handler[n].pc = "store" /\ handler[n].rumor.origin = n) /\ want[n][n] # 0
  BY DEF LogInv, StoresNext
<1>2. Stored(n, n) = Len(msgs[n][n])
  BY <1>1, LogEntries, StoredIdle
<1>3. want[n][n] = IF want[n][n] = 0 THEN Stored(n, n) ELSE Stored(n, n) + 1
  BY DEF LogInv, CountMatchesLog
<1> QED
  BY <1>1, <1>2, <1>3

LEMMA LogInit == Init => LogInv
<1> SUFFICES ASSUME Init PROVE LogInv
  OBVIOUS
<1>1. Agreement
  BY DEF Init, Agreement, RL!PrefixOfOwner
<1>2. CountMatchesLog /\ RumorsGenuine /\ StoresNext
  BY DEF Init, CountMatchesLog, Stored, RumorsGenuine, StoresNext
<1> QED
  BY <1>1, <1>2 DEF LogInv

(* Publishing extends the log of its owner and the owner's count. *)
LEMMA LogPublish ==
  ASSUME TypeOK, TypeOK', LogInv, NEW n \in Node, NEW text \in Text, PublishRumor(n, text)
  PROVE  LogInv'
<1>0. PICK r \in Rumor : r = [origin |-> n, id |-> want[n][n], text |-> text]
  BY Entries DEF Rumor
<1>1. /\ msgs' = [msgs EXCEPT ![n][n] = Append(@, text)]
      /\ want' = [want EXCEPT ![n][n] = @ + 1]
      /\ handler' = handler /\ net' = net
  BY DEF PublishRumor
<1>2. /\ \A m, o \in Node : ~(m = n /\ o = n) => msgs'[m][o] = msgs[m][o]
      /\ Len(msgs'[n][n]) = Len(msgs[n][n]) + 1
      /\ \A i \in 1 .. Len(msgs[n][n]) : msgs'[n][n][i] = msgs[n][n][i]
      /\ msgs'[n][n][Len(msgs[n][n]) + 1] = text
      /\ LogsGrow
  BY <1>1, LogAppend
<1>3. /\ \A m, o \in Node : ~(m = n /\ o = n) => want'[m][o] = want[m][o]
      /\ want'[n][n] = want[n][n] + 1
  BY <1>1 DEF TypeOK, Vector
<1>5. want[n][n] = Len(msgs[n][n]) + 1
  BY OwnCount
<1>6. Genuine(r)'
  <2>1. r.origin = n /\ r.id = Len(msgs[n][n]) + 1 /\ r.text = text
    BY <1>0, <1>5
  <2> QED
    BY <1>2, <2>1, LogEntries DEF Genuine
<1>7. \A m \in Node : \A t \in tasks'[m] : t \in tasks[m] \/ t.rumor = r
  <2>1. \/ tasks' = tasks
        \/ \E t \in MongerTasks(n, None, r) : Spawn(n, {t})
    BY <1>0 DEF PublishRumor
  <2>2. CASE tasks' = tasks
    BY <2>2
  <2>3. ASSUME NEW t \in MongerTasks(n, None, r), Spawn(n, {t})
        PROVE  \A m \in Node : \A u \in tasks'[m] : u \in tasks[m] \/ u = t
    BY <2>3, SpawnFrom
  <2>4. \A t \in MongerTasks(n, None, r) : t.rumor = r
    BY MongerTasksType
  <2> QED
    BY <2>1, <2>2, <2>3, <2>4
<1>8. RumorsGenuine'
  <2>1. \A m \in Node : \A t \in tasks'[m] : t \in tasks[m] \/ Genuine(t.rumor)'
    BY <1>6, <1>7 DEF Genuine
  <2> QED
    BY <1>1, <1>2, <2>1, RumorsGenuineStays DEF LogInv
<1>9. Agreement'
  <2> SUFFICES ASSUME NEW m \in Node, NEW o \in Node
               PROVE  /\ Len(msgs'[m][o]) <= Len(msgs'[o][o])
                      /\ \A i \in 1 .. Len(msgs'[m][o]) : msgs'[m][o][i] = msgs'[o][o][i]
    BY DEF Agreement, RL!PrefixOfOwner
  <2>1. CASE m = o
    BY <2>1, LogEntries DEF TypeOK
  <2>2. CASE m # o
    <3>1. msgs'[m][o] = msgs[m][o]
      BY <1>2, <2>2
    <3>2. /\ Len(msgs[m][o]) <= Len(msgs[o][o])
          /\ \A i \in 1 .. Len(msgs[m][o]) : msgs[m][o][i] = msgs[o][o][i]
      BY DEF LogInv, Agreement, RL!PrefixOfOwner
    <3>3. /\ Len(msgs[o][o]) <= Len(msgs'[o][o])
          /\ \A i \in 1 .. Len(msgs[o][o]) : msgs'[o][o][i] = msgs[o][o][i]
      BY <1>2 DEF LogsGrow
    <3>4. Len(msgs[m][o]) \in Nat /\ Len(msgs[o][o]) \in Nat /\ Len(msgs'[o][o]) \in Nat
      BY LogEntries DEF TypeOK
    <3>5. Len(msgs'[m][o]) <= Len(msgs'[o][o])
      BY <3>1, <3>2, <3>3, <3>4
    <3>6. ASSUME NEW i \in 1 .. Len(msgs'[m][o])
          PROVE  msgs'[m][o][i] = msgs'[o][o][i]
      <4>1. i \in 1 .. Len(msgs[m][o]) /\ i \in 1 .. Len(msgs[o][o])
        BY <3>1, <3>2, <3>4
      <4>2. /\ msgs'[m][o][i] = msgs[m][o][i]
            /\ msgs[m][o][i] = msgs[o][o][i]
        BY <3>1, <3>2, <4>1
      <4>3. msgs'[o][o][i] = msgs[o][o][i]
        BY <3>3, <4>1
      <4> QED
        BY <4>2, <4>3
    <3> QED
      BY <3>5, <3>6
  <2> QED
    BY <2>1, <2>2
<1>10. CountMatchesLog'
  <2> SUFFICES ASSUME NEW m \in Node, NEW o \in Node
               PROVE  want'[m][o] = IF want'[m][o] = 0 THEN Stored(m, o)'
                                    ELSE Stored(m, o)' + 1
    BY DEF CountMatchesLog
  <2>1. CASE m = n /\ o = n
    <3>1. Stored(n, n)' = Len(msgs'[n][n])
      <4>1. ~(handler'[n].pc = "store" /\ handler'[n].rumor.origin = n)
        BY <1>1 DEF LogInv, StoresNext
      <4> QED
        BY <4>1, StoredIdleNext
    <3> QED
      BY <1>2, <1>3, <1>5, <2>1, <3>1, LogEntries
  <2>2. CASE ~(m = n /\ o = n)
    <3>1. Stored(m, o)' = Stored(m, o) /\ want'[m][o] = want[m][o]
      BY <1>1, <1>2, <1>3, <2>2 DEF Stored
    <3> QED
      BY <3>1 DEF LogInv, CountMatchesLog
  <2> QED
    BY <2>1, <2>2
<1>11. StoresNext'
  <2> SUFFICES ASSUME NEW m \in Node
               PROVE  /\ handler'[m].pc # "grow" /\ want'[m][m] # 0
                      /\ handler'[m].pc = "store" =>
                           /\ handler'[m].rumor.origin # m
                           /\ handler'[m].rumor.id =
                                Len(msgs'[m][handler'[m].rumor.origin]) + 1
    BY DEF StoresNext
  <2>1. want'[m][m] # 0
    BY <1>3, Entries DEF LogInv, StoresNext
  <2>2. handler[m].pc = "store" => handler[m].rumor.origin \in Node
    BY DEF TypeOK, Idle, Growing, Storing, Rumor
  <2>3. handler[m].pc = "store" =>
          LET o == handler[m].rumor.origin
          IN msgs'[m][o] = msgs[m][o] /\ o # m /\ handler[m].rumor.id = Len(msgs[m][o]) + 1
    BY <1>2, <2>2 DEF LogInv, StoresNext
  <2>4. handler'[m] = handler[m] /\ handler[m].pc # "grow"
    BY <1>1 DEF LogInv, StoresNext
  <2> QED
    BY <2>1, <2>3, <2>4
<1> QED
  BY <1>8, <1>9, <1>10, <1>11 DEF LogInv

(* A rumor is counted only when it is the next of a log of another node.   *)
LEMMA LogCount ==
  ASSUME TypeOK, TypeOK', LogInv, NEW n \in Node, NEW relay \in Node, NEW r \in Rumor,
         handler[n].pc = "idle", Genuine(r), CountRumor(n, want[n], relay, r),
         msgs' = msgs, net' \subseteq net, tasks' = tasks
  PROVE  LogInv'
<1> DEFINE o == r.origin
<1> DEFINE listed == UpdateStatus(want[n], o)
<1>1. o \in Node /\ r.id \in Nat /\ r.id >= 1 /\ r.id <= Len(msgs[o][o])
  BY LogEntries DEF Rumor, Genuine
<1>2. /\ listed \in [Node -> Nat]
      /\ \A x \in Node \ {o} : listed[x] = want[n][x]
      /\ listed[o] = Len(msgs[n][o]) + 1
  <2>1. Stored(n, o) = Len(msgs[n][o])
    BY <1>1, StoredIdle
  <2>2. want[n][o] = IF want[n][o] = 0 THEN Stored(n, o) ELSE Stored(n, o) + 1
    BY <1>1 DEF LogInv, CountMatchesLog
  <2>3. want[n] \in [Node -> Nat] /\ want[n][o] \in Nat
    BY <1>1 DEF TypeOK, Vector
  <2>4. CASE want[n][o] = 0
    <3>1. listed = [want[n] EXCEPT ![o] = 1] /\ Len(msgs[n][o]) = 0
      BY <2>1, <2>2, <2>4 DEF UpdateStatus
    <3> QED
      BY <1>1, <2>3, <3>1
  <2>5. CASE want[n][o] # 0
    <3>1. listed = want[n] /\ want[n][o] = Len(msgs[n][o]) + 1
      BY <2>1, <2>2, <2>5 DEF UpdateStatus
    <3> QED
      BY <1>1, <2>3, <3>1
  <2> QED
    BY <2>4, <2>5
<1>3. Agreement'
  BY DEF LogInv, Agreement, RL!PrefixOfOwner
<1>4. /\ \A m \in Node : handler'[m] = handler[m]
                          \/ (handler'[m].pc # "idle" => handler'[m].rumor = r)
  BY DEF CountRumor, TypeOK
<1>5. Genuine(r)'
  BY DEF Genuine
<1>6. RumorsGenuine'
  <2>1. \A m \in Node : handler'[m] = handler[m]
                         \/ (handler'[m].pc # "idle" => Genuine(handler[m].rumor)')
    BY <1>4, <1>5 DEF Genuine
  <2> QED
    BY <2>1, LogEntries, RumorsGenuineStays DEF LogInv, LogsGrow
<1>7. CASE listed[o] = r.id
  <2>1. /\ want' = [want EXCEPT ![n] = [listed EXCEPT ![o] = @ + 1]]
        /\ handler' = [handler EXCEPT ![n] = [pc |-> "store", src |-> relay, rumor |-> r]]
    BY <1>7 DEF CountRumor
  <2>2. /\ \A m \in Node \ {n} : want'[m] = want[m] /\ handler'[m] = handler[m]
        /\ \A x \in Node \ {o} : want'[n][x] = want[n][x]
        /\ want'[n][o] = Len(msgs[n][o]) + 2
        /\ handler'[n].pc = "store" /\ handler'[n].rumor = r
    BY <1>1, <1>2, <2>1, LogEntries DEF TypeOK
  <2>3. o # n
    BY <1>1, <1>2, <1>7
  <2>4. CountMatchesLog'
    <3> SUFFICES ASSUME NEW m \in Node, NEW x \in Node
                 PROVE  want'[m][x] = IF want'[m][x] = 0 THEN Stored(m, x)'
                                      ELSE Stored(m, x)' + 1
      BY DEF CountMatchesLog
    <3>1. CASE m = n /\ x = o
      <4>1. Stored(n, o)' = Len(msgs[n][o]) + 1
        BY <1>1, <2>2, StoredIdleNext
      <4> QED
        BY <1>1, <2>2, <3>1, <4>1, LogEntries
    <3>2. CASE m = n /\ x # o
      <4>1. Stored(n, x)' = Len(msgs[n][x]) /\ Stored(n, x) = Len(msgs[n][x])
        BY <2>2, <3>2, StoredIdle, StoredIdleNext
      <4> QED
        BY <2>2, <3>2, <4>1 DEF LogInv, CountMatchesLog
    <3>3. CASE m # n
      <4>1. Stored(m, x)' = Stored(m, x)
        BY <2>2, <3>3 DEF Stored
      <4> QED
        BY <2>2, <3>3, <4>1 DEF LogInv, CountMatchesLog
    <3> QED
      BY <3>1, <3>2, <3>3
  <2>5. StoresNext'
    <3> SUFFICES ASSUME NEW m \in Node
                 PROVE  /\ handler'[m].pc # "grow" /\ want'[m][m] # 0
                        /\ handler'[m].pc = "store" =>
                             /\ handler'[m].rumor.origin # m
                             /\ handler'[m].rumor.id =
                                  Len(msgs'[m][handler'[m].rumor.origin]) + 1
      BY DEF StoresNext
    <3>1. CASE m = n
      BY <1>2, <1>7, <2>2, <2>3, <3>1 DEF LogInv, StoresNext
    <3>2. CASE m # n
      BY <2>2, <3>2 DEF LogInv, StoresNext
    <3> QED
      BY <3>1, <3>2
  <2> QED
    BY <1>3, <1>6, <2>4, <2>5 DEF LogInv
<1>8. CASE listed[o] # r.id
  <2>1. /\ want' = [want EXCEPT ![n] = listed]
        /\ handler' = [handler EXCEPT ![n] = [pc |-> "idle"]]
    BY <1>8 DEF CountRumor
  <2>2. /\ \A m \in Node \ {n} : want'[m] = want[m] /\ handler'[m] = handler[m]
        /\ want'[n] = listed /\ handler'[n].pc = "idle"
    BY <2>1 DEF TypeOK
  <2>3. CountMatchesLog'
    <3> SUFFICES ASSUME NEW m \in Node, NEW x \in Node
                 PROVE  want'[m][x] = IF want'[m][x] = 0 THEN Stored(m, x)'
                                      ELSE Stored(m, x)' + 1
      BY DEF CountMatchesLog
    <3>1. CASE m = n
      <4>1. Stored(n, x)' = Len(msgs[n][x]) /\ Stored(n, x) = Len(msgs[n][x])
        BY <2>2, StoredIdle, StoredIdleNext
      <4>2. CASE x = o
        <5>1. want'[n][o] = Len(msgs[n][o]) + 1 /\ Len(msgs[n][o]) \in Nat
          BY <1>1, <1>2, <2>2, LogEntries
        <5>2. want'[m][x] = Len(msgs[n][o]) + 1 /\ want'[m][x] # 0
          BY <3>1, <4>2, <5>1
        <5>3. Stored(m, x)' = Len(msgs[n][o])
          BY <3>1, <4>1, <4>2
        <5> QED
          BY <5>2, <5>3
      <4>3. CASE x # o
        <5>1. want'[m][x] = want[n][x] /\ Stored(m, x)' = Stored(n, x)
          BY <1>2, <2>2, <3>1, <4>1, <4>3
        <5>2. want[n][x] = IF want[n][x] = 0 THEN Stored(n, x) ELSE Stored(n, x) + 1
          BY DEF LogInv, CountMatchesLog
        <5> QED
          BY <5>1, <5>2
      <4> QED
        BY <4>2, <4>3
    <3>2. CASE m # n
      <4>1. Stored(m, x)' = Stored(m, x)
        BY <2>2, <3>2 DEF Stored
      <4> QED
        BY <2>2, <3>2, <4>1 DEF LogInv, CountMatchesLog
    <3> QED
      BY <3>1, <3>2
  <2>4. StoresNext'
    <3> SUFFICES ASSUME NEW m \in Node
                 PROVE  /\ handler'[m].pc # "grow" /\ want'[m][m] # 0
                        /\ handler'[m].pc = "store" =>
                             /\ handler'[m].rumor.origin # m
                             /\ handler'[m].rumor.id =
                                  Len(msgs'[m][handler'[m].rumor.origin]) + 1
      BY DEF StoresNext
    <3>1. CASE m = n
      <4>1. listed[n] # 0
        <5>1. CASE n = o
          <6>1. listed[o] = Len(msgs[n][o]) + 1 /\ Len(msgs[n][o]) \in Nat
            BY <1>1, <1>2, LogEntries
          <6> QED
            BY <5>1, <6>1
        <5>2. CASE n # o
          <6>1. listed[n] = want[n][n]
            BY <1>2, <5>2
          <6>2. want[n][n] # 0
            BY DEF LogInv, StoresNext
          <6> QED
            BY <6>1, <6>2
        <5> QED
          BY <5>1, <5>2
      <4> QED
        BY <2>2, <3>1, <4>1
    <3>2. CASE m # n
      BY <2>2, <3>2 DEF LogInv, StoresNext
    <3> QED
      BY <3>1, <3>2
  <2> QED
    BY <1>3, <1>6, <2>3, <2>4 DEF LogInv
<1> QED
  BY <1>7, <1>8

(* What StoreRumor appends is the owner's next entry. *)
LEMMA StoreLearns ==
  ASSUME TypeOK, LogInv, NEW n \in Node, StoreRumor(n)
  PROVE  LET r == handler[n].rumor
         IN /\ r \in Rumor /\ Genuine(r) /\ r.origin # n
            /\ r.id = Len(msgs[n][r.origin]) + 1
            /\ Len(msgs[n][r.origin]) < Len(msgs[r.origin][r.origin])
            /\ r.text = msgs[r.origin][r.origin][Len(msgs[n][r.origin]) + 1]
            /\ msgs' = [msgs EXCEPT ![n][r.origin] = Append(@, r.text)]
<1> DEFINE r == handler[n].rumor
<1>1. handler[n].pc = "store"
  BY DEF StoreRumor
<1>2. r \in Rumor
  BY <1>1 DEF TypeOK, Idle, Growing, Storing
<1>3. Genuine(r) /\ r.origin # n /\ r.id = Len(msgs[n][r.origin]) + 1
  BY <1>1 DEF LogInv, RumorsGenuine, StoresNext
<1>4. msgs' = [msgs EXCEPT ![n][r.origin] = Append(@, r.text)]
  BY DEF StoreRumor
<1>5. Len(msgs[n][r.origin]) \in Nat /\ Len(msgs[r.origin][r.origin]) \in Nat
  BY <1>2, LogEntries DEF Rumor
<1>6. /\ Len(msgs[n][r.origin]) < Len(msgs[r.origin][r.origin])
      /\ r.text = msgs[r.origin][r.origin][Len(msgs[n][r.origin]) + 1]
  <2> HIDE DEF r
  <2> QED
    BY <1>3, <1>5 DEF Genuine
<1> QED
  BY <1>2, <1>3, <1>4, <1>6

LEMMA LogStore ==
  ASSUME TypeOK, TypeOK', LogInv, NEW n \in Node, StoreRumor(n)
  PROVE  LogInv'
<1>1. PICK r \in Rumor : r = handler[n].rumor
  BY StoreLearns
<1> DEFINE o == r.origin
<1>2. /\ Genuine(r) /\ o # n /\ o \in Node /\ r.text \in Text
      /\ r.id = Len(msgs[n][o]) + 1 /\ Len(msgs[n][o]) < Len(msgs[o][o])
      /\ r.text = msgs[o][o][Len(msgs[n][o]) + 1]
      /\ msgs' = [msgs EXCEPT ![n][o] = Append(@, r.text)]
  BY <1>1, StoreLearns DEF Rumor
<1>3. /\ \A m, x \in Node : ~(m = n /\ x = o) => msgs'[m][x] = msgs[m][x]
      /\ Len(msgs'[n][o]) = Len(msgs[n][o]) + 1
      /\ \A i \in 1 .. Len(msgs[n][o]) : msgs'[n][o][i] = msgs[n][o][i]
      /\ msgs'[n][o][Len(msgs[n][o]) + 1] = r.text
      /\ LogsGrow
  BY <1>2, LogAppend
<1>4. /\ want' = want /\ net' = net
      /\ \A m \in Node \ {n} : handler'[m] = handler[m]
      /\ handler'[n].pc = "idle"
      /\ handler[n].pc = "store" /\ handler[n].rumor = r
  BY <1>1 DEF StoreRumor, TypeOK
<1>5. \A m \in Node : \A t \in tasks'[m] : t \in tasks[m] \/ t.rumor = r
  <2>1. \/ tasks' = tasks
        \/ \E t \in MongerTasks(n, handler[n].src, r) : Spawn(n, {t})
    BY <1>1 DEF StoreRumor
  <2>2. CASE tasks' = tasks
    BY <2>2
  <2>3. ASSUME NEW t \in MongerTasks(n, handler[n].src, r), Spawn(n, {t})
        PROVE  \A m \in Node : \A u \in tasks'[m] : u \in tasks[m] \/ u = t
    BY <2>3, SpawnFrom
  <2>4. handler[n].src \in Node
    BY <1>4 DEF TypeOK, Idle, Growing, Storing
  <2>5. \A t \in MongerTasks(n, handler[n].src, r) : t.rumor = r
    BY <2>4, MongerTasksType
  <2> QED
    BY <2>1, <2>2, <2>3, <2>5
<1>6. RumorsGenuine'
  <2>1. Genuine(r)'
    BY <1>2, <1>3, GenuineStays
  <2>2. \A m \in Node : \A t \in tasks'[m] : t \in tasks[m] \/ Genuine(t.rumor)'
    BY <1>5, <2>1 DEF Genuine
  <2>3. \A m \in Node : handler'[m] = handler[m] \/ handler'[m].pc = "idle"
    BY <1>4
  <2> QED
    BY <1>3, <1>4, <2>2, <2>3, RumorsGenuineStays DEF LogInv
<1>7. Agreement'
  <2> SUFFICES ASSUME NEW m \in Node, NEW x \in Node
               PROVE  /\ Len(msgs'[m][x]) <= Len(msgs'[x][x])
                      /\ \A i \in 1 .. Len(msgs'[m][x]) : msgs'[m][x][i] = msgs'[x][x][i]
    BY DEF Agreement, RL!PrefixOfOwner
  <2>1. msgs'[x][x] = msgs[x][x]
    BY <1>2, <1>3
  <2>2. /\ Len(msgs[m][x]) <= Len(msgs[x][x])
        /\ \A i \in 1 .. Len(msgs[m][x]) : msgs[m][x][i] = msgs[x][x][i]
    BY DEF LogInv, Agreement, RL!PrefixOfOwner
  <2>3. CASE m = n /\ x = o
    <3>1. Len(msgs[n][o]) \in Nat /\ Len(msgs[o][o]) \in Nat
      BY <1>2, LogEntries
    <3>2. Len(msgs'[n][o]) <= Len(msgs'[o][o])
      <4>1. msgs'[o][o] = msgs[o][o]
        BY <2>1, <2>3
      <4>2. Len(msgs[n][o]) + 1 <= Len(msgs[o][o])
        BY <1>2, <3>1
      <4> QED
        BY <1>3, <4>1, <4>2
    <3>3. ASSUME NEW i \in 1 .. Len(msgs'[n][o])
          PROVE  msgs'[n][o][i] = msgs[o][o][i]
      <4>1. CASE i = Len(msgs[n][o]) + 1
        BY <1>2, <1>3, <4>1
      <4>2. CASE i # Len(msgs[n][o]) + 1
        <5>1. i \in 1 .. Len(msgs[n][o])
          BY <1>3, <3>1, <3>3, <4>2
        <5> QED
          BY <1>3, <2>2, <2>3, <5>1
      <4> QED
        BY <4>1, <4>2
    <3> QED
      BY <2>1, <2>3, <3>2, <3>3
  <2>4. CASE ~(m = n /\ x = o)
    BY <1>3, <2>1, <2>2, <2>4
  <2> QED
    BY <2>3, <2>4
<1>8. CountMatchesLog'
  <2> SUFFICES ASSUME NEW m \in Node, NEW x \in Node
               PROVE  want'[m][x] = IF want'[m][x] = 0 THEN Stored(m, x)'
                                    ELSE Stored(m, x)' + 1
    BY DEF CountMatchesLog
  <2>1. Stored(m, x)' = Stored(m, x)
    <3>1. CASE m = n /\ x = o
      BY <1>3, <1>4, <3>1, StoredIdle, StoredIdleNext
    <3>2. CASE m = n /\ x # o
      BY <1>3, <1>4, <3>2, StoredIdle, StoredIdleNext
    <3>3. CASE m # n
      BY <1>3, <1>4, <3>3 DEF Stored
    <3> QED
      BY <3>1, <3>2, <3>3
  <2> QED
    BY <1>4, <2>1 DEF LogInv, CountMatchesLog
<1>9. StoresNext'
  <2> SUFFICES ASSUME NEW m \in Node
               PROVE  /\ handler'[m].pc # "grow" /\ want'[m][m] # 0
                      /\ handler'[m].pc = "store" =>
                           /\ handler'[m].rumor.origin # m
                           /\ handler'[m].rumor.id =
                                Len(msgs'[m][handler'[m].rumor.origin]) + 1
    BY DEF StoresNext
  <2>1. CASE m = n
    BY <1>4, <2>1 DEF LogInv, StoresNext
  <2>2. CASE m # n
    <3>1. handler[m].pc = "store" => handler[m].rumor.origin \in Node
      BY DEF TypeOK, Idle, Growing, Storing, Rumor
    <3>2. handler[m].pc = "store" =>
            LET x == handler[m].rumor.origin
            IN msgs'[m][x] = msgs[m][x] /\ x # m /\ handler[m].rumor.id = Len(msgs[m][x]) + 1
      BY <1>3, <2>2, <3>1 DEF LogInv, StoresNext
    <3>3. handler'[m] = handler[m] /\ handler[m].pc # "grow" /\ want'[m][m] # 0
      BY <1>4, <2>2 DEF LogInv, StoresNext
    <3> QED
      BY <3>2, <3>3
  <2> QED
    BY <2>1, <2>2
<1> QED
  BY <1>6, <1>7, <1>8, <1>9 DEF LogInv

LEMMA LogNext ==
  ASSUME DataRaces = FALSE
  PROVE  TypeOK /\ TypeOK' /\ LogInv /\ [Next]_vars => LogInv'
<1> SUFFICES ASSUME TypeOK, TypeOK', LogInv, [Next]_vars
             PROVE  LogInv'
  OBVIOUS
<1>0. ASSUME msgs' = msgs, NEW r
      PROVE  Genuine(r) <=> Genuine(r)'
  BY <1>0 DEF Genuine
<1>1. ASSUME NEW n \in Node, NEW text \in Text, PublishRumor(n, text)
      PROVE  LogInv'
  BY <1>1, LogPublish
<1>2. ASSUME NEW n \in Node, NEW q \in Node, AddPeer(n, q)
      PROVE  LogInv'
  BY <1>2, LogQuiet DEF AddPeer
<1>3. ASSUME NEW n \in Node, NEW q \in Node, AntiEntropy(n, q)
      PROVE  LogInv'
  <2>1. \A p \in net' : p \in net \/ p.kind # "rumor"
    BY <1>3, SendAdds DEF AntiEntropy, StatusTo
  <2> QED
    BY <1>3, <2>1, LogQuiet DEF AntiEntropy
<1>4. ASSUME NEW n \in Node, NEW p \in net, RecvRumor(n, p)
      PROVE  LogInv'
  <2>1. p.src \in Node /\ p.rumor \in Rumor /\ Genuine(p.rumor)
    BY <1>4 DEF RecvRumor, TypeOK, RumorPacket, StatusPacket, LogInv, RumorsGenuine
  <2>2. CountRumor(n, want[n], p.src, p.rumor)
    BY <1>4 DEF RecvRumor
  <2>3. net' \subseteq net /\ tasks' = tasks /\ msgs' = msgs /\ handler[n].pc = "idle"
    BY <1>4, ReceiveShrinks DEF RecvRumor
  <2> QED
    BY <2>1, <2>2, <2>3, LogCount
<1>5. ASSUME NEW n \in Node, NEW p \in net, RecvStatus(n, p)
      PROVE  LogInv'
  <2> DEFINE cmp(r) == [task |-> "compare", peer |-> p.src, seen |-> p.want, rumor |-> r]
  <2>1. \A m \in Node : \A t \in tasks'[m] :
          t \in tasks[m] \/ (t.task = "compare" /\ t.rumor = None) \/ Genuine(t.rumor)
    <3>1. \A t \in tasks[n] : t.task = "wait" => Genuine(t.rumor)
      BY DEF LogInv, RumorsGenuine
    <3>2. CASE Spawn(n, {cmp(None)})
      <4>1. \A m \in Node : \A t \in tasks'[m] : t \in tasks[m] \/ t = cmp(None)
        BY <3>2, SpawnFrom
      <4> QED
        BY <4>1
    <3>3. ASSUME NEW t \in tasks[n], t.task = "wait", Replace(n, t, {cmp(t.rumor)})
          PROVE  \A m \in Node : \A u \in tasks'[m] : u \in tasks[m] \/ Genuine(u.rumor)
      <4>1. \A m \in Node : \A u \in tasks'[m] :
              u \in tasks[m] \/ (m = n /\ u = cmp(t.rumor))
        BY <3>3, ReplaceFrom
      <4>2. cmp(t.rumor).rumor = t.rumor
        OBVIOUS
      <4> QED
        BY <3>1, <3>3, <4>1, <4>2
    <3> QED
      BY <1>5, <3>2, <3>3 DEF RecvStatus
  <2>2. net' \subseteq net /\ want' = want /\ msgs' = msgs /\ handler' = handler
    BY <1>5, ReceiveShrinks DEF RecvStatus
  <2> QED
    BY <1>0, <2>1, <2>2, LogQuiet
<1>6. ASSUME NEW n \in Node, AssignWant(n)
      PROVE  LogInv'
  BY <1>6 DEF AssignWant, LogInv, StoresNext
<1>7. ASSUME NEW n \in Node, StoreRumor(n)
      PROVE  LogInv'
  BY <1>7, LogStore
<1>8. ASSUME NEW n \in Node, MapRace(n)
      PROVE  LogInv'
  BY <1>8 DEF MapRace
<1>9. ASSUME NEW n \in Node, NEW t \in tasks[n], StartMonger(n, t)
      PROVE  LogInv'
  <2>1. Genuine(t.rumor)
    BY <1>9 DEF StartMonger, LogInv, RumorsGenuine
  <2>2. \A p \in net' : p \in net \/ (p.kind = "rumor" => p.rumor = t.rumor)
    BY <1>9, SendAdds DEF StartMonger, RumorTo, StatusTo
  <2>3. \A m \in Node : \A u \in tasks'[m] : u \in tasks[m] \/ u.rumor = t.rumor
    BY <1>9, ReplaceFrom DEF StartMonger
  <2>4. want' = want /\ msgs' = msgs /\ handler' = handler
    BY <1>9 DEF StartMonger
  <2>5. /\ \A p \in net' : p \in net \/ (p.kind = "rumor" => Genuine(p.rumor)')
        /\ \A m \in Node : \A u \in tasks'[m] : u \in tasks[m] \/ Genuine(u.rumor)'
    BY <1>0, <2>1, <2>2, <2>3, <2>4
  <2> QED
    BY <2>4, <2>5, LogQuiet
<1>10. ASSUME NEW n \in Node, NEW t \in tasks[n], MongerTimeout(n, t)
       PROVE  LogInv'
  <2>1. Genuine(t.rumor) /\ t.peer \in Node /\ t.rumor \in Rumor
    BY <1>10 DEF MongerTimeout, LogInv, RumorsGenuine, TypeOK, Monger, Waiting, Compare
  <2>2. \A new \in CoinFlips(n, t.peer, t.rumor) : \A u \in new : u.rumor = t.rumor
    BY <2>1, CoinFlipsType
  <2>3. \A m \in Node : \A u \in tasks'[m] : u \in tasks[m] \/ u.rumor = t.rumor
    BY <1>10, <2>2, ReplaceFrom DEF MongerTimeout
  <2>4. want' = want /\ msgs' = msgs /\ handler' = handler /\ net' = net
    BY <1>10 DEF MongerTimeout
  <2>5. \A m \in Node : \A u \in tasks'[m] : u \in tasks[m] \/ Genuine(u.rumor)'
    BY <1>0, <2>1, <2>3, <2>4
  <2> QED
    BY <2>4, <2>5, LogQuiet
<1>11. ASSUME NEW n \in Node, NEW t \in tasks[n], SendMissing(n, t)
       PROVE  LogInv'
  <2>1. t.seen \in Vector
    BY <1>11, CompareType DEF SendMissing
  <2>2. PICK o \in FirstListed(n, StatusDifference(t.seen, want[n])) :
          LET id == FirstLacking(t.seen, o)
          IN IF id <= Len(msgs[n][o])
             THEN Send({RumorTo(n, t.peer, [origin |-> o, id |-> id,
                                            text |-> msgs[n][o][id]])})
             ELSE net' = net
    BY <1>11 DEF SendMissing
  <2> DEFINE id == FirstLacking(t.seen, o)
  <2>3. o \in Node /\ id \in Nat /\ id >= 1
    BY <2>1, <2>2 DEF FirstListed, StatusDifference, FirstLacking, Vector
  <2>4. ASSUME NEW p \in net', p \notin net
        PROVE  /\ p.rumor.origin = o /\ p.rumor.id = id
               /\ p.rumor.text = msgs[n][o][id] /\ id <= Len(msgs[n][o])
    BY <2>2, <2>4, SendAdds DEF RumorTo
  <2>5. /\ want' = want /\ msgs' = msgs /\ handler' = handler
        /\ \A m \in Node : tasks'[m] \subseteq tasks[m]
    BY <1>11, ReplaceFrom DEF SendMissing
  <2>6. ASSUME NEW p \in net', p \notin net
        PROVE  Genuine(p.rumor)
    <3>1. /\ Len(msgs[n][o]) <= Len(msgs[o][o])
          /\ \A i \in 1 .. Len(msgs[n][o]) : msgs[n][o][i] = msgs[o][o][i]
      BY <2>3 DEF LogInv, Agreement, RL!PrefixOfOwner
    <3>2. id <= Len(msgs[n][o]) /\ Len(msgs[n][o]) \in Nat /\ Len(msgs[o][o]) \in Nat
      BY <2>3, <2>4, <2>6, LogEntries
    <3>3. id \in 1 .. Len(msgs[n][o]) /\ id \in 1 .. Len(msgs[o][o])
      BY <2>3, <3>1, <3>2
    <3> QED
      BY <2>4, <2>6, <3>1, <3>3 DEF Genuine
  <2>7. \A p \in net' : p \in net \/ Genuine(p.rumor)'
    BY <1>0, <2>5, <2>6
  <2> QED
    BY <2>5, <2>7, LogQuiet
<1>12. ASSUME NEW n \in Node, NEW t \in tasks[n], AskOrStop(n, t)
       PROVE  LogInv'
  <2> DEFINE flips == IF t.rumor = None THEN {{}} ELSE CoinFlips(n, t.peer, t.rumor)
  <2>1. t.rumor # None => Genuine(t.rumor) /\ t.peer \in Node /\ t.rumor \in Rumor
    BY <1>12, CompareType DEF AskOrStop, LogInv, RumorsGenuine
  <2>2. \A new \in flips : \A u \in new : u.rumor = t.rumor /\ t.rumor # None
    BY <2>1, CoinFlipsType
  <2>3. \A m \in Node : \A u \in tasks'[m] :
          u \in tasks[m] \/ (u.rumor = t.rumor /\ t.rumor # None)
    BY <1>12, <2>2, ReplaceFrom DEF AskOrStop
  <2>4. \A p \in net' : p \in net \/ p.kind # "rumor"
    BY <1>12, SendAdds DEF AskOrStop, StatusTo
  <2>5. want' = want /\ msgs' = msgs /\ handler' = handler
    BY <1>12 DEF AskOrStop
  <2>6. \A m \in Node : \A u \in tasks'[m] : u \in tasks[m] \/ Genuine(u.rumor)'
    BY <1>0, <2>1, <2>3, <2>5
  <2> QED
    BY <2>4, <2>5, <2>6, LogQuiet
<1>13. CASE UNCHANGED vars
  BY <1>13, LogQuiet DEF vars
<1> QED
  BY <1>1, <1>2, <1>3, <1>4, <1>5, <1>6, <1>7, <1>8, <1>9, <1>10, <1>11, <1>12, <1>13
     DEF Next

(* Without data races every step of gossip is a step of RumorLog, or       *)
(* leaves all logs alone.                                                  *)
LEMMA StepRefines ==
  ASSUME DataRaces = FALSE
  PROVE  TypeOK /\ LogInv /\ [Next]_vars => [RL!Next]_msgs
<1> SUFFICES ASSUME TypeOK, LogInv, [Next]_vars
             PROVE  RL!Next \/ msgs' = msgs
  OBVIOUS
<1>1. ASSUME NEW n \in Node, NEW text \in Text, PublishRumor(n, text)
      PROVE  RL!Next
  BY <1>1 DEF PublishRumor, RL!Next, RL!Publish
<1>2. ASSUME NEW n \in Node, StoreRumor(n)
      PROVE  RL!Next
  <2> DEFINE r == handler[n].rumor
  <2>1. /\ r.origin \in Node /\ r.origin # n
        /\ Len(msgs[n][r.origin]) < Len(msgs[r.origin][r.origin])
        /\ r.text = msgs[r.origin][r.origin][Len(msgs[n][r.origin]) + 1]
        /\ msgs' = [msgs EXCEPT ![n][r.origin] = Append(@, r.text)]
    BY <1>2, StoreLearns DEF Rumor
  <2> HIDE DEF r
  <2>2. msgs' = [msgs EXCEPT ![n][r.origin] =
                   Append(@, msgs[r.origin][r.origin][Len(@) + 1])]
    BY <2>1 DEF TypeOK
  <2>3. RL!Learn(n, r.origin)
    BY <2>1, <2>2 DEF RL!Learn
  <2> QED
    BY <2>1, <2>3 DEF RL!Next
<1>3. ASSUME NEW n \in Node,
             \/ \E q \in Node : AddPeer(n, q) \/ AntiEntropy(n, q)
             \/ \E p \in net : RecvRumor(n, p) \/ RecvStatus(n, p)
             \/ AssignWant(n) \/ MapRace(n)
             \/ \E t \in tasks[n] : \/ StartMonger(n, t) \/ MongerTimeout(n, t)
                                    \/ SendMissing(n, t) \/ AskOrStop(n, t)
      PROVE  msgs' = msgs
  BY <1>3 DEF AddPeer, AntiEntropy, RecvRumor, RecvStatus, AssignWant, MapRace,
              StartMonger, MongerTimeout, SendMissing, AskOrStop
<1>4. CASE UNCHANGED vars
  BY <1>4 DEF vars
<1> QED
  BY <1>1, <1>2, <1>3, <1>4 DEF Next

(* Gossip without data races implements the rumor log: each step publishes *)
(* at the owner, copies the owner's next entry, or leaves the logs alone,  *)
(* although datagrams get lost, repeated and reordered.                    *)
THEOREM Refinement ==
  ASSUME DataRaces = FALSE
  PROVE  Spec => RefinesRumorLog
<1>1. Init => TypeOK /\ LogInv
  BY TypeInit, LogInit
<1>2. (TypeOK /\ LogInv) /\ [Next]_vars => (TypeOK /\ LogInv)'
  BY TypeNext, LogNext
<1>3. Init => RL!Init
  BY DEF Init, RL!Init
<1>4. TypeOK /\ LogInv /\ [Next]_vars => [RL!Next]_msgs
  BY StepRefines
<1> QED
  BY <1>1, <1>2, <1>3, <1>4, PTL DEF Spec, RefinesRumorLog, RL!Spec

(* Two nodes never hold different texts under the same origin and id.      *)
THEOREM LogsAgree ==
  ASSUME DataRaces = FALSE
  PROVE  Spec => []Agreement
<1>1. Init => TypeOK /\ LogInv
  BY TypeInit, LogInit
<1>2. (TypeOK /\ LogInv) /\ [Next]_vars => (TypeOK /\ LogInv)'
  BY TypeNext, LogNext
<1>3. LogInv => Agreement
  BY DEF LogInv
<1> QED
  BY <1>1, <1>2, <1>3, PTL DEF Spec

(* The vector clock announces exactly the stored rumors, but for the one   *)
(* that handleGossiper is storing.                                         *)
THEOREM CountsMatch ==
  ASSUME DataRaces = FALSE
  PROVE  Spec => []CountMatchesLog
<1>1. Init => TypeOK /\ LogInv
  BY TypeInit, LogInit
<1>2. (TypeOK /\ LogInv) /\ [Next]_vars => (TypeOK /\ LogInv)'
  BY TypeNext, LogNext
<1>3. LogInv => CountMatchesLog
  BY DEF LogInv
<1> QED
  BY <1>1, <1>2, <1>3, PTL DEF Spec

(* Counting on top of the node's own vector clock only raises it. *)
LEMMA CountNeverDrops ==
  ASSUME TypeOK, NEW n \in Node, NEW relay \in Node, NEW r \in Rumor,
         CountRumor(n, want[n], relay, r)
  PROVE  \A m, o \in Node : want'[m][o] >= want[m][o]
<1> DEFINE listed == UpdateStatus(want[n], r.origin)
<1>1. want[n] \in [Node -> Nat] /\ r.origin \in Node
  BY DEF TypeOK, Vector, Rumor
<1>2. listed \in [Node -> Nat] /\ \A o \in Node : listed[o] >= want[n][o]
  BY <1>1 DEF UpdateStatus
<1>3. \/ want' = [want EXCEPT ![n] = [listed EXCEPT ![r.origin] = @ + 1]]
      \/ want' = [want EXCEPT ![n] = listed]
  BY DEF CountRumor
<1>4. ASSUME NEW o \in Node
      PROVE  want'[n][o] >= want[n][o]
  <2>1. CASE want' = [want EXCEPT ![n] = listed]
    BY <1>2, <2>1 DEF TypeOK
  <2>2. CASE want' = [want EXCEPT ![n] = [listed EXCEPT ![r.origin] = @ + 1]]
    <3>1. want'[n] = [listed EXCEPT ![r.origin] = @ + 1]
      BY <2>2 DEF TypeOK
    <3>2. listed[o] \in Nat /\ want[n][o] \in Nat /\ listed[o] >= want[n][o]
      BY <1>1, <1>2
    <3>3. want'[n][o] = listed[o] \/ want'[n][o] = listed[o] + 1
      BY <1>1, <1>2, <3>1
    <3> QED
      BY <3>2, <3>3
  <2> QED
    BY <1>3, <2>1, <2>2
<1>5. \A m \in Node \ {n} : want'[m] = want[m]
  BY <1>3 DEF TypeOK
<1> QED
  BY <1>4, <1>5, Entries

(* Without data races no entry of a vector clock ever drops: a NextID is   *)
(* never handed out twice.                                                 *)
THEOREM ClockNeverDrops ==
  ASSUME DataRaces = FALSE
  PROVE  Spec => NextIDNeverDrops
<1>1. Init => TypeOK /\ LogInv
  BY TypeInit, LogInit
<1>2. (TypeOK /\ LogInv) /\ [Next]_vars => (TypeOK /\ LogInv)'
  BY TypeNext, LogNext
<1>3. TypeOK /\ LogInv /\ [Next]_vars =>
        [\A n, o \in Node : want'[n][o] >= want[n][o]]_want
  <2> SUFFICES ASSUME TypeOK, LogInv, [Next]_vars
               PROVE  (\A n, o \in Node : want'[n][o] >= want[n][o]) \/ want' = want
    OBVIOUS
  <2>1. ASSUME NEW n \in Node, NEW text \in Text, PublishRumor(n, text)
        PROVE  \A m, o \in Node : want'[m][o] >= want[m][o]
    <3>1. want' = [want EXCEPT ![n][n] = @ + 1] /\ want \in [Node -> [Node -> Nat]]
      BY <2>1 DEF PublishRumor, TypeOK, Vector
    <3> QED
      BY <3>1
  <2>2. ASSUME NEW n \in Node, NEW p \in net, RecvRumor(n, p)
        PROVE  \A m, o \in Node : want'[m][o] >= want[m][o]
    <3>1. p.src \in Node /\ p.rumor \in Rumor
      BY <2>2 DEF RecvRumor, TypeOK, RumorPacket, StatusPacket
    <3>2. CountRumor(n, want[n], p.src, p.rumor)
      BY <2>2 DEF RecvRumor
    <3> QED
      BY <3>1, <3>2, CountNeverDrops
  <2>3. ASSUME NEW n \in Node, AssignWant(n)
        PROVE  FALSE
    BY <2>3 DEF AssignWant, LogInv, StoresNext
  <2>4. ASSUME NEW n \in Node,
               \/ \E q \in Node : AddPeer(n, q) \/ AntiEntropy(n, q)
               \/ \E p \in net : RecvStatus(n, p)
               \/ StoreRumor(n) \/ MapRace(n)
               \/ \E t \in tasks[n] : \/ StartMonger(n, t) \/ MongerTimeout(n, t)
                                      \/ SendMissing(n, t) \/ AskOrStop(n, t)
        PROVE  want' = want
    BY <2>4 DEF AddPeer, AntiEntropy, RecvStatus, StoreRumor, MapRace,
                StartMonger, MongerTimeout, SendMissing, AskOrStop
  <2>5. CASE UNCHANGED vars
    BY <2>5 DEF vars
  <2> QED
    BY <2>1, <2>2, <2>3, <2>4, <2>5 DEF Next
<1> QED
  BY <1>1, <1>2, <1>3, PTL DEF Spec, NextIDNeverDrops

-----------------------------------------------------------------------------
(***************************************************************************)
(* The peer table, whose additions Gossip takes as one step, in its own    *)
(* steps.                                                                  *)
(***************************************************************************)
(* Indices are places in the list, and picks will be, whoever writes.      *)
InBounds ==
  /\ Table!TypeOK
  /\ \A a \in Addr : index[a] # NoIndex => index[a] \in 0 .. Len(list) - 1
  /\ \A w \in Table!Writers : writer[w].pc = "index" => Len(list) # 0
  /\ \A w \in Table!Writers : writer[w].pc = "channel" => index[writer[w].addr] # NoIndex
  /\ \A a \in channel : index[a] # NoIndex
  /\ pick.pc = "get" => Len(list) # 0 /\ pick.at \in 0 .. 2 * Len(list) - 1
  /\ pick.pc = "done" => pick.peer # NoIndex

(* Who is there to add peers.                                              *)
Working == {w \in Table!Writers : writer[w] # Table!Off}

WebOff == writer["web"] = Table!Off

(* Every place of an address is the work of another writer, which has not  *)
(* looked for the address again, ...                                       *)
Spots(a) == {i \in DOMAIN list : list[i] = a}

InAppend(w, a) == writer[w].pc = "append" /\ writer[w].addr = a
InIndex(w, a)  == writer[w].pc = "index" /\ writer[w].addr = a

Author(a, f) ==
  /\ f \in [Spots(a) -> Working]
  /\ \A i, j \in Spots(a) : f[i] = f[j] => i = j
  /\ \A i \in Spots(a) : /\ ~InAppend(f[i], a)
                         /\ index[a] = NoIndex => InIndex(f[i], a)

Authored == \A a \in Addr : \E f : Author(a, f)

(* ... and when the packet loop is the only one, there is one place, which *)
(* is the index, and what is being added is not listed yet.                *)
Places ==
  /\ \A i, j \in DOMAIN list : list[i] = list[j] => i = j
  /\ \A a \in Addr : index[a] # NoIndex => index[a] + 1 \in DOMAIN list /\ list[index[a] + 1] = a
  /\ \A i \in DOMAIN list : index[list[i]] = NoIndex => \E w \in Table!Writers : InIndex(w, list[i])

Adding ==
  \A w \in Table!Writers : \A a \in Addr :
    /\ InAppend(w, a) => index[a] = NoIndex /\ \A i \in DOMAIN list : list[i] # a
    /\ InIndex(w, a) => Len(list) # 0 /\ list[Len(list)] = a /\ index[a] = NoIndex

Passed ==
  /\ pick.pc = "get" => /\ index[pick.excluded] # NoIndex
                        /\ \E d \in 1 .. Len(list) - 1 : pick.at = index[pick.excluded] + d
  /\ pick.pc = "done" => pick.peer # pick.excluded

-----------------------------------------------------------------------------
LEMMA Remainder ==
  ASSUME NEW n \in Nat \ {0}, NEW k \in Nat, k < 2 * n
  PROVE  k % n = IF k < n THEN k ELSE k - n
<1>1. CASE k < n
  BY <1>1, Z3
<1>2. CASE k >= n
  BY <1>2, Z3
<1> QED
  BY <1>1, <1>2

LEMMA PeerAtIs ==
  ASSUME Table!TypeOK, NEW k \in Nat, k < 2 * Len(list), Len(list) # 0
  PROVE  LET i == IF k < Len(list) THEN k ELSE k - Len(list)
         IN  i + 1 \in DOMAIN list /\ Table!PeerAt(k) = list[i + 1]
<1>1. Len(list) \in Nat \ {0} /\ DOMAIN list = 1 .. Len(list)
  BY DEF Table!TypeOK
<1>2. k % Len(list) = IF k < Len(list) THEN k ELSE k - Len(list)
  BY <1>1, Remainder
<1> QED
  BY <1>1, <1>2 DEF Table!PeerAt

LEMMA WriterFields ==
  ASSUME Table!TypeOK, NEW w \in Table!Writers, writer[w].pc \notin {"idle", "off"}
  PROVE  writer[w].pc \in {"append", "index", "channel"} /\ writer[w].addr \in Addr
<1>1. PICK k \in Table!Busy : k = writer[w]
  BY DEF Table!TypeOK, Table!Quiet, Table!Off
<1> QED
  BY <1>1 DEF Table!Busy

LEMMA PlaceOf ==
  ASSUME Table!ConstantsOK, Table!Init, NEW a \in Addr
  PROVE  /\ index[a] \in Nat \cup {NoIndex}
         /\ index[a] # NoIndex => index[a] + 1 \in DOMAIN list /\ list[index[a] + 1] = a
         /\ (\E i \in DOMAIN list : list[i] = a) => index[a] # NoIndex
<1>1. list \in Seq(Addr) /\ DOMAIN list = 1 .. Len(list) /\ Len(list) \in Nat /\ NoIndex \notin Nat
  BY DEF Table!ConstantsOK, Table!Init
<1>2. CASE \E i \in DOMAIN list : list[i] = a
  <2>1. PICK k : k = CHOOSE i \in DOMAIN list : list[i] = a
    OBVIOUS
  <2>2. k \in DOMAIN list /\ list[k] = a
    BY <1>2, <2>1
  <2>3. index[a] = k - 1
    BY <1>2, <2>1 DEF Table!Init
  <2> QED
    BY <1>1, <2>2, <2>3
<1>3. CASE ~\E i \in DOMAIN list : list[i] = a
  BY <1>1, <1>3 DEF Table!Init
<1> QED
  BY <1>2, <1>3

(* Before anything runs, nobody is at work.                                *)
LEMMA NobodyWrites ==
  ASSUME Table!Init
  PROVE  /\ \A w \in Table!Writers : writer[w].pc \in {"idle", "off"}
         /\ writer \in [Table!Writers -> {Table!Quiet, Table!Off}] /\ "loop" \in Working
         /\ pick = Table!Quiet /\ pick.pc = "idle"
<1>1. PICK gui \in BOOLEAN :
        writer = [w \in Table!Writers |-> IF w = "web" /\ ~gui THEN Table!Off ELSE Table!Quiet]
  BY DEF Table!Init
<1>2. "loop" \in Table!Writers /\ writer["loop"] = Table!Quiet /\ Table!Quiet # Table!Off
  BY <1>1 DEF Table!Writers, Table!Quiet, Table!Off
<1>3. \A w \in Table!Writers : writer[w] = Table!Quiet \/ writer[w] = Table!Off
  BY <1>1
<1> QED
  BY <1>1, <1>2, <1>3 DEF Table!Init, Table!Quiet, Table!Off, Working

LEMMA BoundsInit ==
  ASSUME Table!ConstantsOK, Table!Init
  PROVE  InBounds
<1>1. /\ list \in Seq(Addr) /\ DOMAIN list = 1 .. Len(list) /\ Len(list) \in Nat
      /\ NoIndex \notin Nat /\ channel = Table!Listed
  BY DEF Table!ConstantsOK, Table!Init
<1>2. \A a \in Addr : index[a] \in Nat \cup {NoIndex}
  BY PlaceOf
<1>3. index \in [Addr -> Nat \cup {NoIndex}]
  <2>1. index = [a \in Addr |-> index[a]]
    BY DEF Table!Init
  <2> QED
    BY <1>2, <2>1
<1>4. channel \subseteq Addr /\ \A a \in channel : index[a] # NoIndex
  BY <1>1, PlaceOf DEF Table!Listed
<1>5. writer \in [Table!Writers -> {Table!Quiet, Table!Off} \cup Table!Busy] /\ pick = Table!Quiet
  BY NobodyWrites
<1>6. Table!TypeOK
  BY <1>1, <1>3, <1>4, <1>5 DEF Table!TypeOK
<1>7. ASSUME NEW a \in Addr, index[a] # NoIndex
      PROVE  index[a] \in 0 .. Len(list) - 1
  BY <1>1, <1>2, <1>7, PlaceOf
<1> QED
  BY <1>4, <1>6, <1>7, NobodyWrites DEF InBounds

LEMMA BoundsNext ==
  ASSUME Table!ConstantsOK, InBounds, Table!Next
  PROVE  InBounds'
<1>1. /\ list \in Seq(Addr) /\ DOMAIN list = 1 .. Len(list) /\ Len(list) \in Nat
      /\ index \in [Addr -> Nat \cup {NoIndex}] /\ NoIndex \notin Nat /\ NoIndex \notin Addr /\ Table!TypeOK
      /\ writer \in [Table!Writers -> {Table!Quiet, Table!Off} \cup Table!Busy] /\ channel \subseteq Addr
  BY DEF InBounds, Table!TypeOK, Table!ConstantsOK
<1>2. pick.pc = "get" => pick.excluded \in Addr
  BY <1>1 DEF Table!TypeOK, Table!Quiet, Table!Picking, Table!Picked
<1>3. ASSUME NEW w \in Table!Writers, NEW a \in Addr, Table!Look(w, a) PROVE InBounds'
  <2>1. PICK k : k = [pc |-> "append", addr |-> a]
    OBVIOUS
  <2>2. k \in Table!Busy /\ k.pc = "append"
    BY <2>1 DEF Table!Busy
  <2>3. writer' = [writer EXCEPT ![w] = k]
        /\ list' = list /\ index' = index /\ channel' = channel /\ pick' = pick
    BY <1>3, <2>1 DEF Table!Look
  <2>4. Table!TypeOK'
    BY <1>1, <2>2, <2>3 DEF Table!TypeOK
  <2> QED
    BY <1>1, <2>2, <2>3, <2>4 DEF InBounds
<1>4. ASSUME NEW w \in Table!Writers, Table!AppendPeer(w) PROVE InBounds'
  <2>1. PICK e \in Table!Busy : e = writer[w]
    BY <1>1, <1>4 DEF Table!AppendPeer, Table!Quiet, Table!Off
  <2>2. PICK a \in Addr : a = e.addr
    BY DEF Table!Busy
  <2>3. PICK k : k = [e EXCEPT !.pc = "index"]
    OBVIOUS
  <2>4. k \in Table!Busy /\ k.pc = "index"
    BY <2>3 DEF Table!Busy
  <2>5. writer' = [writer EXCEPT ![w] = k] /\ list' = Append(list, a)
        /\ index' = index /\ channel' = channel /\ pick' = pick
    BY <1>4, <2>1, <2>2, <2>3 DEF Table!AppendPeer, Table!Busy
  <2>6. list' \in Seq(Addr) /\ Len(list') = Len(list) + 1
    BY <1>1, <2>5
  <2>7. Table!TypeOK'
    BY <1>1, <2>4, <2>5, <2>6 DEF Table!TypeOK
  <2>8. \A b \in Addr : index[b] # NoIndex => index'[b] \in 0 .. Len(list') - 1
    BY <1>1, <2>5, <2>6 DEF InBounds
  <2>9. \A v \in Table!Writers :
          /\ Len(list') # 0
          /\ writer'[v].pc = "channel" => index'[writer'[v].addr] # NoIndex
    BY <1>1, <2>4, <2>5, <2>6 DEF InBounds
  <2>10. pick'.pc = "get" => Len(list') # 0 /\ pick'.at \in 0 .. 2 * Len(list') - 1
    BY <1>1, <2>5, <2>6 DEF InBounds
  <2> QED
    BY <2>5, <2>7, <2>8, <2>9, <2>10 DEF InBounds
<1>5. ASSUME NEW w \in Table!Writers, Table!SetIndex(w) PROVE InBounds'
  <2>1. PICK e \in Table!Busy : e = writer[w] /\ e.pc = "index"
    BY <1>1, <1>5 DEF Table!SetIndex, Table!Quiet, Table!Off
  <2>2. PICK a \in Addr : a = e.addr
    BY DEF Table!Busy
  <2>3. PICK k : k = [e EXCEPT !.pc = "channel"]
    OBVIOUS
  <2>4. k \in Table!Busy /\ k.pc = "channel" /\ k.addr = a
    BY <2>2, <2>3 DEF Table!Busy
  <2>5. writer' = [writer EXCEPT ![w] = k] /\ index' = [index EXCEPT ![a] = Len(list) - 1]
        /\ list' = list /\ channel' = channel /\ pick' = pick
    BY <1>5, <2>1, <2>2, <2>3 DEF Table!SetIndex, Table!Busy
  <2>6. Len(list) # 0
    BY <2>1 DEF InBounds
  <2>7. index'[a] = Len(list) - 1 /\ index'[a] # NoIndex /\ \A b \in Addr \ {a} : index'[b] = index[b]
    BY <1>1, <2>5, <2>6
  <2>8. Table!TypeOK'
    BY <1>1, <2>4, <2>5, <2>6 DEF Table!TypeOK
  <2>9. \A b \in Addr : index'[b] # NoIndex => index'[b] \in 0 .. Len(list') - 1
    BY <1>1, <2>5, <2>6, <2>7 DEF InBounds
  <2>10. ASSUME NEW v \in Table!Writers
         PROVE  /\ writer'[v].pc = "index" => Len(list') # 0
                /\ writer'[v].pc = "channel" => index'[writer'[v].addr] # NoIndex
    <3>1. CASE v = w
      BY <1>1, <2>4, <2>5, <2>6, <2>7, <3>1
    <3>2. CASE v # w
      <4>1. writer'[v] = writer[v]
        BY <1>1, <2>5, <3>2
      <4>2. writer[v].pc = "channel" => writer[v].addr \in Addr
        BY <1>1, WriterFields
      <4> QED
        BY <2>5, <2>6, <2>7, <4>1, <4>2 DEF InBounds
    <3> QED
      BY <3>1, <3>2
  <2>11. \A b \in channel' : index'[b] # NoIndex
    BY <1>1, <2>5, <2>7 DEF InBounds
  <2> QED
    BY <2>5, <2>8, <2>9, <2>10, <2>11 DEF InBounds
<1>6. ASSUME NEW w \in Table!Writers, Table!MakeChannel(w) PROVE InBounds'
  <2>1. PICK e \in Table!Busy : e = writer[w] /\ e.pc = "channel"
    BY <1>1, <1>6 DEF Table!MakeChannel, Table!Quiet, Table!Off
  <2>2. PICK a \in Addr : a = e.addr
    BY DEF Table!Busy
  <2>3. writer' = [writer EXCEPT ![w] = Table!Quiet] /\ channel' = channel \cup {a}
        /\ list' = list /\ index' = index /\ pick' = pick
    BY <1>6, <2>1, <2>2 DEF Table!MakeChannel
  <2>4. index[a] # NoIndex
    BY <2>1, <2>2 DEF InBounds
  <2>5. Table!TypeOK'
    BY <1>1, <2>2, <2>3 DEF Table!TypeOK
  <2> QED
    BY <1>1, <2>3, <2>4, <2>5 DEF InBounds, Table!Quiet
<1>7. ASSUME NEW a \in Addr, Table!StartPick(a) PROVE InBounds'
  <2>1. PICK d \in Table!Distances : pick' = [pc |-> "get", excluded |-> a, at |-> index[a] + d]
    BY <1>7 DEF Table!StartPick
  <2>2. d \in 1 .. Len(list) - 1
    BY DEF Table!Distances
  <2>3. list' = list /\ index' = index /\ channel' = channel /\ writer' = writer /\ a \in channel
    BY <1>7 DEF Table!StartPick
  <2>4. index[a] \in 0 .. Len(list) - 1
    BY <2>3 DEF InBounds
  <2>5. PICK k \in 0 .. 2 * Len(list) - 1 : k = index[a] + d
    BY <1>1, <2>2, <2>4
  <2>6. pick' \in Table!Picking /\ pick'.pc = "get" /\ pick'.at = k
    BY <2>1, <2>5 DEF Table!Picking
  <2>7. Table!TypeOK'
    BY <1>1, <2>3, <2>6 DEF Table!TypeOK
  <2>8. Len(list) # 0
    BY <1>1, <2>2
  <2> QED
    BY <2>3, <2>5, <2>6, <2>7, <2>8 DEF InBounds
<1>8. ASSUME Table!FinishPick PROVE InBounds'
  <2>1. PICK p \in Table!Picking : p = pick /\ pick.pc = "get"
    BY <1>1, <1>8 DEF Table!FinishPick, Table!TypeOK, Table!Quiet, Table!Picked
  <2>2. p.at \in Nat /\ p.at < 2 * Len(list) /\ Len(list) # 0
    BY <1>1, <2>1 DEF InBounds
  <2>3. Table!PeerAt(p.at) \in Addr
    BY <1>1, <2>2, PeerAtIs
  <2>4. list' = list /\ index' = index /\ channel' = channel /\ writer' = writer
        /\ pick' = [pc |-> "done", excluded |-> p.excluded, peer |-> Table!PeerAt(p.at)]
    BY <1>8, <2>1 DEF Table!FinishPick
  <2>5. pick' \in Table!Picked /\ pick'.pc = "done" /\ pick'.peer # NoIndex
    BY <1>1, <2>3, <2>4 DEF Table!Picked, Table!Picking
  <2>6. Table!TypeOK'
    BY <1>1, <2>4, <2>5 DEF Table!TypeOK
  <2> QED
    BY <2>4, <2>5, <2>6 DEF InBounds
<1>9. ASSUME Table!NextPick PROVE InBounds'
  <2>1. list' = list /\ index' = index /\ channel' = channel /\ writer' = writer
        /\ pick' = Table!Quiet /\ pick'.pc = "idle"
    BY <1>9 DEF Table!NextPick, Table!Quiet
  <2>2. Table!TypeOK'
    BY <1>1, <2>1 DEF Table!TypeOK
  <2> QED
    BY <2>1, <2>2 DEF InBounds
<1> QED
  BY <1>3, <1>4, <1>5, <1>6, <1>7, <1>8, <1>9, Zenon DEF Table!Next

-----------------------------------------------------------------------------
(* Who listed what.                                                        *)
LEMMA AuthorsInit ==
  ASSUME Table!ConstantsOK, Table!Init
  PROVE  Authored
<1>1. PICK w \in Working : TRUE
  BY NobodyWrites
<1>2. \A i, j \in DOMAIN list : list[i] = list[j] => i = j
  BY DEF Table!ConstantsOK, Table!Init
<1>3. ASSUME NEW a \in Addr
      PROVE  Author(a, [i \in Spots(a) |-> w])
  BY <1>2, NobodyWrites, PlaceOf DEF Author, Spots, InAppend, Working
<1> QED
  BY <1>3 DEF Authored

(* Nobody begins or ends to be there.                                      *)
LEMMA WorkingSame ==
  ASSUME Table!TypeOK, Table!Next
  PROVE  Working' = Working
<1>1. writer \in [Table!Writers -> {Table!Quiet, Table!Off} \cup Table!Busy]
  BY DEF Table!TypeOK
<1>2. ASSUME NEW w \in Table!Writers, NEW k, writer' = [writer EXCEPT ![w] = k],
             writer[w] # Table!Off, k # Table!Off
      PROVE  Working' = Working
  BY <1>1, <1>2 DEF Working
<1>3. ASSUME NEW w \in Table!Writers, NEW a \in Addr, Table!Look(w, a) PROVE Working' = Working
  <2>1. PICK k : k = [pc |-> "append", addr |-> a]
    OBVIOUS
  <2>2. k # Table!Off /\ writer[w] # Table!Off /\ writer' = [writer EXCEPT ![w] = k]
    BY <1>3, <2>1 DEF Table!Look, Table!Quiet, Table!Off
  <2> QED
    BY <1>2, <2>2
<1>4. ASSUME NEW w \in Table!Writers, Table!AppendPeer(w) \/ Table!SetIndex(w)
      PROVE  Working' = Working
  <2>1. PICK e \in Table!Busy : e = writer[w]
    BY <1>1, <1>4 DEF Table!AppendPeer, Table!SetIndex, Table!Quiet, Table!Off
  <2>2. PICK k : k \in {[e EXCEPT !.pc = "index"], [e EXCEPT !.pc = "channel"]}
                /\ writer' = [writer EXCEPT ![w] = k]
    BY <1>4, <2>1 DEF Table!AppendPeer, Table!SetIndex
  <2>3. e.pc # "off" /\ k.pc # "off"
    BY <2>2 DEF Table!Busy
  <2>4. e # Table!Off /\ k # Table!Off
    BY <2>3 DEF Table!Off
  <2> QED
    BY <1>2, <2>1, <2>2, <2>4
<1>5. ASSUME NEW w \in Table!Writers, Table!MakeChannel(w) PROVE Working' = Working
  <2>1. writer[w] # Table!Off /\ Table!Quiet # Table!Off /\ writer' = [writer EXCEPT ![w] = Table!Quiet]
    BY <1>5 DEF Table!MakeChannel, Table!Quiet, Table!Off
  <2> QED
    BY <1>2, <2>1
<1>6. ASSUME writer' = writer PROVE Working' = Working
  BY <1>6 DEF Working
<1>7. ASSUME NEW a \in Addr, Table!StartPick(a) PROVE Working' = Working
  BY <1>6, <1>7 DEF Table!StartPick
<1>8. ASSUME Table!FinishPick \/ Table!NextPick PROVE Working' = Working
  BY <1>6, <1>8 DEF Table!FinishPick, Table!NextPick
<1> QED
  BY <1>3, <1>4, <1>5, <1>7, <1>8, Zenon DEF Table!Next

(* A step that lists nothing leaves the authors as they are.               *)
LEMMA AuthorsStay ==
  ASSUME Authored, list' = list, Working' = Working,
         \A w \in Table!Writers : \A a \in Addr :
           /\ InAppend(w, a)' => InAppend(w, a) \/ (index[a] = NoIndex /\ ~InIndex(w, a))
           /\ index'[a] = NoIndex => index[a] = NoIndex /\ (InIndex(w, a) => InIndex(w, a)')
  PROVE  Authored'
<1>1. ASSUME NEW a \in Addr
      PROVE  \E f : Author(a, f)'
  <2>1. PICK f : Author(a, f)
    BY DEF Authored
  <2>2. Spots(a)' = Spots(a) /\ \A i \in Spots(a) : f[i] \in Working /\ f[i] \in Table!Writers
    BY <2>1 DEF Spots, Author, Working
  <2>3. Author(a, f)'
    BY <2>1, <2>2 DEF Author
  <2> QED
    BY <2>3
<1> QED
  BY <1>1 DEF Authored

LEMMA AuthorsNext ==
  ASSUME Table!ConstantsOK, InBounds, Authored, Table!Next
  PROVE  Authored'
<1>1. /\ list \in Seq(Addr) /\ DOMAIN list = 1 .. Len(list) /\ Len(list) \in Nat
      /\ index \in [Addr -> Nat \cup {NoIndex}] /\ NoIndex \notin Nat /\ Table!TypeOK
      /\ writer \in [Table!Writers -> {Table!Quiet, Table!Off} \cup Table!Busy]
  BY DEF InBounds, Table!TypeOK, Table!ConstantsOK
<1>0. Working' = Working
  BY <1>1, WorkingSame
<1>2. ASSUME NEW w \in Table!Writers, NEW a \in Addr, Table!Look(w, a) PROVE Authored'
  <2>1. PICK k : k = [pc |-> "append", addr |-> a]
    OBVIOUS
  <2>2. k.pc = "append" /\ k.addr = a
    BY <2>1
  <2>3. writer' = [writer EXCEPT ![w] = k] /\ writer[w].pc = "idle" /\ index[a] = NoIndex
        /\ list' = list /\ index' = index
    BY <1>2, <2>1 DEF Table!Look, Table!Contained, Table!Quiet
  <2>4. writer'[w] = k /\ \A v \in Table!Writers : v = w \/ writer'[v] = writer[v]
    BY <1>1, <2>3
  <2> QED
    BY <2>2, <2>3, <2>4, <1>0, AuthorsStay DEF InAppend, InIndex
<1>3. ASSUME NEW w \in Table!Writers, Table!AppendPeer(w) PROVE Authored'
  <2>1. PICK e \in Table!Busy : e = writer[w] /\ e.pc = "append"
    BY <1>1, <1>3 DEF Table!AppendPeer, Table!Quiet, Table!Off
  <2>2. PICK a \in Addr : a = e.addr
    BY DEF Table!Busy
  <2>3. PICK k : k = [e EXCEPT !.pc = "index"]
    OBVIOUS
  <2>4. k.pc = "index" /\ k.addr = a
    BY <2>2, <2>3 DEF Table!Busy
  <2>5. writer' = [writer EXCEPT ![w] = k] /\ list' = Append(list, a) /\ index' = index
    BY <1>3, <2>1, <2>2, <2>3 DEF Table!AppendPeer, Table!Busy
  <2>6. /\ DOMAIN list' = 1 .. Len(list) + 1
        /\ list'[Len(list) + 1] = a /\ \A i \in 1 .. Len(list) : list'[i] = list[i]
    BY <1>1, <2>5
  <2>7. writer'[w] = k /\ \A v \in Table!Writers : v = w \/ writer'[v] = writer[v]
    BY <1>1, <2>5
  <2>8. PICK l : l = Len(list) + 1
    OBVIOUS
  <2>9. Spots(a)' = Spots(a) \cup {l} /\ l \notin Spots(a)
    BY <1>1, <2>6, <2>8 DEF Spots
  <2>10. \A b \in Addr \ {a} : Spots(b)' = Spots(b)
    BY <1>1, <2>6 DEF Spots
  <2>11. /\ InAppend(w, a) /\ ~InAppend(w, a)' /\ InIndex(w, a)'
         /\ \A v \in Table!Writers : \A b \in Addr :
              /\ InAppend(v, b)' => InAppend(v, b)
              /\ InIndex(v, b) => InIndex(v, b)'
    BY <2>1, <2>2, <2>4, <2>7 DEF InAppend, InIndex
  <2>12. ASSUME NEW b \in Addr \ {a}
         PROVE  \E f : Author(b, f)'
    <3>1. PICK f : Author(b, f)
      BY DEF Authored
    <3>2. Author(b, f)'
      <4>1. \A i \in Spots(b) : f[i] \in Table!Writers
        BY <3>1 DEF Author, Working
      <4> QED
        BY <1>0, <2>5, <2>10, <2>11, <3>1, <4>1 DEF Author
    <3> QED
      BY <3>2
  <2>13. \E f : Author(a, f)'
    <3>1. PICK f : Author(a, f)
      BY DEF Authored
    <3>2. PICK g : g = [i \in Spots(a)' |-> IF i = l THEN w ELSE f[i]]
      OBVIOUS
    <3>3. g[l] = w /\ \A i \in Spots(a) : g[i] = f[i] /\ f[i] \in Working /\ f[i] \in Table!Writers /\ f[i] # w
      BY <2>9, <2>11, <3>1, <3>2 DEF Author, Working
    <3>4. g \in [Spots(a)' -> Working'] /\ w \in Working
      <4>1. w \in Working
        BY <2>1, <2>11 DEF Working, InAppend, Table!Off
      <4> QED
        BY <1>0, <2>9, <3>2, <3>3, <4>1
    <3>5. \A i, j \in Spots(a)' : g[i] = g[j] => i = j
      BY <2>9, <3>1, <3>3 DEF Author
    <3>6. \A i \in Spots(a)' : /\ ~InAppend(g[i], a)'
                               /\ index'[a] = NoIndex => InIndex(g[i], a)'
      BY <2>5, <2>9, <2>11, <3>1, <3>3 DEF Author
    <3>7. Author(a, g)'
      BY <3>4, <3>5, <3>6 DEF Author
    <3> QED
      BY <3>7
  <2> QED
    BY <2>12, <2>13 DEF Authored
<1>4. ASSUME NEW w \in Table!Writers, Table!SetIndex(w) PROVE Authored'
  <2>1. PICK e \in Table!Busy : e = writer[w] /\ e.pc = "index"
    BY <1>1, <1>4 DEF Table!SetIndex, Table!Quiet, Table!Off
  <2>2. PICK a \in Addr : a = e.addr
    BY DEF Table!Busy
  <2>3. PICK k : k = [e EXCEPT !.pc = "channel"]
    OBVIOUS
  <2>4. k.pc = "channel"
    BY <2>3 DEF Table!Busy
  <2>5. writer' = [writer EXCEPT ![w] = k] /\ index' = [index EXCEPT ![a] = Len(list) - 1]
        /\ list' = list
    BY <1>4, <2>1, <2>2, <2>3 DEF Table!SetIndex, Table!Busy
  <2>6. Len(list) # 0
    BY <2>1 DEF InBounds
  <2>7. index'[a] # NoIndex /\ \A b \in Addr \ {a} : index'[b] = index[b]
    BY <1>1, <2>5, <2>6
  <2>8. writer'[w] = k /\ \A v \in Table!Writers : v = w \/ writer'[v] = writer[v]
    BY <1>1, <2>5
  <2>9. \A v \in Table!Writers : \A b \in Addr :
          /\ InAppend(v, b)' => InAppend(v, b)
          /\ InIndex(v, b) /\ b # a => InIndex(v, b)'
    BY <2>1, <2>2, <2>4, <2>8 DEF InAppend, InIndex
  <2> QED
    BY <2>5, <2>7, <2>9, <1>0, AuthorsStay
<1>5. ASSUME NEW w \in Table!Writers, Table!MakeChannel(w) PROVE Authored'
  <2>1. writer' = [writer EXCEPT ![w] = Table!Quiet] /\ writer[w].pc = "channel"
        /\ list' = list /\ index' = index
    BY <1>5 DEF Table!MakeChannel
  <2>2. writer'[w].pc = "idle" /\ \A v \in Table!Writers : v = w \/ writer'[v] = writer[v]
    BY <1>1, <2>1 DEF Table!Quiet
  <2> QED
    BY <2>1, <2>2, <1>0, AuthorsStay DEF InAppend, InIndex
<1>6. ASSUME NEW a \in Addr, Table!StartPick(a) PROVE Authored'
  BY <1>6, <1>0, AuthorsStay DEF Table!StartPick, InAppend, InIndex
<1>7. ASSUME Table!FinishPick \/ Table!NextPick PROVE Authored'
  BY <1>7, <1>0, AuthorsStay DEF Table!FinishPick, Table!NextPick, InAppend, InIndex
<1> QED
  BY <1>2, <1>3, <1>4, <1>5, <1>6, <1>7, Zenon DEF Table!Next

-----------------------------------------------------------------------------
(* One writer.                                                             *)
InPlace == Places /\ Adding /\ Passed

LEMMA PlacesInit ==
  ASSUME Table!ConstantsOK, Table!Init
  PROVE  InPlace
<1>1. /\ \A i, j \in DOMAIN list : list[i] = list[j] => i = j
      /\ \A i \in DOMAIN list : list[i] \in Addr
  BY DEF Table!ConstantsOK, Table!Init
<1>2. Places
  BY <1>1, PlaceOf DEF Places
<1> QED
  BY <1>2, NobodyWrites DEF InPlace, Adding, Passed, InAppend, InIndex

LEMMA OthersOff ==
  ASSUME WebOff, NEW w \in Table!Writers, writer[w].pc # "off"
  PROVE  \A v \in Table!Writers : v = w \/ (v = "web" /\ writer[v].pc = "off")
  BY DEF WebOff, Table!Writers, Table!Off

LEMMA PlacesNext ==
  ASSUME Table!ConstantsOK, WebOff, InBounds, InPlace, Table!Next
  PROVE  InPlace'
<1>1. /\ list \in Seq(Addr) /\ DOMAIN list = 1 .. Len(list) /\ Len(list) \in Nat
      /\ index \in [Addr -> Nat \cup {NoIndex}] /\ NoIndex \notin Nat /\ Table!TypeOK
      /\ writer \in [Table!Writers -> {Table!Quiet, Table!Off} \cup Table!Busy]
      /\ Places /\ Adding /\ Passed /\ \A i \in DOMAIN list : list[i] \in Addr
  BY DEF InBounds, InPlace, Table!TypeOK, Table!ConstantsOK
<1>2. ASSUME NEW w \in Table!Writers, NEW a \in Addr, Table!Look(w, a) PROVE InPlace'
  <2>1. PICK k : k = [pc |-> "append", addr |-> a]
    OBVIOUS
  <2>2. k.pc = "append" /\ k.addr = a
    BY <2>1
  <2>3. writer' = [writer EXCEPT ![w] = k] /\ index[a] = NoIndex /\ writer[w].pc = "idle"
        /\ list' = list /\ index' = index /\ pick' = pick
    BY <1>2, <2>1 DEF Table!Look, Table!Contained, Table!Quiet
  <2>4. writer'[w] = k /\ \A v \in Table!Writers : v = w \/ (writer[v].pc = "off" /\ writer'[v].pc = "off")
    BY <1>1, <2>3, OthersOff
  <2>5. \A i \in DOMAIN list : index[list[i]] # NoIndex
    BY <1>1, <2>3, <2>4 DEF Places, InIndex
  <2>6. Places'
    BY <1>1, <2>3, <2>5 DEF Places
  <2>7. Adding'
    BY <2>2, <2>3, <2>4, <2>5 DEF Adding, InAppend, InIndex
  <2> QED
    BY <1>1, <2>3, <2>6, <2>7 DEF InPlace, Passed
<1>3. ASSUME NEW w \in Table!Writers, Table!AppendPeer(w) PROVE InPlace'
  <2>1. PICK e \in Table!Busy : e = writer[w] /\ e.pc = "append"
    BY <1>1, <1>3 DEF Table!AppendPeer, Table!Quiet, Table!Off
  <2>2. PICK a \in Addr : a = e.addr
    BY DEF Table!Busy
  <2>3. PICK k : k = [e EXCEPT !.pc = "index"]
    OBVIOUS
  <2>4. k.pc = "index" /\ k.addr = a
    BY <2>2, <2>3 DEF Table!Busy
  <2>5. writer' = [writer EXCEPT ![w] = k] /\ list' = Append(list, a)
        /\ index' = index /\ pick' = pick
    BY <1>3, <2>1, <2>2, <2>3 DEF Table!AppendPeer, Table!Busy
  <2>6. /\ DOMAIN list' = 1 .. Len(list) + 1 /\ Len(list') = Len(list) + 1
        /\ list'[Len(list) + 1] = a /\ \A i \in 1 .. Len(list) : list'[i] = list[i]
    BY <1>1, <2>5
  <2>7. writer'[w] = k /\ \A v \in Table!Writers : v = w \/ (writer[v].pc = "off" /\ writer'[v].pc = "off")
    BY <1>1, <2>1, <2>5, OthersOff
  <2>8. index[a] = NoIndex /\ \A i \in DOMAIN list : list[i] # a
    BY <1>1, <2>1, <2>2 DEF Adding, InAppend
  <2>9. \A i \in DOMAIN list : index[list[i]] # NoIndex
    BY <1>1, <2>1, <2>7 DEF Places, InIndex
  <2>10. Places'
    <3>1. \A i, j \in DOMAIN list' : list'[i] = list'[j] => i = j
      BY <1>1, <2>6, <2>8 DEF Places
    <3>2. \A b \in Addr : index'[b] # NoIndex => index'[b] + 1 \in DOMAIN list' /\ list'[index'[b] + 1] = b
      BY <1>1, <2>5, <2>6 DEF Places
    <3>3. \A i \in DOMAIN list' : index'[list'[i]] = NoIndex => \E v \in Table!Writers : InIndex(v, list[i])'
      BY <1>1, <2>4, <2>5, <2>6, <2>7, <2>9 DEF InIndex
    <3> QED
      BY <3>1, <3>2, <3>3 DEF Places
  <2>11. Adding'
    BY <1>1, <2>4, <2>5, <2>6, <2>7, <2>8 DEF Adding, InAppend, InIndex
  <2>12. Passed'
    BY <1>1, <2>5, <2>6 DEF Passed
  <2> QED
    BY <2>10, <2>11, <2>12 DEF InPlace
<1>4. ASSUME NEW w \in Table!Writers, Table!SetIndex(w) PROVE InPlace'
  <2>1. PICK e \in Table!Busy : e = writer[w] /\ e.pc = "index"
    BY <1>1, <1>4 DEF Table!SetIndex, Table!Quiet, Table!Off
  <2>2. PICK a \in Addr : a = e.addr
    BY DEF Table!Busy
  <2>3. PICK k : k = [e EXCEPT !.pc = "channel"]
    OBVIOUS
  <2>4. k.pc = "channel"
    BY <2>3 DEF Table!Busy
  <2>5. writer' = [writer EXCEPT ![w] = k] /\ index' = [index EXCEPT ![a] = Len(list) - 1]
        /\ list' = list /\ pick' = pick
    BY <1>4, <2>1, <2>2, <2>3 DEF Table!SetIndex, Table!Busy
  <2>6. Len(list) # 0 /\ list[Len(list)] = a /\ index[a] = NoIndex
    BY <1>1, <2>1, <2>2 DEF Adding, InIndex
  <2>7. index'[a] = Len(list) - 1 /\ \A b \in Addr \ {a} : index'[b] = index[b]
    BY <1>1, <2>5
  <2>8. writer'[w] = k /\ \A v \in Table!Writers : v = w \/ (writer[v].pc = "off" /\ writer'[v].pc = "off")
    BY <1>1, <2>1, <2>5, OthersOff
  <2>9. Places'
    <3>1. \A b \in Addr : index'[b] # NoIndex => index'[b] + 1 \in DOMAIN list' /\ list'[index'[b] + 1] = b
      BY <1>1, <2>5, <2>6, <2>7 DEF Places
    <3>2. \A i \in DOMAIN list : index'[list[i]] # NoIndex
      BY <1>1, <2>1, <2>2, <2>6, <2>7, <2>8 DEF Places, InIndex
    <3> QED
      BY <1>1, <2>5, <3>1, <3>2 DEF Places
  <2>10. Adding'
    BY <2>4, <2>8 DEF Adding, InAppend, InIndex
  <2>11. Passed'
    <3>1. \A b \in Addr : index[b] # NoIndex => index'[b] = index[b]
      BY <2>6, <2>7
    <3>2. pick.pc = "get" => pick.excluded \in Addr
      BY <1>1 DEF Table!TypeOK, Table!Quiet, Table!Picking, Table!Picked
    <3> QED
      BY <1>1, <2>5, <3>1, <3>2 DEF Passed
  <2> QED
    BY <2>9, <2>10, <2>11 DEF InPlace
<1>5. ASSUME NEW w \in Table!Writers, Table!MakeChannel(w) PROVE InPlace'
  <2>1. writer' = [writer EXCEPT ![w] = Table!Quiet] /\ writer[w].pc = "channel"
        /\ list' = list /\ index' = index /\ pick' = pick
    BY <1>5 DEF Table!MakeChannel
  <2>2. writer'[w].pc = "idle" /\ \A v \in Table!Writers : v = w \/ (writer[v].pc = "off" /\ writer'[v].pc = "off")
    BY <1>1, <2>1, OthersOff DEF Table!Quiet
  <2>3. Places'
    BY <1>1, <2>1, <2>2 DEF Places, InIndex
  <2> QED
    BY <1>1, <2>1, <2>2, <2>3 DEF InPlace, Adding, Passed, InAppend, InIndex
<1>6. ASSUME NEW a \in Addr, Table!StartPick(a) PROVE InPlace'
  <2>1. PICK d \in Table!Distances : pick' = [pc |-> "get", excluded |-> a, at |-> index[a] + d]
    BY <1>6 DEF Table!StartPick
  <2>2. d \in 1 .. Len(list) - 1
    BY DEF Table!Distances
  <2>3. list' = list /\ index' = index /\ writer' = writer /\ a \in channel
    BY <1>6 DEF Table!StartPick
  <2>4. index[a] # NoIndex
    BY <2>3 DEF InBounds
  <2>5. pick'.pc = "get" /\ pick'.excluded = a /\ pick'.at = index[a] + d
    BY <2>1
  <2>6. Passed'
    BY <2>2, <2>3, <2>4, <2>5 DEF Passed
  <2> QED
    BY <1>1, <2>3, <2>6 DEF InPlace, Places, Adding, InAppend, InIndex
<1>7. ASSUME Table!FinishPick PROVE InPlace'
  <2>1. PICK p \in Table!Picking : p = pick /\ pick.pc = "get"
    BY <1>1, <1>7 DEF Table!FinishPick, Table!TypeOK, Table!Quiet, Table!Picked
  <2>2. PICK a \in Addr : a = p.excluded
    BY DEF Table!Picking
  <2>3. PICK d \in 1 .. Len(list) - 1 : p.at = index[a] + d /\ index[a] # NoIndex
    BY <1>1, <2>1, <2>2 DEF Passed
  <2>4. PICK x \in Nat : x = index[a] /\ x + 1 \in DOMAIN list /\ list[x + 1] = a
    BY <1>1, <2>3 DEF Places
  <2>5. x + d \in Nat /\ x + d < 2 * Len(list) /\ Len(list) # 0
    BY <1>1, <2>3, <2>4
  <2>6. PICK i \in Int : i = IF x + d < Len(list) THEN x + d ELSE x + d - Len(list)
    BY <1>1, <2>3, <2>4
  <2>7. i # x
    BY <1>1, <2>3, <2>4, <2>6
  <2>8. i + 1 \in DOMAIN list /\ Table!PeerAt(x + d) = list[i + 1]
    BY <1>1, <2>5, <2>6, PeerAtIs
  <2>9. list[i + 1] # a
    BY <1>1, <2>4, <2>6, <2>7, <2>8 DEF Places
  <2>10. pick' = [pc |-> "done", excluded |-> a, peer |-> list[i + 1]]
         /\ list' = list /\ index' = index /\ writer' = writer
    BY <1>7, <2>1, <2>2, <2>3, <2>4, <2>8 DEF Table!FinishPick
  <2>11. Passed'
    BY <2>9, <2>10 DEF Passed
  <2> QED
    BY <1>1, <2>10, <2>11 DEF InPlace, Places, Adding, InAppend, InIndex
<1>8. ASSUME Table!NextPick PROVE InPlace'
  <2>1. list' = list /\ index' = index /\ writer' = writer /\ pick'.pc = "idle"
    BY <1>8 DEF Table!NextPick, Table!Quiet
  <2> QED
    BY <1>1, <2>1 DEF InPlace, Places, Adding, Passed, InAppend, InIndex
<1> QED
  BY <1>2, <1>3, <1>4, <1>5, <1>6, <1>7, <1>8, Zenon DEF Table!Next

-----------------------------------------------------------------------------
LEMMA TableCounts == \A S : Table!Cardinality(S) = Cardinality(S)
  BY Zenon DEF Table!Cardinality, Table!IsFiniteSet, Cardinality, IsFiniteSet

LEMMA BoundsHold ==
  ASSUME InBounds, Authored
  PROVE  Table!TableInBounds
<1>1. ASSUME NEW a \in Addr
      PROVE  Cardinality(Spots(a)) <= Cardinality(Working)
  <2>1. PICK f : Author(a, f)
    BY DEF Authored
  <2>2. PICK S, T : S = Spots(a) /\ T = Working
    OBVIOUS
  <2>3. f \in Injection(S, T)
    BY <2>1, <2>2 DEF Author, Injection, IsInjective
  <2>4. IsFiniteSet(T)
    <3>1. IsFiniteSet({"loop"}) /\ {"loop", "web"} = {"loop"} \cup {"web"}
      BY FS_Singleton
    <3>2. IsFiniteSet({"loop", "web"})
      BY <3>1, FS_AddElement
    <3>3. T \subseteq {"loop", "web"}
      BY <2>2 DEF Working, Table!Writers
    <3> QED
      BY <3>2, <3>3, FS_Subset
  <2> QED
    BY <2>2, <2>3, <2>4, FS_Injection
<1>2. /\ \A a \in Addr : Spots(a) = {i \in DOMAIN list : list[i] = a}
      /\ Working = {w \in Table!Writers : writer[w] # Table!Off}
  BY DEF Spots, Working
<1> QED
  BY <1>1, <1>2, TableCounts DEF InBounds, Table!TableInBounds

LEMMA OrderHolds ==
  ASSUME InBounds, WebOff => InPlace
  PROVE  Table!TableInOrder
<1>1. ASSUME InPlace, NEW a \in Addr, index[a] # NoIndex
      PROVE  Table!PeerAt(index[a]) = a
  <2>1. PICK x \in Nat : x = index[a] /\ x + 1 \in DOMAIN list /\ list[x + 1] = a
    BY <1>1 DEF InBounds, InPlace, Places, Table!TypeOK
  <2>2. Len(list) \in Nat /\ DOMAIN list = 1 .. Len(list) /\ Table!TypeOK
    BY DEF InBounds, Table!TypeOK
  <2>3. x < Len(list) /\ x < 2 * Len(list) /\ Len(list) # 0
    BY <2>1, <2>2
  <2> QED
    BY <2>1, <2>2, <2>3, PeerAtIs
<1> QED
  BY <1>1 DEF InPlace, Places, Passed, WebOff, Table!TableInOrder

LEMMA PeersNext ==
  ASSUME Table!ConstantsOK, InBounds, Authored, WebOff => InPlace, [Table!Next]_Table!vars
  PROVE  InBounds' /\ Authored' /\ (WebOff => InPlace)'
<1>1. ASSUME UNCHANGED Table!vars PROVE InBounds' /\ Authored' /\ (WebOff => InPlace)'
  <2>1. InBounds'
    BY <1>1 DEF Table!vars, InBounds, Table!TypeOK
  <2>2. Authored'
    BY <1>1, AuthorsStay DEF Table!vars, InAppend, InIndex, Working
  <2>3. (WebOff => InPlace)'
    BY <1>1 DEF Table!vars, WebOff, InPlace, Places, Adding, Passed, InAppend, InIndex
  <2> QED
    BY <2>1, <2>2, <2>3
<1>2. ASSUME Table!Next PROVE InBounds' /\ Authored' /\ (WebOff => InPlace)'
  <2>1. WebOff' => WebOff
    BY <1>2, WorkingSame DEF InBounds, WebOff, Working, Table!Writers
  <2> QED
    BY <1>2, <2>1, BoundsNext, AuthorsNext, PlacesNext
<1> QED
  BY <1>1, <1>2

(* Without the web page the index of a peer is its place, no peer is       *)
(* listed twice, and no pick gives back the peer that it is to exclude,    *)
(* however the list grows meanwhile (main.go:148, 446).  And however the   *)
(* additions of packet loop and web page overlap, indices and picks stay   *)
(* in the list, and nobody is listed more often than there are writers     *)
(* (main.go:149, gui.go:154).                                              *)
THEOREM PeerTableInOrder ==
  ASSUME Table!ConstantsOK
  PROVE  Table!Spec => []PeersInOrder
<1>1. Table!Init => InBounds /\ Authored /\ (WebOff => InPlace)
  BY BoundsInit, AuthorsInit, PlacesInit
<1>2. InBounds /\ Authored /\ (WebOff => InPlace) /\ [Table!Next]_Table!vars
      => InBounds' /\ Authored' /\ (WebOff => InPlace)'
  BY PeersNext
<1>3. InBounds /\ Authored /\ (WebOff => InPlace) => PeersInOrder
  BY BoundsHold, OrderHolds DEF PeersInOrder
<1> QED
  BY <1>1, <1>2, <1>3, PTL DEF Table!Spec
=============================================================================
