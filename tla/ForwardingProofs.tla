-------------------------- MODULE ForwardingProofs --------------------------
(***************************************************************************)
(* Proofs about Forwarding, for every network: packets are never stranded  *)
(* and come back to a node only under news.  The invariant says of the     *)
(* tables what GossipProofs proves of them, and of each trail that the     *)
(* routes ahead of its end avoid what lies behind.                         *)
(***************************************************************************)
EXTENDS Forwarding, TLAPS

(* What the tables hold.                                                   *)
LEMMA Entries ==
  ASSUME TypeOK, NEW n \in Node
  PROVE  /\ heard[n] \in Nat /\ heard[n] <= MaxNews /\ hop[n] \in Route
         /\ hop[n].via \in Node \cup {None} /\ hop[n].seq \in Nat
  BY LimitAssumption DEF TypeOK, Route

LEMMA TypeInit == Init => TypeOK
  BY DestAssumption, LimitAssumption DEF Init, TypeOK, Route

(* A step of a table with its count.                                       *)
LEMMA NewRoute ==
  ASSUME TypeOK, NEW n \in Node, NEW relay \in Node, NEW id \in 1 .. heard[relay], n # Dest
  PROVE  /\ RouteAfter(n, relay, id) \in [Node -> Route]
         /\ \A m \in Node : m # n => RouteAfter(n, relay, id)[m] = hop[m]
         /\ id # heard[n] + 1 => RouteAfter(n, relay, id) = hop
         /\ id = heard[n] + 1 => RouteAfter(n, relay, id) = UpdateNextHop(n, relay, id)
<1>1. id \in 0 .. MaxNews
  <2>1. heard[relay] \in Nat /\ heard[relay] <= MaxNews
    BY Entries
  <2> QED
    BY <2>1, LimitAssumption
<1>2. hop \in [Node -> Route] /\ [via |-> relay, seq |-> id] \in Route
  BY <1>1 DEF TypeOK, Route
<1> QED
  BY <1>2 DEF RouteAfter, UpdateNextHop

LEMMA TypeNext == TypeOK /\ TrailInv /\ [Next]_vars => TypeOK'
<1> SUFFICES ASSUME TypeOK, TrailInv, [Next]_vars
             PROVE  TypeOK'
  OBVIOUS
<1>1. CASE Announce
  BY <1>1, DestAssumption, LimitAssumption DEF Announce, TypeOK
<1>2. ASSUME NEW n \in Node, NEW relay \in Node, NEW id \in 1 .. MaxNews, Rumor(n, relay, id)
      PROVE  TypeOK'
  <2>1. id \in 1 .. heard[relay] /\ n # Dest
    BY <1>2 DEF Rumor
  <2>2. hop' \in [Node -> Route]
    BY <1>2, <2>1, NewRoute DEF Rumor
  <2>3. heard' \in [Node -> 0 .. MaxNews]
    BY <1>2, LimitAssumption DEF Rumor, TypeOK
  <2> QED
    BY <1>2, <2>2, <2>3 DEF Rumor, TypeOK
<1>3. ASSUME NEW p \in Packet, NEW n \in Node, Send(p, n)
      PROVE  TypeOK'
  <2>1. Via(n) \in Node
    BY <1>3, Entries DEF Send, Via
  <2>2. Stopping(n, HopLimit) \in Stop /\ Stopping(Via(n), HopLimit) \in Stop
    BY <2>1, LimitAssumption DEF Stopping, Stop, TypeOK
  <2>3. <<Stopping(n, HopLimit), Stopping(Via(n), HopLimit)>> \in Seq(Stop)
    BY <2>2
  <2> QED
    BY <1>3, <2>3 DEF Send, TypeOK
<1>4. ASSUME NEW p \in Packet, Forward(p)
      PROVE  TypeOK'
  <2> DEFINE stop == trail[p][Len(trail[p])]
  <2>1. CASE UNCHANGED trail
    BY <1>4, <2>1 DEF Forward, TypeOK
  <2>2. ASSUME fate[p] = "moving", hop[stop.at].via # None, stop.at # Dest,
               MayForward(stop.limit),
               trail' = [trail EXCEPT ![p] = Append(@, Stopping(Via(stop.at), stop.limit - 1))],
               UNCHANGED <<heard, hop, fate>>, trail[p] # <<>>
        PROVE  TypeOK'
    <3>1. trail[p] \in Seq(Stop) /\ stop \in Stop
      BY <2>2 DEF TypeOK
    <3>2. Via(stop.at) \in Node
      BY <2>2, <3>1, Entries DEF Via, Stop
    <3>3. Stopping(Via(stop.at), stop.limit - 1) \in Stop
      BY <2>2, <3>1, <3>2, LimitAssumption DEF Stopping, Stop, TypeOK, MayForward
    <3>4. Append(trail[p], Stopping(Via(stop.at), stop.limit - 1)) \in Seq(Stop)
      BY <3>1, <3>3
    <3> QED
      BY <2>2, <3>4 DEF TypeOK
  <2>3. trail[p] # <<>>
    BY <1>4 DEF Forward, TrailInv, AheadOf
  <2> QED
    BY <1>4, <2>1, <2>2, <2>3 DEF Forward
<1>5. CASE UNCHANGED vars
  BY <1>5 DEF vars, TypeOK
<1> QED
  BY <1>1, <1>2, <1>3, <1>4, <1>5 DEF Next

-----------------------------------------------------------------------------
(* The tables. *)

LEMMA RoutesInit == Init => RoutesInv
<1> SUFFICES ASSUME Init PROVE RoutesInv
  OBVIOUS
<1>1. \A n \in Node : heard[n] = 0 /\ hop[n].via = None /\ hop[n].seq = 0
  BY DEF Init
<1>2. NoLoop
  BY <1>1, DestAssumption DEF NoLoop
<1> QED
  BY <1>1, <1>2 DEF RoutesInv, RoutesKnown, RelayIsAhead

(* n counts rumor id and its route leads to relay, whatever it was before. *)
LEMMA CountedRumor ==
  ASSUME TypeOK, RoutesInv, NEW n \in Node, NEW relay \in Node, NEW id \in 1 .. heard[relay],
         n # Dest, id = heard[n] + 1
  PROVE  LET new == UpdateNextHop(n, relay, id)
         IN /\ new[n].via = relay /\ new[n].seq <= id
            /\ relay # n /\ heard[relay] >= id
<1>1. hop[n].seq < id /\ heard[relay] >= id /\ id \in Nat
  BY Entries DEF RoutesInv, RoutesKnown
<1>2. hop \in [Node -> Route]
  BY DEF TypeOK
<1> QED
  BY <1>1, <1>2, Entries DEF UpdateNextHop

LEMMA RoutesNext == TypeOK /\ TypeOK' /\ RoutesInv /\ [Next]_vars => RoutesInv'
<1> SUFFICES ASSUME TypeOK, TypeOK', RoutesInv, [Next]_vars
             PROVE  RoutesInv'
  OBVIOUS
<1>1. CASE UNCHANGED <<heard, hop>>
  BY <1>1 DEF RoutesInv, RoutesKnown, RelayIsAhead, NoLoop
<1>2. CASE Announce
  <2>1. hop' = hop /\ heard' = [heard EXCEPT ![Dest] = @ + 1]
    BY <1>2 DEF Announce
  <2>2. \A n \in Node : (n # Dest => heard'[n] = heard[n]) /\ heard'[n] >= heard[n]
    BY <2>1, Entries, DestAssumption DEF TypeOK
  <2>3. RoutesKnown'
    BY <2>1, <2>2, Entries, DestAssumption DEF RoutesInv, RoutesKnown
  <2>4. RelayIsAhead'
    <3> SUFFICES ASSUME NEW n \in Node, hop'[n].via # None
                 PROVE  heard'[n] <= heard'[hop'[n].via]
      BY DEF RelayIsAhead
    <3>1. n # Dest /\ hop[n].via \in Node /\ heard[n] <= heard[hop[n].via]
      BY <2>1, Entries DEF RoutesInv, RoutesKnown, RelayIsAhead
    <3> QED
      BY <2>1, <2>2, <3>1, Entries
  <2> QED
    BY <2>1, <2>3, <2>4 DEF RoutesInv, NoLoop
<1>3. ASSUME NEW n \in Node, NEW relay \in Node, NEW id \in 1 .. MaxNews, Rumor(n, relay, id)
      PROVE  RoutesInv'
  <2>1. id \in 1 .. heard[relay] /\ n # Dest
    BY <1>3 DEF Rumor
  <2>2. CASE id # heard[n] + 1
    <3>1. heard' = heard /\ hop' = hop
      BY <1>3, <2>1, <2>2, NewRoute DEF Rumor, TypeOK
    <3> QED
      BY <1>1, <3>1
  <2>3. CASE id = heard[n] + 1
    <3>1. /\ hop'[n].via = relay /\ hop'[n].seq <= id /\ relay # n /\ heard[relay] >= id
          /\ \A m \in Node : m # n => hop'[m] = hop[m]
      BY <1>3, <2>1, <2>3, NewRoute, CountedRumor DEF Rumor
    <3>2. heard'[n] = id /\ \A m \in Node : m # n => heard'[m] = heard[m]
      BY <1>3, <2>3 DEF Rumor, TypeOK
    <3>3. id \in Nat /\ heard[n] < id
      BY <2>3, Entries
    <3>4. RoutesKnown'
      BY <2>1, <3>1, <3>2, <3>3, Entries, DestAssumption DEF RoutesInv, RoutesKnown
    <3>5. RelayIsAhead'
      <4> SUFFICES ASSUME NEW m \in Node, hop'[m].via # None
                   PROVE  heard'[m] <= heard'[hop'[m].via]
        BY DEF RelayIsAhead
      <4>1. CASE m = n
        BY <3>1, <3>2, <4>1, Entries
      <4>2. CASE m # n
        <5>1. hop[m].via \in Node /\ heard[m] <= heard[hop[m].via]
          BY <3>1, <4>2, Entries DEF RoutesInv, RelayIsAhead
        <5> QED
          BY <3>1, <3>2, <3>3, <4>2, <5>1, Entries
      <4> QED
        BY <4>1, <4>2
    <3>6. NoLoop'
      <4> SUFFICES ASSUME NEW S \in SUBSET Node, S # {}, \A m \in S : hop'[m].via \in S
                   PROVE  FALSE
        BY DEF NoLoop
      <4>1. CASE n \notin S
        BY <3>1, <4>1 DEF RoutesInv, NoLoop
      <4>2. CASE n \in S
        <5> DEFINE T == {m \in S : m # n /\ heard[m] >= id}
        <5>1. relay \in T
          BY <3>1, <4>2
        <5>2. ASSUME NEW m \in T
              PROVE  hop[m].via \in T
          <6>1. hop[m].via \in S /\ hop[m].via # None
            BY <3>1, DestAssumption
          <6>2. heard[m] <= heard[hop[m].via]
            BY <6>1 DEF RoutesInv, RelayIsAhead
          <6>3. heard[hop[m].via] >= id
            BY <3>3, <6>1, <6>2, Entries
          <6> QED
            BY <3>3, <6>1, <6>3, Entries
        <5> QED
          BY <5>1, <5>2 DEF RoutesInv, NoLoop
      <4> QED
        BY <4>1, <4>2
    <3> QED
      BY <3>4, <3>5, <3>6 DEF RoutesInv
  <2> QED
    BY <2>2, <2>3
<1>4. ASSUME NEW p \in Packet, Forward(p) \/ \E n \in Node : Send(p, n)
      PROVE  RoutesInv'
  BY <1>1, <1>4 DEF Forward, Send
<1>5. CASE UNCHANGED vars
  BY <1>1, <1>5 DEF vars
<1> QED
  BY <1>2, <1>3, <1>4, <1>5 DEF Next

-----------------------------------------------------------------------------
(* The way of a packet. *)

(* From a set that routes do not leave, one hop leads to a smaller one:    *)
(* without n, take away everything whose route leads to n.                 *)
LEMMA HopLeavesBehind ==
  ASSUME TypeOK, RoutesInv, NEW n \in Node, NEW h, NEW U \in SUBSET Node,
         Closed(U, h), n \in U, n # Dest, heard[n] = h
  PROVE  \E V \in SUBSET U : Closed(V, h) /\ hop[n].via \in V /\ n \notin V
<1> DEFINE Free == {C \in SUBSET U : Closed(C, h) /\ n \notin C}
           V == UNION Free
           S == U \ V
<1>1. V \in SUBSET U /\ n \notin V
  OBVIOUS
<1>2. Closed(V, h)
  BY DEF Closed
<1>3. ASSUME NEW s \in S, s # n
      PROVE  hop[s].via \in S
  <2>1. s \in U /\ heard[s] >= h /\ (heard[s] = h /\ s # Dest => hop[s].via \in U)
    BY DEF Closed
  <2>2. ~ Closed(V \cup {s}, h)
    <3>1. s \notin V /\ V \cup {s} \in SUBSET U /\ n \notin V \cup {s}
      BY <1>1, <1>3
    <3>2. V \cup {s} \notin Free
      BY <3>1
    <3> QED
      BY <3>1, <3>2
  <2>3. heard[s] = h /\ s # Dest /\ hop[s].via \notin V \cup {s}
    BY <1>2, <2>1, <2>2 DEF Closed
  <2> QED
    BY <2>1, <2>3
<1>4. hop[n].via \in U
  BY DEF Closed
<1>5. hop[n].via \in V
  <2>1. SUFFICES ASSUME hop[n].via \notin V
                 PROVE  FALSE
    OBVIOUS
  <2>2. S # {} /\ S \in SUBSET Node
    BY <1>1
  <2>3. \A s \in S : hop[s].via \in S
    BY <1>3, <1>4, <2>1
  <2> HIDE DEF S
  <2> QED
    BY <2>2, <2>3 DEF RoutesInv, NoLoop
<1> QED
  BY <1>1, <1>2, <1>5

(* Those who have counted at least h rumors have routes among themselves.  *)
LEMMA LevelClosed ==
  ASSUME TypeOK, RoutesInv, NEW h \in Nat, h > 0
  PROVE  Closed({n \in Node : heard[n] >= h}, h)
<1> DEFINE U == {n \in Node : heard[n] >= h}
<1> SUFFICES ASSUME NEW n \in U, heard[n] = h, n # Dest
             PROVE  hop[n].via \in U
  BY DEF Closed
<1>1. hop[n].via \in Node /\ heard[n] <= heard[hop[n].via]
  BY Entries DEF RoutesInv, RoutesKnown, RelayIsAhead
<1> QED
  BY <1>1

LEMMA Stops ==
  ASSUME NEW t \in Seq(Stop)
  PROVE  /\ \A i \in DOMAIN t : t[i] \in Stop /\ t[i].at \in Node /\ t[i].heard \in Nat
         /\ t # <<>> => Len(t) \in DOMAIN t /\ Len(t) \in Nat /\ Len(t) > 0
<1>1. \A i \in DOMAIN t : t[i] \in Stop
  OBVIOUS
<1>2. \A st \in Stop : st.at \in Node /\ st.heard \in Nat
  BY LimitAssumption DEF Stop
<1>3. t # <<>> => Len(t) \in DOMAIN t /\ Len(t) \in Nat /\ Len(t) > 0
  OBVIOUS
<1> QED
  BY <1>1, <1>2, <1>3

(* A trail stays what it is under the steps of the tables.                 *)
LEMMA TrailStable ==
  ASSUME TypeOK, TypeOK', NEW t \in Seq(Stop), AheadOf(t), [Announce \/ \E n, relay \in Node, id \in 1 .. MaxNews : Rumor(n, relay, id)]_<<heard, hop>>
  PROVE  AheadOf(t)'
<1> DEFINE h == t[Len(t)].heard
<1>1. t # <<>> /\ h \in Nat /\ h > 0
  <2>1. t # <<>> /\ h > 0
    BY DEF AheadOf
  <2> QED
    BY <2>1, Stops
<1>2. \A n \in Node : /\ heard'[n] >= heard[n]
                      /\ heard'[n] = heard[n] => hop'[n] = hop[n]
  <2>1. CASE UNCHANGED <<heard, hop>>
    BY <2>1, Entries
  <2>2. CASE Announce
    BY <2>2, Entries, DestAssumption DEF Announce, TypeOK
  <2>3. ASSUME NEW n \in Node, NEW relay \in Node, NEW id \in 1 .. MaxNews, Rumor(n, relay, id)
        PROVE  \A m \in Node : heard'[m] >= heard[m] /\ (heard'[m] = heard[m] => hop'[m] = hop[m])
    <3>1. id \in 1 .. heard[relay] /\ n # Dest
      BY <2>3 DEF Rumor
    <3>2. \A m \in Node : m # n => hop'[m] = hop[m] /\ heard'[m] = heard[m]
      BY <2>3, <3>1, NewRoute DEF Rumor, TypeOK
    <3>3. heard'[n] = (IF id = heard[n] + 1 THEN id ELSE heard[n])
      BY <2>3 DEF Rumor, TypeOK
    <3>4. id # heard[n] + 1 => hop'[n] = hop[n]
      BY <2>3, <3>1, NewRoute DEF Rumor
    <3> QED
      BY <3>2, <3>3, <3>4, Entries
  <2> QED
    BY <2>1, <2>2, <2>3
<1>3. \A i \in DOMAIN t : t[i].at \in Node /\ t[i].heard \in Nat
  BY Stops
<1>4. \A i \in DOMAIN t : t[i].heard <= h /\ t[i].heard <= heard[t[i].at]
  BY DEF AheadOf
<1>5. \A i \in DOMAIN t : t[i].heard <= heard'[t[i].at]
  <2> TAKE i \in DOMAIN t
  <2>1. heard[t[i].at] \in Nat /\ heard'[t[i].at] \in Nat
    BY <1>3, LimitAssumption DEF TypeOK
  <2> QED
    BY <1>2, <1>3, <1>4, <2>1
<1>6. PICK U \in SUBSET Node :
        /\ Closed(U, h) /\ t[Len(t)].at \in U
        /\ \A i \in 1 .. Len(t) - 1 : t[i].heard = h /\ heard[t[i].at] = h => t[i].at \notin U
  BY DEF AheadOf
<1>7. Closed(U, h)'
  <2> SUFFICES ASSUME NEW n \in U
               PROVE  heard'[n] >= h /\ (heard'[n] = h /\ n # Dest => hop'[n].via \in U)
    BY DEF Closed
  <2>1. heard[n] >= h /\ (heard[n] = h /\ n # Dest => hop[n].via \in U)
    BY <1>6 DEF Closed
  <2>2. heard[n] \in Nat /\ heard'[n] \in Nat
    BY LimitAssumption DEF TypeOK
  <2> QED
    BY <1>1, <1>2, <2>1, <2>2
<1>8. ASSUME NEW i \in 1 .. Len(t) - 1, t[i].heard = h, heard'[t[i].at] = h
      PROVE  t[i].at \notin U
  <2>1. i \in DOMAIN t
    OBVIOUS
  <2>2. heard[t[i].at] \in Nat /\ t[i].heard <= heard[t[i].at] /\ heard[t[i].at] <= h
    BY <1>2, <1>3, <1>4, <1>8, <2>1, Entries
  <2> QED
    BY <1>1, <1>6, <1>8, <2>2
<1> QED
  BY <1>1, <1>4, <1>5, <1>6, <1>7, <1>8 DEF AheadOf

(* One hop further.  h is what the node counts now, which may be more than *)
(* what it counted when the packet came.                                   *)
LEMMA TrailHops ==
  ASSUME TypeOK, RoutesInv, NEW t \in Seq(Stop), AheadOf(t), NEW limit \in 1 .. HopLimit,
         t[Len(t)].at # Dest, hop[t[Len(t)].at].via # None
  PROVE  LET to == Stopping(hop[t[Len(t)].at].via, limit)
         IN /\ AheadOf(Append(t, to))
            /\ \A i \in DOMAIN t : t[i].at = to.at => t[i].heard < to.heard
<1> DEFINE n == t[Len(t)].at
           h == t[Len(t)].heard
           m == hop[n].via
           to == Stopping(m, limit)
           tt == Append(t, to)
<1>1. t # <<>> /\ Len(t) \in DOMAIN t /\ Len(t) \in Nat /\ n \in Node /\ h \in Nat /\ h > 0
  BY Stops DEF AheadOf
<1>2. m \in Node /\ to.at = m /\ to.heard = heard[m] /\ heard[n] <= heard[m]
  BY <1>1, Entries DEF Stopping, RoutesInv, RelayIsAhead
<1>3. \A i \in DOMAIN t : t[i].heard <= h /\ t[i].heard <= heard[t[i].at]
  BY DEF AheadOf
<1>4. heard[n] \in Nat /\ heard[m] \in Nat /\ h <= heard[n] /\ heard[m] >= h
  BY <1>1, <1>2, <1>3, Entries
<1>5. /\ tt # <<>> /\ Len(tt) = Len(t) + 1 /\ tt[Len(tt)] = to
      /\ \A i \in DOMAIN t : tt[i] = t[i]
      /\ DOMAIN tt = DOMAIN t \cup {Len(tt)} /\ 1 .. Len(tt) - 1 = DOMAIN t
  BY <1>1
<1>6. \A i \in DOMAIN tt : tt[i].heard <= heard[m] /\ tt[i].heard <= heard[tt[i].at]
  <2> SUFFICES ASSUME NEW i \in DOMAIN tt
               PROVE  tt[i].heard <= heard[m] /\ tt[i].heard <= heard[tt[i].at]
    OBVIOUS
  <2>1. CASE i = Len(tt)
    BY <1>2, <1>4, <1>5, <2>1
  <2>2. CASE i \in DOMAIN t
    <3>1. t[i].heard \in Nat
      BY <2>2, Stops
    <3> QED
      BY <1>1, <1>3, <1>4, <1>5, <2>2, <3>1
  <2> QED
    BY <1>5, <2>1, <2>2
<1>7. \E V \in SUBSET Node :
        /\ Closed(V, heard[m]) /\ m \in V
        /\ \A i \in DOMAIN t : t[i].heard = heard[m] /\ heard[t[i].at] = heard[m] => t[i].at \notin V
  <2>1. CASE heard[m] > h
    <3> DEFINE V == {q \in Node : heard[q] >= heard[m]}
    <3>1. Closed(V, heard[m]) /\ m \in V /\ V \in SUBSET Node
      <4>1. heard[m] \in Nat /\ heard[m] > 0
        BY <1>1, <1>4, <2>1
      <4>2. Closed(V, heard[m])
        BY <4>1, LevelClosed
      <4>3. m \in V
        BY <1>2, <4>1
      <4> QED
        BY <4>2, <4>3
    <3>2. \A i \in DOMAIN t : t[i].heard # heard[m]
      BY <1>1, <1>3, <1>4, <2>1, Stops
    <3> QED
      BY <3>1, <3>2
  <2>2. CASE heard[m] = h
    <3>1. heard[n] = h
      BY <1>1, <1>2, <1>4, <2>2
    <3>2. PICK U \in SUBSET Node :
            /\ Closed(U, h) /\ n \in U
            /\ \A i \in 1 .. Len(t) - 1 : t[i].heard = h /\ heard[t[i].at] = h => t[i].at \notin U
      BY DEF AheadOf
    <3>3. PICK V \in SUBSET U : Closed(V, h) /\ m \in V /\ n \notin V
      BY <1>1, <3>1, <3>2, HopLeavesBehind
    <3>4. ASSUME NEW i \in DOMAIN t, t[i].heard = h, heard[t[i].at] = h
          PROVE  t[i].at \notin V
      <4>1. i = Len(t) \/ i \in 1 .. Len(t) - 1
        BY <1>1
      <4> QED
        BY <3>2, <3>3, <3>4, <4>1
    <3> QED
      BY <2>2, <3>3, <3>4
  <2> QED
    BY <1>1, <1>4, <2>1, <2>2
<1>8. AheadOf(tt)
  <2>1. tt[Len(tt)].heard = heard[m] /\ heard[m] > 0 /\ tt[Len(tt)].at = m
    BY <1>1, <1>2, <1>4, <1>5
  <2>2. PICK V \in SUBSET Node :
        /\ Closed(V, heard[m]) /\ m \in V
        /\ \A i \in DOMAIN t : t[i].heard = heard[m] /\ heard[t[i].at] = heard[m] => t[i].at \notin V
    BY <1>7
  <2>3. \A i \in 1 .. Len(tt) - 1 :
          tt[i].heard = heard[m] /\ heard[tt[i].at] = heard[m] => tt[i].at \notin V
    BY <1>5, <2>2
  <2> HIDE DEF tt
  <2> QED
    BY <1>5, <1>6, <2>1, <2>2, <2>3 DEF AheadOf
<1>9. ASSUME NEW i \in DOMAIN t, t[i].at = m
      PROVE  t[i].heard < heard[m]
  <2>1. t[i].heard \in Nat /\ t[i].heard <= heard[m]
    BY <1>3, <1>9, Stops
  <2>2. t[i].heard # heard[m]
    BY <1>7, <1>9
  <2> QED
    BY <1>4, <2>1, <2>2
<1> QED
  BY <1>2, <1>8, <1>9

-----------------------------------------------------------------------------
(* All together. *)

Travels == TypeOK /\ RoutesInv /\ TrailInv /\ RevisitNeedsNews /\ NeverStranded

LEMMA TravelsInit == Init => Travels
<1> SUFFICES ASSUME Init PROVE Travels
  OBVIOUS
<1>1. \A p \in Packet : fate[p] = "new" /\ trail[p] = <<>>
  BY DEF Init
<1>2. TrailInv /\ RevisitNeedsNews /\ NeverStranded
  BY <1>1 DEF TrailInv, RevisitNeedsNews, NeverStranded
<1> QED
  BY <1>2, TypeInit, RoutesInit DEF Travels

(* A packet that is sent leaves a trail of its first node and its next.    *)
LEMMA FirstHop ==
  ASSUME Travels, NEW p \in Packet, NEW n \in Node, Send(p, n)
  PROVE  /\ AheadOf(trail'[p])
         /\ \A i, j \in DOMAIN trail'[p] :
              i < j /\ trail'[p][i].at = trail'[p][j].at => trail'[p][i].heard < trail'[p][j].heard
<1> DEFINE first == Stopping(n, HopLimit)
           t == <<first>>
           to == Stopping(Via(n), HopLimit)
<1>1. n # Dest /\ hop[n].via # None /\ trail'[p] = Append(t, to)
  BY DEF Send, Travels, TypeOK
<1>2. heard[n] \in Nat /\ heard[n] > 0 /\ first \in Stop /\ first.at = n /\ first.heard = heard[n]
  BY <1>1, Entries, LimitAssumption DEF Travels, RoutesInv, RoutesKnown, Stopping, Stop, TypeOK
<1>3. t \in Seq(Stop) /\ t # <<>> /\ Len(t) = 1 /\ t[1] = first /\ DOMAIN t = {1} /\ 1 .. Len(t) - 1 = {}
  BY <1>2
<1>4. AheadOf(t)
  <2> DEFINE U == {q \in Node : heard[q] >= heard[n]}
  <2>1. Closed(U, heard[n]) /\ n \in U /\ U \in SUBSET Node
    <3>1. Closed(U, heard[n])
      BY <1>2, LevelClosed DEF Travels
    <3> QED
      BY <1>2, <3>1
  <2>2. \A i \in DOMAIN t : t[i] = first
    BY <1>3
  <2> HIDE DEF U, t, first
  <2> QED
    BY <1>2, <1>3, <2>1, <2>2 DEF AheadOf
<1>5. /\ AheadOf(Append(t, to))
      /\ \A i \in DOMAIN t : t[i].at = to.at => t[i].heard < to.heard
  <2>1. HopLimit \in 1 .. HopLimit
    BY LimitAssumption
  <2>2. t[Len(t)].at = n
    BY <1>2, <1>3
  <2> HIDE DEF t
  <2> QED
    BY <1>1, <1>3, <1>4, <2>1, <2>2, TrailHops DEF Travels, Via
<1>6. DOMAIN Append(t, to) = 1 .. 2 /\ Append(t, to)[1] = t[1] /\ Append(t, to)[2] = to
  BY <1>3
<1> HIDE DEF t, to
<1> QED
  BY <1>1, <1>3, <1>5, <1>6

LEMMA NextHop ==
  ASSUME Travels, NEW p \in Packet, Forward(p)
  PROVE  /\ fate'[p] = "moving" => AheadOf(trail'[p])
         /\ fate'[p] # "stranded"
         /\ \A i, j \in DOMAIN trail'[p] :
              i < j /\ trail'[p][i].at = trail'[p][j].at => trail'[p][i].heard < trail'[p][j].heard
<1> DEFINE t == trail[p]
           stop == t[Len(t)]
           n == stop.at
<1>1. t \in Seq(Stop) /\ t # <<>> /\ AheadOf(t) /\ fate[p] = "moving"
  BY DEF Forward, Travels, TypeOK, TrailInv, AheadOf
<1>2. Len(t) \in DOMAIN t /\ n \in Node /\ stop \in Stop /\ stop.heard \in Nat
  BY <1>1, Stops
<1>3. \A i, j \in DOMAIN t : i < j /\ t[i].at = t[j].at => t[i].heard < t[j].heard
  BY DEF Travels, RevisitNeedsNews
<1>4. n # Dest => hop[n].via # None
  <2>1. heard[n] > 0
    <3>1. stop.heard > 0 /\ stop.heard <= heard[n] /\ heard[n] \in Nat
      BY <1>1, <1>2, Entries DEF AheadOf, Travels
    <3> QED
      BY <1>2, <3>1
  <2> QED
    BY <1>2, <2>1 DEF Travels, RoutesInv, RoutesKnown
<1>5. CASE UNCHANGED trail /\ fate'[p] # "moving"
  BY <1>3, <1>4, <1>5 DEF Forward, Travels, TypeOK
<1>6. CASE /\ n # Dest /\ MayForward(stop.limit) /\ UNCHANGED fate
           /\ trail' = [trail EXCEPT ![p] = Append(@, Stopping(Via(n), stop.limit - 1))]
  <2> DEFINE to == Stopping(Via(n), stop.limit - 1)
             tt == Append(t, to)
  <2>1. stop.limit - 1 \in 1 .. HopLimit
    BY <1>2, <1>6, LimitAssumption DEF Stop, MayForward
  <2>2. AheadOf(tt) /\ \A i \in DOMAIN t : t[i].at = to.at => t[i].heard < to.heard
    <3> HIDE DEF t
    <3> QED
      BY <1>1, <1>4, <1>6, <2>1, TrailHops DEF Travels, Via
  <2>3. trail'[p] = tt
    BY <1>6 DEF Travels, TypeOK
  <2>4. /\ DOMAIN tt = DOMAIN t \cup {Len(t) + 1} /\ tt[Len(t) + 1] = to
        /\ \A i \in DOMAIN t : tt[i] = t[i] /\ i < Len(t) + 1 /\ i \in Nat
    BY <1>1, <1>2
  <2>5. ASSUME NEW i \in DOMAIN tt, NEW j \in DOMAIN tt, i < j, tt[i].at = tt[j].at
        PROVE  tt[i].heard < tt[j].heard
    <3>1. i \in DOMAIN t
      BY <1>1, <1>2, <2>4, <2>5
    <3>2. CASE j \in DOMAIN t
      BY <1>3, <2>4, <2>5, <3>1, <3>2
    <3>3. CASE j = Len(t) + 1
      BY <2>2, <2>4, <2>5, <3>1, <3>3
    <3> QED
      BY <2>4, <3>2, <3>3
  <2>6. fate'[p] # "stranded"
    BY <1>1, <1>6
  <2> HIDE DEF tt
  <2> QED
    BY <2>2, <2>3, <2>5, <2>6
<1> QED
  BY <1>4, <1>5, <1>6 DEF Forward, Travels, TypeOK

LEMMA TravelsNext == Travels /\ [Next]_vars => Travels'
<1> SUFFICES ASSUME Travels, [Next]_vars
             PROVE  Travels'
  OBVIOUS
<1>1. TypeOK'
  BY TypeNext DEF Travels
<1>2. RoutesInv'
  BY <1>1, RoutesNext DEF Travels
<1>3. ASSUME NEW q \in Packet, fate'[q] = fate[q], trail'[q] = trail[q], fate[q] = "moving",
             [Announce \/ \E n, relay \in Node, id \in 1 .. MaxNews : Rumor(n, relay, id)]_<<heard, hop>>
      PROVE  AheadOf(trail[q])'
  <2>1. PICK t \in Seq(Stop) : t = trail[q]
    BY DEF Travels, TypeOK
  <2>2. AheadOf(t)
    BY <1>3, <2>1 DEF Travels, TrailInv
  <2>3. AheadOf(t)'
    BY <1>1, <1>3, <2>2, TrailStable DEF Travels
  <2> QED
    BY <1>3, <2>1, <2>3
<1>4. ASSUME UNCHANGED <<fate, trail>>,
             [Announce \/ \E n, relay \in Node, id \in 1 .. MaxNews : Rumor(n, relay, id)]_<<heard, hop>>
      PROVE  Travels'
  <2>1. TrailInv'
    BY <1>3, <1>4 DEF TrailInv
  <2>2. RevisitNeedsNews' /\ NeverStranded'
    BY <1>4 DEF Travels, RevisitNeedsNews, NeverStranded
  <2> QED
    BY <1>1, <1>2, <2>1, <2>2 DEF Travels
<1>5. ASSUME NEW p \in Packet, UNCHANGED <<heard, hop>>,
             \A q \in Packet : q # p => fate'[q] = fate[q] /\ trail'[q] = trail[q],
             fate'[p] = "moving" => AheadOf(trail'[p]), fate'[p] # "stranded",
             \A i, j \in DOMAIN trail'[p] :
               i < j /\ trail'[p][i].at = trail'[p][j].at => trail'[p][i].heard < trail'[p][j].heard
      PROVE  Travels'
  <2>1. TrailInv'
    <3> SUFFICES ASSUME NEW q \in Packet, fate'[q] = "moving"
                 PROVE  AheadOf(trail[q])'
      BY DEF TrailInv
    <3>1. CASE q = p
      BY <1>5, <3>1 DEF AheadOf, Closed
    <3>2. CASE q # p
      BY <1>3, <1>5, <3>2
    <3> QED
      BY <3>1, <3>2
  <2>2. RevisitNeedsNews'
    <3> SUFFICES ASSUME NEW q \in Packet, NEW i \in DOMAIN trail'[q], NEW j \in DOMAIN trail'[q],
                        i < j, trail'[q][i].at = trail'[q][j].at
                 PROVE  trail'[q][i].heard < trail'[q][j].heard
      BY DEF RevisitNeedsNews
    <3>1. CASE q = p
      BY <1>5, <3>1
    <3>2. CASE q # p
      BY <1>5, <3>2 DEF Travels, RevisitNeedsNews
    <3> QED
      BY <3>1, <3>2
  <2>3. NeverStranded'
    BY <1>5 DEF Travels, NeverStranded
  <2> QED
    BY <1>1, <1>2, <2>1, <2>2, <2>3 DEF Travels
<1>6. CASE Announce \/ \E n, relay \in Node, id \in 1 .. MaxNews : Rumor(n, relay, id)
  <2>1. UNCHANGED <<fate, trail>>
    BY <1>6 DEF Announce, Rumor
  <2> QED
    BY <1>4, <1>6, <2>1
<1>7. ASSUME NEW p \in Packet, NEW n \in Node, Send(p, n)
      PROVE  Travels'
  <2>1. /\ UNCHANGED <<heard, hop>> /\ fate'[p] = "moving"
        /\ \A q \in Packet : q # p => fate'[q] = fate[q] /\ trail'[q] = trail[q]
    BY <1>7 DEF Send, Travels, TypeOK
  <2> QED
    BY <1>5, <1>7, <2>1, FirstHop
<1>8. ASSUME NEW p \in Packet, Forward(p)
      PROVE  Travels'
  <2>1. /\ UNCHANGED <<heard, hop>>
        /\ \A q \in Packet : q # p => fate'[q] = fate[q] /\ trail'[q] = trail[q]
    BY <1>8 DEF Forward, Travels, TypeOK
  <2> QED
    BY <1>5, <1>8, <2>1, NextHop
<1>9. CASE UNCHANGED vars
  BY <1>4, <1>9 DEF vars
<1> QED
  BY <1>6, <1>7, <1>8, <1>9 DEF Next

(* A packet never gets to a node that has no route for it.                 *)
THEOREM Routable == Spec => []NeverStranded
<1>1. Travels => NeverStranded
  BY DEF Travels
<1> QED
  BY <1>1, TravelsInit, TravelsNext, PTL DEF Spec

(* A packet comes back to a node only when the node has counted a newer    *)
(* rumor since, whatever the tables did while the packet was under way.    *)
THEOREM OnlyNewsTurnsBack == Spec => []RevisitNeedsNews
<1>1. Travels => RevisitNeedsNews
  BY DEF Travels
<1> QED
  BY <1>1, TravelsInit, TravelsNext, PTL DEF Spec

(* Values stay in their sets; no hop limit falls below one.                *)
THEOREM TypeCorrect == Spec => []TypeOK
<1>1. Travels => TypeOK
  BY DEF Travels
<1> QED
  BY <1>1, TravelsInit, TravelsNext, PTL DEF Spec
=============================================================================
