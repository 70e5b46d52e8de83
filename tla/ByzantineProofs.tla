-------------------------- MODULE ByzantineProofs --------------------------
(***************************************************************************)
(* What the filters guarantee, for any number of workers and rounds and    *)
(* any bound F.  recentPeers is the end of the list of all senders, hence  *)
(* 2F + 1 gradients in turn have as many senders, hence F Byzantine        *)
(* workers never have the majority of them; and a Byzantine worker's       *)
(* Lipschitz number is never the largest of all that pass.                 *)
(***************************************************************************)
EXTENDS ByzantineSGD, FiniteSetTheorems, FunctionTheorems, TLAPS

(* recentPeers holds the senders of the last 2F gradients that were used,  *)
(* or of all if they are fewer.                                            *)
RecentIsEnd ==
  /\ Len(recent) = IF Len(used) < 2 * F THEN Len(used) ELSE 2 * F
  /\ \A k \in 1 .. Len(recent) : recent[k] = used[Len(used) - Len(recent) + k]

SendersType ==
  /\ recent \in Seq(Peer) /\ used \in Seq(Peer)
  /\ coming \subseteq [org : Peer, iter : Iter, training : 1 .. Trainings]

RoundType ==
  /\ round \in 0 .. Rounds /\ training \in 1 .. Trainings
  /\ pc \in {"begin", "gather", "update", "done", "panic"}
  /\ (pc # "done" => round < Rounds)
  /\ sent \subseteq Weights

FilterInv == SendersType /\ RoundType /\ RecentIsEnd /\ WindowsDistinct

-----------------------------------------------------------------------------
(* No Byzantine majority follows from distinct senders by counting.        *)
LEMMA DistinctSendersBound ==
  ASSUME NEW S, NEW f, NEW B, IsFiniteSet(B),
         \A x \in S : f[x] \in B,
         \A x, y \in S : x # y => f[x] # f[y]
  PROVE  Cardinality(S) <= Cardinality(B)
<1> DEFINE g == [x \in S |-> f[x]]
<1>1. g \in Injection(S, B)
  BY DEF Injection, IsInjective
<1>2. QED
  BY <1>1, FS_Injection

(* A sender that the filter lets through keeps the window distinct.        *)
LEMMA RememberKeepsEnd ==
  ASSUME FilterInv, NEW p \in Peer, Frequency(p),
         used' = Append(used, p), recent' = Remember(p)
  PROVE  /\ recent' \in Seq(Peer) /\ used' \in Seq(Peer)
         /\ RecentIsEnd' /\ WindowsDistinct'
<1>0. 2 * F \in Nat /\ 2 * F >= 2
  BY NumberAssumption
<1>1. /\ recent \in Seq(Peer) /\ used \in Seq(Peer)
      /\ Len(used) \in Nat /\ Len(recent) \in Nat
  BY DEF FilterInv, SendersType
<1>2. /\ used' \in Seq(Peer) /\ Len(used') = Len(used) + 1
      /\ \A k \in 1 .. Len(used) : used'[k] = used[k]
      /\ used'[Len(used) + 1] = p
  BY <1>1
<1>3. RecentIsEnd
  BY DEF FilterInv
<1>4. /\ recent' \in Seq(Peer)
      /\ RecentIsEnd'
  <2>1. CASE Len(recent) = 2 * F
    <3>1. /\ Tail(recent) \in Seq(Peer) /\ Len(Tail(recent)) = 2 * F - 1
          /\ \A k \in 1 .. 2 * F - 1 : Tail(recent)[k] = recent[k + 1]
      BY <1>0, <1>1, <2>1
    <3>2. recent' = Append(Tail(recent), p)
      BY <2>1 DEF Remember
    <3>3. /\ recent' \in Seq(Peer) /\ Len(recent') = 2 * F
          /\ \A k \in 1 .. 2 * F - 1 : recent'[k] = recent[k + 1]
          /\ recent'[2 * F] = p
      BY <1>0, <3>1, <3>2
    <3>4. \A k \in 1 .. 2 * F : recent'[k] = used'[Len(used') - 2 * F + k]
      <4> SUFFICES ASSUME NEW k \in 1 .. 2 * F
                   PROVE  recent'[k] = used'[Len(used') - 2 * F + k]
        OBVIOUS
      <4>1. Len(used) >= 2 * F
        BY <1>0, <1>1, <1>3, <2>1 DEF RecentIsEnd
      <4>2. CASE k = 2 * F
        <5>1. Len(used') - 2 * F + k = Len(used) + 1
          BY <4>2, <1>0, <1>1, <1>2
        <5> QED
          BY <5>1, <4>2, <3>3, <1>2
      <4>3. CASE k < 2 * F
        <5>1. recent[k + 1] = used[Len(used) - 2 * F + (k + 1)]
          BY <4>3, <1>0, <1>3, <2>1 DEF RecentIsEnd
        <5>2. Len(used) - 2 * F + (k + 1) \in 1 .. Len(used)
          BY <4>1, <4>3, <1>0, <1>1
        <5>3. Len(used') - 2 * F + k = Len(used) - 2 * F + (k + 1)
          BY <1>0, <1>1, <1>2
        <5>4. recent'[k] = recent[k + 1]
          BY <4>3, <3>3, <1>0
        <5> QED
          BY <5>1, <5>2, <5>3, <5>4, <1>2
      <4>4. k = 2 * F \/ k < 2 * F
        BY <1>0
      <4> QED
        BY <4>2, <4>3, <4>4
    <3>5. ~(Len(used') < 2 * F)
      BY <1>0, <1>1, <1>2, <1>3, <2>1 DEF RecentIsEnd
    <3> QED
      BY <3>3, <3>4, <3>5 DEF RecentIsEnd
  <2>2. CASE Len(recent) # 2 * F
    <3>1. Len(recent) = Len(used) /\ Len(used) < 2 * F
      BY <1>0, <1>1, <1>3, <2>2 DEF RecentIsEnd
    <3>2. recent' = Append(recent, p)
      BY <2>2 DEF Remember
    <3>3. \A k \in 1 .. Len(recent) : recent[k] = used[k]
      BY <1>1, <1>3, <3>1 DEF RecentIsEnd
    <3>4. /\ recent' \in Seq(Peer) /\ Len(recent') = Len(recent) + 1
          /\ \A k \in 1 .. Len(recent) : recent'[k] = recent[k]
          /\ recent'[Len(recent) + 1] = p
      BY <1>1, <3>2
    <3>5. \A k \in 1 .. Len(recent') : recent'[k] = used'[k]
      BY <1>1, <1>2, <3>1, <3>3, <3>4
    <3>6. /\ Len(used') = Len(recent') /\ Len(recent') <= 2 * F
          /\ \A k \in 1 .. Len(recent') : Len(used') - Len(recent') + k = k
      BY <1>0, <1>1, <1>2, <3>1, <3>4
    <3> QED
      BY <1>0, <3>4, <3>5, <3>6 DEF RecentIsEnd
  <2> QED
    BY <2>1, <2>2
<1>5. WindowsDistinct'
  <2> SUFFICES ASSUME NEW i \in DOMAIN used', NEW j \in DOMAIN used', i < j, j - i <= 2 * F
               PROVE  used'[i] # used'[j]
    BY DEF WindowsDistinct
  <2>1. i \in 1 .. Len(used) + 1 /\ j \in 1 .. Len(used) + 1
    BY <1>2
  <2>2. CASE j = Len(used) + 1
    <3> DEFINE k == i - Len(used) + Len(recent)
    <3>1. k \in 1 .. Len(recent)
      <4>1. i < Len(used) + 1 /\ Len(used) + 1 - i <= 2 * F
        BY <2>2
      <4>2. Len(recent) = IF Len(used) < 2 * F THEN Len(used) ELSE 2 * F
        BY <1>3 DEF RecentIsEnd
      <4> QED
        BY <4>1, <4>2, <2>1, <1>0, <1>1
    <3>2. recent[k] = used[i]
      <4>1. recent[k] = used[Len(used) - Len(recent) + k]
        BY <3>1, <1>3 DEF RecentIsEnd
      <4>2. Len(used) - Len(recent) + k = i
        BY <2>1, <1>1
      <4> QED
        BY <4>1, <4>2
    <3>3. recent[k] # p
      BY <3>1, <1>1 DEF Frequency
    <3> QED
      BY <3>2, <3>3, <2>1, <2>2, <1>2, <1>1
  <2>3. CASE j # Len(used) + 1
    BY <2>1, <2>3, <1>1, <1>2 DEF FilterInv, WindowsDistinct
  <2> QED
    BY <2>2, <2>3
<1> QED
  BY <1>2, <1>4, <1>5

-----------------------------------------------------------------------------
LEMMA FilterInit == Init => FilterInv
  BY NumberAssumption
  DEF Init, FilterInv, SendersType, RoundType, RecentIsEnd, WindowsDistinct, Peer, Weights

LEMMA FilterNext == FilterInv /\ [Next]_vars => FilterInv'
<1> SUFFICES ASSUME FilterInv, [Next]_vars PROVE FilterInv'
  OBVIOUS
<1> USE NumberAssumption
<1>0. SendersType /\ RoundType
  BY DEF FilterInv
<1>1. CASE Begin
  <2>1. round \in Iter /\ training \in 1 .. Trainings
    BY <1>0, <1>1 DEF Begin, RoundType, Iter
  <2>2. [org |-> Self, iter |-> round, training |-> training]
          \in [org : Peer, iter : Iter, training : 1 .. Trainings]
    BY <2>1 DEF Peer
  <2>3. [iter |-> round, training |-> training] \in Weights
    BY <2>1 DEF Weights
  <2>4. SendersType'
    BY <1>0, <1>1, <2>2 DEF Begin, server, SendersType
  <2>5. RoundType'
    BY <1>0, <1>1, <2>3 DEF Begin, RoundType
  <2>6. UNCHANGED <<used, recent>>
    BY <1>1 DEF Begin, server
  <2>7. RecentIsEnd' /\ WindowsDistinct'
    BY <2>6 DEF FilterInv, RecentIsEnd, WindowsDistinct
  <2> QED
    BY <2>4, <2>5, <2>7 DEF FilterInv
<1>2. CASE Update
  <2>1. RoundType'
    <3>1. round \in 0 .. Rounds /\ round < Rounds /\ Rounds \in Nat
      BY <1>0, <1>2 DEF Update, RoundType
    <3>2. round' \in 0 .. Rounds
      BY <3>1, <1>2 DEF Update
    <3>3. pc' \in {"begin", "done"} /\ (pc' # "done" => round' < Rounds)
      BY <1>2 DEF Update
    <3> QED
      BY <3>2, <3>3, <1>0, <1>2 DEF Update, RoundType
  <2>2. UNCHANGED <<used, recent, coming>>
    BY <1>2 DEF Update, server
  <2> QED
    BY <1>0, <2>1, <2>2 DEF FilterInv, SendersType, RecentIsEnd, WindowsDistinct
<1>3. CASE StartAgain
  BY <1>0, <1>3
  DEF StartAgain, server, FilterInv, SendersType, RoundType, RecentIsEnd, WindowsDistinct
<1>4. ASSUME NEW w \in Worker, NEW m \in sent, Answer(w, m)
      PROVE  FilterInv'
  <2>1. [org |-> w, iter |-> m.iter, training |-> m.training]
          \in [org : Peer, iter : Iter, training : 1 .. Trainings]
    BY <1>0 DEF RoundType, Weights, Peer
  <2> QED
    BY <1>0, <1>4, <2>1
    DEF Answer, server, FilterInv, SendersType, RoundType, RecentIsEnd, WindowsDistinct
<1>5. ASSUME NEW g \in coming, Take(g)
      PROVE  FilterInv'
  <2>1. g.org \in Peer
    BY <1>0 DEF SendersType
  <2>2. RoundType' /\ coming' \subseteq coming
    BY <1>0, <1>5 DEF Take, RoundType
  <2>3. PICK new \in Numbers(g.org) :
          \/ /\ Frequency(g.org)
             /\ used' = Append(used, g.org) /\ recent' = Remember(g.org)
          \/ UNCHANGED <<used, recent>>
    BY <1>5 DEF Take
  <2>4. CASE Frequency(g.org) /\ used' = Append(used, g.org) /\ recent' = Remember(g.org)
    BY <1>0, <2>1, <2>2, <2>4, RememberKeepsEnd DEF FilterInv, SendersType
  <2>5. CASE UNCHANGED <<used, recent>>
    BY <1>0, <2>2, <2>5 DEF FilterInv, SendersType, RecentIsEnd, WindowsDistinct
  <2> QED
    BY <2>3, <2>4, <2>5
<1>6. ASSUME NEW g \in coming, TakeUnknownRound(g)
      PROVE  FilterInv'
  BY <1>0, <1>6
  DEF TakeUnknownRound, server, FilterInv, SendersType, RoundType, RecentIsEnd, WindowsDistinct
<1>7. CASE UNCHANGED vars
  BY <1>0, <1>7
  DEF vars, server, FilterInv, SendersType, RoundType, RecentIsEnd, WindowsDistinct
<1> QED
  BY <1>1, <1>2, <1>3, <1>4, <1>5, <1>6, <1>7 DEF Next

LEMMA FilterInvariant == Spec => []FilterInv
  BY FilterInit, FilterNext, PTL DEF Spec

(* The frequency filter of byzantineSGD keeps any 2F + 1 gradients used in *)
(* turn from different senders, for any numbers of workers and rounds.     *)
THEOREM SendersDistinct == Spec => []WindowsDistinct
  BY FilterInvariant, PTL DEF FilterInv

(* At most F Byzantine workers never have the majority of 2F + 1 gradients *)
(* used in turn, however fast they answer.                                 *)
THEOREM NoByzantineMajority == Spec => []HonestMajority
<1>1. FilterInv => HonestMajority
  <2> SUFFICES ASSUME FilterInv, Cardinality(Byz) <= F,
                      NEW i \in DOMAIN used, i + 2 * F \in DOMAIN used
               PROVE  Cardinality({j \in i .. i + 2 * F : used[j] \in Byz}) <= F
    BY DEF HonestMajority
  <2> DEFINE S == {j \in i .. i + 2 * F : used[j] \in Byz}
  <2>1. IsFiniteSet(Byz) /\ Cardinality(Byz) \in Nat
    BY WorkerAssumption, FS_Subset, FS_CardinalityType
  <2>2. DOMAIN used = 1 .. Len(used) /\ Len(used) \in Nat
    BY DEF FilterInv, SendersType
  <2>3. \A x, y \in S : x # y => used[x] # used[y]
    <3> SUFFICES ASSUME NEW x \in S, NEW y \in S, x < y
                 PROVE  used[x] # used[y]
      BY <2>2, NumberAssumption
    <3> QED
      BY <2>2, NumberAssumption DEF FilterInv, WindowsDistinct
  <2>4. Cardinality(S) <= Cardinality(Byz)
    <3>1. \A x \in S : used[x] \in Byz
      OBVIOUS
    <3> HIDE DEF S
    <3> QED
      BY <2>1, <2>3, <3>1, DistinctSendersBound
  <2>5. IsFiniteSet(S) /\ Cardinality(S) \in Nat
    <3>1. i \in Int /\ i + 2 * F \in Int
      BY <2>2, NumberAssumption
    <3>2. IsFiniteSet(i .. i + 2 * F)
      BY <3>1, FS_Interval
    <3> QED
      BY <3>2, FS_Subset, FS_CardinalityType
  <2> QED
    BY <2>1, <2>4, <2>5, NumberAssumption
<1> QED
  BY <1>1, FilterInvariant, PTL

-----------------------------------------------------------------------------
(* The Lipschitz filter. *)

TableType == DOMAIN lc \subseteq Peer /\ \A q \in DOMAIN lc : lc[q] \in 0 .. Inf

(* Of the F peers above a Byzantine sender that the filter lets through,   *)
(* F - 1 at most are Byzantine.                                            *)
LEMMA SomeHonestAbove ==
  ASSUME NEW table, NEW new \in 0 .. Inf, NEW p \in DOMAIN table,
         IsFiniteSet(DOMAIN table), \A q \in DOMAIN table : table[q] \in 0 .. Inf,
         table[p] # Inf, table[p] <= new, Lipschitz(table, new),
         p \in Byz, Cardinality(Byz) <= F
  PROVE  \E h \in DOMAIN table \ Byz : table[h] > table[p]
<1> DEFINE S == {q \in DOMAIN table : table[q] # Inf /\ table[q] <= new}
           R == DOMAIN table \ S
<1> SUFFICES ASSUME \A h \in DOMAIN table \ Byz : ~(table[h] > table[p])
             PROVE  FALSE
  OBVIOUS
<1>1. \A q \in R : table[q] > table[p]
  BY NumberAssumption
<1>2. R \subseteq Byz \ {p}
  BY <1>1, NumberAssumption
<1>3. /\ IsFiniteSet(Byz) /\ IsFiniteSet(Byz \ {p})
      /\ Cardinality(Byz) \in Nat /\ Cardinality(Byz \ {p}) = Cardinality(Byz) - 1
  BY WorkerAssumption, FS_Subset, FS_CardinalityType, FS_RemoveElement
<1>4. /\ Cardinality(R) <= Cardinality(Byz) - 1 /\ Cardinality(R) \in Nat
  BY <1>2, <1>3, FS_Subset, FS_CardinalityType
<1>5. /\ IsFiniteSet(S) /\ Cardinality(S) \in Nat /\ Cardinality(DOMAIN table) \in Nat
      /\ Cardinality(R) = Cardinality(DOMAIN table) - Cardinality(S)
  <2>1. S \subseteq DOMAIN table /\ DOMAIN table \cap S = S
    OBVIOUS
  <2>2. IsFiniteSet(S) /\ Cardinality(S) \in Nat /\ Cardinality(DOMAIN table) \in Nat
    BY <2>1, FS_Subset, FS_CardinalityType
  <2>3. Cardinality(R) = Cardinality(DOMAIN table) - Cardinality(DOMAIN table \cap S)
    <3> HIDE DEF S
    <3> QED
      BY FS_Difference
  <2> QED
    BY <2>1, <2>2, <2>3
<1>6. Cardinality(S) <= Cardinality(DOMAIN table) - F
  BY DEF Lipschitz
<1> QED
  BY <1>3, <1>4, <1>5, <1>6, NumberAssumption

LEMMA NumberBound ==
  ASSUME NEW p \in Peer, NEW new \in Numbers(p)
  PROVE  new \in 0 .. Inf
  BY NumberAssumption DEF Numbers, Peer

LEMMA TableTypeNext == FilterInv /\ TableType /\ [Next]_vars => TableType'
<1> SUFFICES ASSUME FilterInv, TableType, [Next]_vars PROVE TableType'
  OBVIOUS
<1>1. CASE UNCHANGED lc
  BY <1>1 DEF TableType
<1>2. ASSUME NEW g \in coming, Take(g) PROVE TableType'
  <2>1. g.org \in Peer
    BY DEF FilterInv, SendersType
  <2>2. PICK new \in Numbers(g.org) : lc' = Table(g.org, new)
    BY <1>2 DEF Take
  <2>3. new \in 0 .. Inf
    BY <2>1, NumberBound
  <2> QED
    BY <2>1, <2>2, <2>3 DEF Table, TableType
<1>3. CASE StartAgain
  BY <1>3, WorkerAssumption, NumberAssumption DEF StartAgain, TableType, Fresh, Peer
<1> QED
  BY <1>1, <1>2, <1>3
  DEF Next, vars, server, Begin, Update, Answer, TakeUnknownRound

(* No gradient of a Byzantine worker is used whose Lipschitz number is     *)
(* above those of all honest peers, for any numbers of workers and rounds  *)
(* (the filter of byzantineSGD).                                           *)
THEOREM ByzantineNumbersBounded == Spec => ByzantineBounded
<1>1. Init => TableType
  BY WorkerAssumption, NumberAssumption DEF Init, TableType, Fresh, Peer
<1>2. FilterInv /\ TableType /\ [Next]_vars
        => [Cardinality(Byz) <= F /\ Len(used') > Len(used) => Bounded(used'[Len(used')])]_vars
  <2> SUFFICES ASSUME FilterInv, TableType, Next,
                      Cardinality(Byz) <= F, Len(used') > Len(used)
               PROVE  Bounded(used'[Len(used')])
    BY DEF vars
  <2>1. used \in Seq(Peer)
    BY DEF FilterInv, SendersType
  <2>2. PICK g \in coming : Take(g)
    <3>1. Len(used) \in Nat
      BY <2>1
    <3>2. ~ UNCHANGED used
      BY <3>1
    <3>3. ~ StartAgain
      BY <2>1 DEF StartAgain
    <3> QED
      BY <3>2, <3>3 DEF Next, server, Begin, Update, Answer, TakeUnknownRound
  <2>3. g.org \in Peer
    BY DEF FilterInv, SendersType
  <2>4. PICK new \in Numbers(g.org) :
          /\ lc' = Table(g.org, new) /\ Lipschitz(lc', new)
          /\ used' = Append(used, g.org)
    BY <2>1, <2>2 DEF Take
  <2>5. used'[Len(used')] = g.org
    BY <2>1, <2>3, <2>4
  <2>6. new \in 0 .. Inf
    BY <2>3, NumberBound
  <2>7. TableType'
    BY <2>2, TableTypeNext
  <2>8. IsFiniteSet(DOMAIN lc')
    <3>1. IsFiniteSet(Peer)
      BY WorkerAssumption, FS_AddElement DEF Peer
    <3> QED
      BY <3>1, <2>7, FS_Subset DEF TableType
  <2>9. ASSUME g.org \in DOMAIN lc', lc'[g.org] # Inf PROVE lc'[g.org] <= new
    BY <2>4, <2>6, <2>7, <2>9 DEF Numbers, Table, TableType
  <2>10. ASSUME g.org \in Byz, g.org \in DOMAIN lc', lc'[g.org] # Inf
         PROVE  \E h \in DOMAIN lc' \ Byz : lc'[h] > lc'[g.org]
    BY <2>4, <2>6, <2>7, <2>8, <2>9, <2>10, SomeHonestAbove DEF TableType
  <2> QED
    BY <2>5, <2>10 DEF Bounded
<1> QED
  BY <1>1, <1>2, TableTypeNext, FilterInvariant, PTL DEF Spec, ByzantineBounded

-----------------------------------------------------------------------------
(* The history of weights. *)

(* In a first training nothing is of a round that has not begun.           *)
RoundsBegun ==
  /\ training = 1 => /\ \A m \in sent : m.iter <= round
                    /\ \A g \in coming : g.iter <= round
  /\ pc = "panic" => training > 1

TablesType == heard \subseteq Peer /\ seen \in [Worker -> SUBSET Iter]

HistoryInv == RoundsBegun /\ TablesType

LEMMA HistoryNext == FilterInv /\ HistoryInv /\ [Next]_vars => HistoryInv'
<1> SUFFICES ASSUME FilterInv, HistoryInv, [Next]_vars PROVE HistoryInv'
  OBVIOUS
<1>0. /\ round \in Nat /\ training \in Nat \ {0}
      /\ sent \subseteq Weights /\ coming \subseteq Gradient
      /\ \A m \in sent : m.iter \in Iter
      /\ \A g \in coming : g.iter \in Iter /\ g.org \in Peer
  BY NumberAssumption DEF FilterInv, SendersType, RoundType, Weights, Gradient
<1>1. CASE Begin
  <2>1. /\ \A m \in sent' : m \in sent \/ m.iter = round
        /\ \A g \in coming' : g \in coming \/ g.iter = round
    BY <1>1 DEF Begin
  <2>2. training' = training /\ round' = round /\ pc' = "gather" /\ UNCHANGED <<heard, seen>>
    BY <1>1 DEF Begin, server
  <2> QED
    BY <1>0, <2>1, <2>2 DEF HistoryInv, RoundsBegun, TablesType
<1>2. CASE Update
  <2>1. /\ round' = round + 1 /\ pc' # "panic"
        /\ UNCHANGED <<training, sent, coming, heard, seen>>
    BY <1>2 DEF Update, server
  <2>2. \A i \in Iter : i <= round => i <= round + 1
    BY <1>0, NumberAssumption DEF Iter
  <2> QED
    BY <1>0, <2>1, <2>2 DEF HistoryInv, RoundsBegun, TablesType
<1>3. CASE StartAgain
  <2>1. training' > 1 /\ heard' = {} /\ seen' = seen
    BY <1>0, <1>3 DEF StartAgain
  <2> QED
    BY <2>1 DEF HistoryInv, RoundsBegun, TablesType
<1>4. ASSUME NEW w \in Worker, NEW m \in sent, Answer(w, m) PROVE HistoryInv'
  <2>1. /\ \A g \in coming' : g \in coming \/ g.iter = m.iter
        /\ UNCHANGED <<pc, training, round, sent, heard>>
    BY <1>4 DEF Answer, server
  <2>2. seen' \in [Worker -> SUBSET Iter]
    BY <1>0, <1>4 DEF Answer, HistoryInv, TablesType
  <2> QED
    BY <2>1, <2>2 DEF HistoryInv, RoundsBegun, TablesType
<1>5. ASSUME NEW g \in coming, Take(g) PROVE HistoryInv'
  <2>1. /\ coming' \subseteq coming /\ heard' = heard \cup {g.org}
        /\ pc' # "panic" /\ UNCHANGED <<training, round, sent, seen>>
    BY <1>5 DEF Take
  <2> QED
    BY <1>0, <2>1 DEF HistoryInv, RoundsBegun, TablesType
<1>6. ASSUME NEW g \in coming, TakeUnknownRound(g) PROVE HistoryInv'
  <2>1. training > 1
    <3>1. ~(g.iter <= round)
      BY <1>6 DEF TakeUnknownRound, InHistory
    <3> QED
      BY <1>0, <3>1 DEF HistoryInv, RoundsBegun
  <2>2. UNCHANGED <<training, round, sent, coming, heard, seen>>
    BY <1>6 DEF TakeUnknownRound, server
  <2> QED
    BY <2>1, <2>2 DEF HistoryInv, RoundsBegun, TablesType
<1>7. CASE UNCHANGED vars
  BY <1>7 DEF vars, server, HistoryInv, RoundsBegun, TablesType
<1> QED
  BY <1>1, <1>2, <1>3, <1>4, <1>5, <1>6, <1>7 DEF Next

(* weightHistory is indexed out of its range only by gradients that an     *)
(* earlier training left behind, for any workers, numbers of rounds and    *)
(* trainings, and however late an answer is (ml.go:421, 470).              *)
THEOREM OnlyOldTrainingsPanic == Spec => []FirstTrainingSafe
<1>1. Init => TableType /\ HistoryInv
  BY WorkerAssumption, NumberAssumption
  DEF Init, TableType, Fresh, Peer, HistoryInv, RoundsBegun, TablesType
<1>2. FilterInv /\ TableType /\ HistoryInv => FirstTrainingSafe
  <2> SUFFICES ASSUME FilterInv, TableType, HistoryInv PROVE FirstTrainingSafe
    OBVIOUS
  <2>1. Len(recent) <= 2 * F
    BY NumberAssumption DEF FilterInv, SendersType, RecentIsEnd
  <2> QED
    BY <2>1 DEF FilterInv, SendersType, RoundType, TableType, HistoryInv, RoundsBegun, TablesType,
                FirstTrainingSafe, TypeOK, Gradient
<1> QED
  BY <1>1, <1>2, TableTypeNext, HistoryNext, FilterInvariant, PTL DEF Spec
=============================================================================
