--------------------------- MODULE TrainingProofs ---------------------------
(***************************************************************************)
(* Proofs about Training: state stays of the right shape, and, as long as  *)
(* no node trains twice, the gradients of a step are gradients at the      *)
(* weights that take the step, for every network, number of rounds and K;  *)
(* when no datagram is received twice either, they come from K nodes.      *)
(***************************************************************************)
EXTENDS Training, FiniteSetTheorems, SequenceTheorems, TLAPS

-----------------------------------------------------------------------------
(* Packets. *)

(* A transfer adds no other packets than those sent. *)
LEMMA TransferAdds ==
  ASSUME NEW p, NEW sent, Transfer(p, sent)
  PROVE  net' \subseteq net \cup sent
BY DEF Transfer

(* What broadcastWeight sends. *)
LEMMA WeightPacketsType ==
  ASSUME NEW n \in Node, NEW org \in Node, NEW iter \in Iter, NEW w \in Weights
  PROVE  /\ WeightPackets(n, org, iter, w) \subseteq WeightPacket
         /\ \A p \in WeightPackets(n, org, iter, w) :
              p.kind = "weight" /\ p.org = org /\ p.iter = iter /\ p.weight = w
BY PeersAssumption DEF WeightPackets, WeightPacket

(* What sendGradient sends. *)
LEMMA GradientPacketsType ==
  ASSUME NEW n \in Node, NEW g \in Gradient
  PROVE  /\ GradientPackets(n, g) \subseteq GradientPacket
         /\ \A p \in GradientPackets(n, g) : p.kind = "gradient" /\ p.gradient = g
<1>1. g.dst \in Node
  BY DEF Gradient
<1>2. {NextHop[n][g.dst]} \ {None} \subseteq Node
  BY <1>1, NextHopAssumption, PeersAssumption
<1> QED
  BY <1>2 DEF GradientPackets, GradientPacket

-----------------------------------------------------------------------------
(* Type correctness, action by action. *)

(* The initial state is of the right shape. *)
LEMMA InitType == Init => TypeOK
<1> SUFFICES ASSUME Init PROVE TypeOK
  OBVIOUS
<1>1. WorkersTypeOK
  BY WorkersAssumption DEF Init, WorkersInit, WorkersTypeOK, Channel
<1>2. [pc |-> "new", round |-> 0, ch |-> 0, got |-> <<>>, grad |-> None] \in Loop
  BY WorkersAssumption DEF Loop, Places, Channel
<1>3. loop \in [Node -> [1 .. Trainings -> Loop]]
  BY <1>2 DEF Init
<1>4. own \in [Node -> SUBSET Own]
  BY DEF Init
<1> QED
  BY <1>1, <1>3, <1>4 DEF TypeOK

(* A gradient offered is the last one waiting on the current channel. *)
LEMMA OfferType ==
  ASSUME TypeOK, NEW n \in Node, NEW g \in Gradient, Offer(n, g)
  PROVE  /\ waiting' \in [Node -> [Channel -> Seq(Gradient)]]
         /\ \A m \in Node, c \in Channel :
              \/ waiting'[m][c] = waiting[m][c]
              \/ m = n /\ waiting'[m][c] = Append(waiting[m][c], g)
<1>1. chan[n] \in Channel /\ waiting \in [Node -> [Channel -> Seq(Gradient)]]
  BY DEF TypeOK, WorkersTypeOK
<1>2. Append(waiting[n][chan[n]], g) \in Seq(Gradient)
  BY <1>1
<1> QED
  BY <1>1, <1>2 DEF Offer

(* An entry of loop is replaced, the others stay. *)
LEMMA LoopType ==
  ASSUME TypeOK, NEW n \in Node, NEW t \in 1 .. Trainings, NEW l \in Loop,
         loop' = [loop EXCEPT ![n][t] = l]
  PROVE  /\ loop' \in [Node -> [1 .. Trainings -> Loop]]
         /\ loop'[n][t] = l
         /\ \A m \in Node, u \in 1 .. Trainings :
              ~(m = n /\ u = t) => loop'[m][u] = loop[m][u]
BY DEF TypeOK

(* What handleWeight does to the worker's state. *)
LEMMA HandleWeightEffect ==
  ASSUME TypeOK, NEW n \in Node, NEW p \in net, HandleWeight(n, p)
  PROVE  /\ p \in WeightPacket
         /\ \E g \in Gradient :
              /\ g.org = n /\ g.dst = p.org /\ g.iter = p.iter
              /\ n \notin Byz => g.of = p.weight
              /\ net' \subseteq net \cup WeightPackets(n, p.org, p.iter, p.weight)
                                    \cup GradientPackets(n, g)
              /\ \A m \in Node : answers'[m] \subseteq answers[m] \cup {g}
              /\ answers' \in [Node -> SUBSET Gradient]
         /\ seen' \in [Node -> SUBSET Key]
         /\ UNCHANGED <<chan, waiting>>
<1>1. p \in WeightPacket
  BY DEF HandleWeight, TypeOK, WorkersTypeOK, WeightPacket, GradientPacket
<1>2. /\ p.org \in Node /\ p.iter \in Iter /\ p.weight \in Weights
      /\ Concat[p.org][p.iter] \in Key
  BY <1>1 DEF WeightPacket, Key
<1> DEFINE of == IF n \in Byz THEN None ELSE p.weight
           g == [org |-> n, dst |-> p.org, iter |-> p.iter, of |-> of]
<1>3. g \in Gradient
  BY <1>2 DEF Gradient
<1>4. seen' \in [Node -> SUBSET Key]
  <2>1. \/ seen' = seen
        \/ seen' = [seen EXCEPT ![n] = @ \cup {Concat[p.org][p.iter]}]
    BY DEF HandleWeight
  <2>2. seen \in [Node -> SUBSET Key]
    BY DEF TypeOK, WorkersTypeOK
  <2> QED
    BY <1>2, <2>1, <2>2
<1>5. /\ answers' \in [Node -> SUBSET Gradient]
      /\ \A m \in Node : answers'[m] \subseteq answers[m] \cup {g}
  <2>1. answers' = answers \/ answers' = [answers EXCEPT ![n] = @ \cup {g}]
    BY DEF HandleWeight
  <2>2. answers \in [Node -> SUBSET Gradient]
    BY DEF TypeOK, WorkersTypeOK
  <2> HIDE DEF g
  <2> QED
    BY <1>3, <2>1, <2>2
<1>6. net' \subseteq net \cup WeightPackets(n, p.org, p.iter, p.weight)
                         \cup GradientPackets(n, g)
  <2>1. \/ Transfer({p}, {})
        \/ Transfer({p}, WeightPackets(n, p.org, p.iter, p.weight))
        \/ Transfer({p}, WeightPackets(n, p.org, p.iter, p.weight)
                           \cup GradientPackets(n, g))
    BY DEF HandleWeight
  <2> QED
    BY <2>1, TransferAdds
<1>7. UNCHANGED <<chan, waiting>>
  BY DEF HandleWeight
<1>8. g.org = n /\ g.dst = p.org /\ g.iter = p.iter /\ (n \notin Byz => g.of = p.weight)
  OBVIOUS
<1> QED
  <2> HIDE DEF g
  <2> QED
    BY <1>1, <1>3, <1>4, <1>5, <1>6, <1>7, <1>8

(* What handleGradient does to the worker's state. *)
LEMMA HandleGradientEffect ==
  ASSUME TypeOK, NEW n \in Node, NEW p \in net, HandleGradient(n, p)
  PROVE  /\ p \in GradientPacket
         /\ net' \subseteq net \cup GradientPackets(n, p.gradient)
         /\ waiting' = waiting \/ (p.gradient.dst = n /\ Offer(n, p.gradient))
         /\ UNCHANGED <<seen, chan, answers>>
<1>1. p \in GradientPacket
  BY DEF HandleGradient, TypeOK, WorkersTypeOK, WeightPacket, GradientPacket
<1>2. Transfer({p}, {}) \/ Transfer({p}, GradientPackets(n, p.gradient))
  BY DEF HandleGradient
<1>3. net' \subseteq net \cup GradientPackets(n, p.gradient)
  BY <1>2, TransferAdds
<1> QED
  BY <1>1, <1>3 DEF HandleGradient

(* The worker's actions keep the worker's state well-formed. *)
LEMMA WorkType ==
  ASSUME TypeOK, NEW n \in Node, ReceivePacket(n) \/ AnswerWeights(n)
  PROVE  WorkersTypeOK'
<1>1. ASSUME NEW p \in net, HandleWeight(n, p)
      PROVE  WorkersTypeOK'
  <2>1. PICK g \in Gradient :
          /\ net' \subseteq net \cup WeightPackets(n, p.org, p.iter, p.weight)
                                \cup GradientPackets(n, g)
          /\ answers' \in [Node -> SUBSET Gradient]
    BY <1>1, HandleWeightEffect
  <2>2. /\ p \in WeightPacket /\ seen' \in [Node -> SUBSET Key]
        /\ UNCHANGED <<chan, waiting>>
    BY <1>1, HandleWeightEffect
  <2>3. p.org \in Node /\ p.iter \in Iter /\ p.weight \in Weights
    BY <2>2 DEF WeightPacket
  <2>4. net' \subseteq WeightPacket \cup GradientPacket
    BY <2>1, <2>3, WeightPacketsType, GradientPacketsType DEF TypeOK, WorkersTypeOK
  <2> QED
    BY <2>1, <2>2, <2>4 DEF TypeOK, WorkersTypeOK
<1>2. ASSUME NEW p \in net, HandleGradient(n, p)
      PROVE  WorkersTypeOK'
  <2>1. /\ p \in GradientPacket
        /\ net' \subseteq net \cup GradientPackets(n, p.gradient)
        /\ waiting' = waiting \/ Offer(n, p.gradient)
        /\ UNCHANGED <<seen, chan, answers>>
    BY <1>2, HandleGradientEffect
  <2>2. p.gradient \in Gradient
    BY <2>1 DEF GradientPacket
  <2>3. net' \subseteq WeightPacket \cup GradientPacket
    BY <2>1, <2>2, GradientPacketsType DEF TypeOK, WorkersTypeOK
  <2>4. waiting' \in [Node -> [Channel -> Seq(Gradient)]]
    BY <2>1, <2>2, OfferType DEF TypeOK, WorkersTypeOK
  <2> QED
    BY <2>1, <2>3, <2>4 DEF TypeOK, WorkersTypeOK
<1>3. ASSUME NEW g \in answers[n], SendAnswer(n, g)
      PROVE  WorkersTypeOK'
  <2>1. g \in Gradient
    BY DEF TypeOK, WorkersTypeOK
  <2>2. net' \subseteq WeightPacket \cup GradientPacket
    BY <1>3, <2>1, TransferAdds, GradientPacketsType DEF SendAnswer, TypeOK, WorkersTypeOK
  <2>3. answers' \in [Node -> SUBSET Gradient]
    BY <1>3 DEF SendAnswer, TypeOK, WorkersTypeOK
  <2> QED
    BY <1>3, <2>2, <2>3 DEF SendAnswer, TypeOK, WorkersTypeOK
<1> QED
  BY <1>1, <1>2, <1>3 DEF ReceivePacket, AnswerWeights

(* What SendWeights does. *)
LEMMA SendWeightsEffect ==
  ASSUME TypeOK, NEW n \in Node, NEW t \in 1 .. Trainings, SendWeights(n, t)
  PROVE  /\ loop[n][t].round \in Iter
         /\ Current(n, t) \in Weights
         /\ net' \subseteq net \cup WeightPackets(n, n, loop[n][t].round, Current(n, t))
         /\ \E l \in Loop : /\ loop' = [loop EXCEPT ![n][t] = l]
                            /\ l.got = <<>> /\ l.round = loop[n][t].round
         /\ own' \in [Node -> SUBSET Own]
<1>1. loop[n][t] \in Loop /\ loop[n][t].pc = "send" /\ chan[n] \in Channel
  BY DEF SendWeights, TypeOK, WorkersTypeOK
<1>2. loop[n][t].round \in Iter
  BY <1>1, WorkersAssumption DEF Loop, Iter
<1>3. Current(n, t) \in Weights
  BY <1>2 DEF Current, Weights
<1>4. net' \subseteq net \cup WeightPackets(n, n, loop[n][t].round, Current(n, t))
  BY TransferAdds DEF SendWeights
<1> DEFINE old == loop[n][t]
           c == chan[n]
           none == <<>>
           l == [old EXCEPT !.pc = "gather", !.ch = c, !.got = none]
<1>5. <<>> \in Seq(Gradient)
  OBVIOUS
<1>6. l \in Loop /\ l.got = <<>> /\ l.round = loop[n][t].round
  <2>1. old \in Loop /\ old.pc = "send" /\ c \in Channel /\ none \in Seq(Gradient)
    BY <1>1
  <2>2. l.got = none /\ l.round = old.round /\ l \in Loop
    <3> HIDE DEF old, c, none
    <3> QED
      BY <2>1 DEF Loop, Places
  <2> QED
    BY <2>2
<1>7. loop' = [loop EXCEPT ![n][t] = l]
  BY DEF SendWeights, TypeOK
<1>8. own' \in [Node -> SUBSET Own]
  BY <1>2 DEF SendWeights, TypeOK, Own
<1> QED
  BY <1>2, <1>3, <1>4, <1>6, <1>7, <1>8

(* What Gather does to the gathered gradients and to those that wait. *)
LEMMA GatherEffect ==
  ASSUME TypeOK, NEW n \in Node, NEW t \in 1 .. Trainings, Gather(n, t)
  PROVE  LET l == loop[n][t]
             queue == waiting[n][l.ch]
         IN /\ l \in Loop /\ queue \in Seq(Gradient) /\ queue # <<>>
            /\ waiting' \in [Node -> [Channel -> Seq(Gradient)]]
            /\ \A m \in Node, c \in Channel :
                 \/ waiting'[m][c] = waiting[m][c]
                 \/ waiting'[m][c] = Tail(waiting[m][c]) /\ waiting[m][c] # <<>>
            /\ \E k \in Loop :
                 /\ loop' = [loop EXCEPT ![n][t] = k]
                 /\ k.round = l.round
                 /\ \/ k.got = l.got
                    \/ Head(queue).iter = l.round /\ k.got = Append(l.got, Head(queue))
<1> DEFINE l == loop[n][t]
           queue == waiting[n][l.ch]
           got == IF Counts(l, Head(queue)) THEN Append(l.got, Head(queue)) ELSE l.got
           pc == IF Len(got) = K THEN "update" ELSE "gather"
           k == [l EXCEPT !.got = got, !.ch = chan[n], !.pc = pc]
<1>1. l \in Loop /\ l.pc = "gather" /\ chan[n] \in Channel
  BY DEF Gather, TypeOK, WorkersTypeOK
<1>2. l.ch \in Channel /\ l.got \in Seq(Gradient)
  BY <1>1 DEF Loop
<1>3. queue \in Seq(Gradient) /\ queue # <<>>
  BY <1>2 DEF Gather, TypeOK, WorkersTypeOK
<1>4. Head(queue) \in Gradient /\ Tail(queue) \in Seq(Gradient)
  BY <1>3, HeadTailProperties
<1>5. /\ waiting' \in [Node -> [Channel -> Seq(Gradient)]]
      /\ \A m \in Node, c \in Channel :
           \/ waiting'[m][c] = waiting[m][c]
           \/ waiting'[m][c] = Tail(waiting[m][c]) /\ waiting[m][c] # <<>>
  <2>1. waiting' = [waiting EXCEPT ![n][l.ch] = Tail(queue)]
    BY DEF Gather
  <2>2. waiting \in [Node -> [Channel -> Seq(Gradient)]]
    BY DEF TypeOK, WorkersTypeOK
  <2> HIDE DEF l
  <2> QED
    BY <1>2, <1>3, <1>4, <2>1, <2>2
<1>6. got \in Seq(Gradient)
  <2> HIDE DEF queue, l
  <2> QED
    BY <1>2, <1>4
<1>7. pc \in {"update", "gather"}
  OBVIOUS
<1>8. k \in Loop /\ k.round = l.round /\ k.got = got
  <2> HIDE DEF got, pc, l
  <2> QED
    BY <1>1, <1>6, <1>7 DEF Loop, Places
<1>9. loop' = [loop EXCEPT ![n][t] = k]
  BY DEF Gather, TypeOK
<1>10. got = l.got \/ (Head(queue).iter = l.round /\ got = Append(l.got, Head(queue)))
  BY DEF Counts
<1> QED
  <2> HIDE DEF got, k
  <2>1. /\ loop' = [loop EXCEPT ![n][t] = k] /\ k \in Loop /\ k.round = l.round
        /\ \/ k.got = l.got
           \/ Head(queue).iter = l.round /\ k.got = Append(l.got, Head(queue))
    BY <1>8, <1>9, <1>10
  <2> QED
    BY <1>1, <1>3, <1>5, <2>1

(* The remaining steps of the loop change one entry and gather nothing. *)
LEMMA LoopStep ==
  ASSUME TypeOK, NEW n \in Node, NEW t \in 1 .. Trainings,
         StartTraining(n, t) \/ UpdateWeights(n, t)
  PROVE  \E l \in Loop : /\ loop' = [loop EXCEPT ![n][t] = l]
                         /\ \/ l.got = <<>>
                            \/ l.got = loop[n][t].got /\ l.round = loop[n][t].round
<1>1. loop[n][t] \in Loop
  BY DEF TypeOK
<1>2. CASE StartTraining(n, t)
  <2> DEFINE l == [loop[n][t] EXCEPT !.pc = "send"]
  <2>1. loop[n][t].pc = "new"
    BY <1>2 DEF StartTraining
  <2>2. l \in Loop
    BY <1>1, <2>1 DEF Loop, Places
  <2>3. l.got = loop[n][t].got /\ l.round = loop[n][t].round
    BY <1>1 DEF Loop
  <2>4. loop' = [loop EXCEPT ![n][t] = l]
    BY <1>2 DEF StartTraining, TypeOK
  <2> HIDE DEF l
  <2> QED
    BY <2>2, <2>3, <2>4
<1>3. CASE UpdateWeights(n, t)
  <2> DEFINE old == loop[n][t]
             r == old.round + 1
             pc == IF r < Rounds THEN "send" ELSE "done"
             l == [old EXCEPT !.round = r, !.got = <<>>, !.pc = pc]
  <2>1. /\ r \in 0 .. Rounds /\ pc \in Places /\ (pc # "done" => r < Rounds)
        /\ <<>> \in Seq(Gradient)
    BY <1>1, <1>3, WorkersAssumption DEF UpdateWeights, Loop, Places
  <2>2. l \in Loop /\ l.got = <<>>
    <3> HIDE DEF old, r, pc
    <3>1. old \in Loop
      BY <1>1 DEF old
    <3> QED
      BY <2>1, <3>1 DEF Loop
  <2>3. loop' = [loop EXCEPT ![n][t] = l]
    BY <1>3 DEF UpdateWeights, TypeOK
  <2> HIDE DEF l
  <2> QED
    BY <2>2, <2>3
<1> QED
  BY <1>2, <1>3

(* The goroutine of a round changes no more of the loop than grad. *)
LEMMA ComputeOwnEffect ==
  ASSUME TypeOK, NEW n \in Node, NEW g \in own[n], ComputeOwn(n, g)
  PROVE  /\ \E l \in Loop : /\ loop' = [loop EXCEPT ![n][g.training] = l]
                            /\ l.got = loop[n][g.training].got
                            /\ l.round = loop[n][g.training].round
         /\ own' \in [Node -> SUBSET Own]
<1>1. g \in Own
  BY DEF TypeOK
<1>2. g.training \in 1 .. Trainings /\ g.round \in Iter /\ loop[n][g.training] \in Loop
  BY <1>1 DEF TypeOK, Own
<1> DEFINE old == loop[n][g.training]
           w == [trainer |-> n, training |-> g.training, rounds |-> g.round]
           l == [old EXCEPT !.grad = w]
<1>3. w \in Weights
  BY <1>2, WorkersAssumption DEF Weights
<1>4. l \in Loop /\ l.got = old.got /\ l.round = old.round
  <2>1. old \in Loop
    BY <1>2
  <2> HIDE DEF old, w
  <2> QED
    BY <1>3, <2>1 DEF Loop
<1>5. loop' = [loop EXCEPT ![n][g.training] = l]
  BY DEF ComputeOwn
<1>6. own' \in [Node -> SUBSET Own]
  <2>1. [g EXCEPT !.pc = "sleep"] \in Own
    BY <1>1 DEF Own
  <2> QED
    BY <2>1 DEF ComputeOwn, TypeOK
<1> QED
  BY <1>4, <1>5, <1>6

(* The gradient that the goroutine offers. *)
LEMMA OfferOwnEffect ==
  ASSUME TypeOK, NEW n \in Node, NEW g \in own[n], OfferOwn(n, g)
  PROVE  /\ \E h \in Gradient : h.org = n /\ h.dst = n /\ Offer(n, h)
         /\ own' \in [Node -> SUBSET Own]
         /\ UNCHANGED <<seen, chan, answers, net, loop>>
<1>1. g \in Own
  BY DEF TypeOK
<1>2. g.training \in 1 .. Trainings /\ g.round \in Iter /\ loop[n][g.training] \in Loop
  BY <1>1 DEF TypeOK, Own
<1>3. loop[n][g.training].grad \in Weights \cup {None}
  BY <1>2 DEF Loop
<1> DEFINE h == [org |-> n, dst |-> n, iter |-> g.round, of |-> loop[n][g.training].grad]
<1>4. h \in Gradient /\ h.org = n /\ h.dst = n
  BY <1>2, <1>3 DEF Gradient
<1>5. Offer(n, h)
  BY DEF OfferOwn
<1>6. own' \in [Node -> SUBSET Own]
  BY DEF OfferOwn, TypeOK
<1> QED
  BY <1>4, <1>5, <1>6 DEF OfferOwn

(* Every step keeps the state well-formed. *)
LEMMA TypeStep == TypeOK /\ [Next]_vars => TypeOK'
<1> SUFFICES ASSUME TypeOK, [Next]_vars PROVE TypeOK'
  OBVIOUS
<1> USE DEF workerVars
<1>1. ASSUME NEW n \in Node, ReceivePacket(n) \/ AnswerWeights(n), UNCHANGED <<loop, own>>
      PROVE  TypeOK'
  BY <1>1, WorkType DEF TypeOK
<1>2. ASSUME NEW n \in Node, NEW t \in 1 .. Trainings, StartTraining(n, t)
      PROVE  TypeOK'
  <2>1. loop' \in [Node -> [1 .. Trainings -> Loop]]
    BY <1>2, LoopStep, LoopType
  <2>2. chan' \in [Node -> Channel]
    BY <1>2, WorkersAssumption DEF StartTraining, TypeOK, WorkersTypeOK, Channel
  <2> QED
    BY <1>2, <2>1, <2>2 DEF StartTraining, TypeOK, WorkersTypeOK
<1>3. ASSUME NEW n \in Node, NEW t \in 1 .. Trainings, SendWeights(n, t)
      PROVE  TypeOK'
  <2>1. loop' \in [Node -> [1 .. Trainings -> Loop]] /\ own' \in [Node -> SUBSET Own]
    BY <1>3, SendWeightsEffect, LoopType
  <2>2. net' \subseteq WeightPacket \cup GradientPacket
    <3>1. /\ loop[n][t].round \in Iter /\ Current(n, t) \in Weights
          /\ net' \subseteq net \cup WeightPackets(n, n, loop[n][t].round, Current(n, t))
      BY <1>3, SendWeightsEffect
    <3>2. WeightPackets(n, n, loop[n][t].round, Current(n, t)) \subseteq WeightPacket
      BY <3>1, WeightPacketsType
    <3> QED
      BY <3>1, <3>2 DEF TypeOK, WorkersTypeOK
  <2> QED
    BY <1>3, <2>1, <2>2 DEF SendWeights, TypeOK, WorkersTypeOK
<1>4. ASSUME NEW n \in Node, NEW t \in 1 .. Trainings, Gather(n, t)
      PROVE  TypeOK'
  <2>1. PICK l \in Loop : loop' = [loop EXCEPT ![n][t] = l]
    BY <1>4, GatherEffect
  <2>2. loop' \in [Node -> [1 .. Trainings -> Loop]]
    BY <2>1, LoopType
  <2>3. waiting' \in [Node -> [Channel -> Seq(Gradient)]]
    BY <1>4, GatherEffect
  <2> QED
    BY <1>4, <2>2, <2>3 DEF Gather, TypeOK, WorkersTypeOK
<1>5. ASSUME NEW n \in Node, NEW t \in 1 .. Trainings, UpdateWeights(n, t)
      PROVE  TypeOK'
  <2>1. loop' \in [Node -> [1 .. Trainings -> Loop]]
    BY <1>5, LoopStep, LoopType
  <2> QED
    BY <1>5, <2>1 DEF UpdateWeights, TypeOK, WorkersTypeOK
<1>6. ASSUME NEW n \in Node, NEW g \in own[n], ComputeOwn(n, g)
      PROVE  TypeOK'
  <2>1. g.training \in 1 .. Trainings
    BY DEF TypeOK, Own
  <2>2. loop' \in [Node -> [1 .. Trainings -> Loop]] /\ own' \in [Node -> SUBSET Own]
    BY <1>6, <2>1, ComputeOwnEffect, LoopType
  <2> QED
    BY <1>6, <2>2 DEF ComputeOwn, TypeOK, WorkersTypeOK
<1>7. ASSUME NEW n \in Node, NEW g \in own[n], OfferOwn(n, g)
      PROVE  TypeOK'
  <2>1. waiting' \in [Node -> [Channel -> Seq(Gradient)]] /\ own' \in [Node -> SUBSET Own]
    BY <1>7, OfferOwnEffect, OfferType
  <2> QED
    BY <1>7, <2>1 DEF OfferOwn, TypeOK, WorkersTypeOK
<1>8. CASE UNCHANGED vars
  BY <1>8 DEF vars, TypeOK, WorkersTypeOK
<1> QED
  BY <1>1, <1>2, <1>3, <1>4, <1>5, <1>6, <1>7, <1>8 DEF Next

(* Packets, tables, channels and loops stay of the right shape, for every  *)
(* network, number of trainings and rounds.                                *)
THEOREM TrainingTypeCorrect == Spec => []TypeOK
<1> QED
  BY InitType, TypeStep, PTL DEF Spec

-----------------------------------------------------------------------------
(* Gradients are current when every node trains at most once. *)

(* At first nothing is under way. *)
LEMMA InitSound == Init => TrainingInv
BY DEF Init, WorkersInit, TrainingInv, PacketsSound, AnswersSound, WaitingSound, GatheredSound

(* Packets stay sound when sound ones are added. *)
LEMMA PacketsStep ==
  ASSUME PacketsSound, NEW sent, net' \subseteq net \cup sent,
         \A p \in sent : /\ p.kind = "weight" => p.weight = WeightsOf(p.org, p.iter)
                         /\ p.kind = "gradient" => Sound(p.gradient)
  PROVE  PacketsSound'
<1> SUFFICES ASSUME NEW p \in net'
             PROVE  /\ p.kind = "weight" => p.weight = WeightsOf(p.org, p.iter)
                    /\ p.kind = "gradient" => Sound(p.gradient)
  BY DEF PacketsSound
<1>1. CASE p \in net
  BY <1>1 DEF PacketsSound
<1>2. CASE p \in sent
  BY <1>2
<1> QED
  BY <1>1, <1>2

(* The gradients that wait stay sound when a sound one of the node's own   *)
(* trainings is offered.                                                   *)
LEMMA WaitingStep ==
  ASSUME TypeOK, WaitingSound, NEW n \in Node, NEW g \in Gradient, Offer(n, g),
         g.dst = n, Sound(g)
  PROVE  WaitingSound'
<1> SUFFICES ASSUME NEW m \in Node, NEW c \in Channel, NEW i \in 1 .. Len(waiting'[m][c])
             PROVE  waiting'[m][c][i].dst = m /\ Sound(waiting'[m][c][i])
  BY DEF WaitingSound
<1>1. waiting[m][c] \in Seq(Gradient)
  BY DEF TypeOK, WorkersTypeOK
<1>2. CASE waiting'[m][c] = waiting[m][c]
  BY <1>2 DEF WaitingSound
<1>3. CASE m = n /\ waiting'[m][c] = Append(waiting[m][c], g)
  <2>1. waiting'[m][c][i] = g \/ (i \in 1 .. Len(waiting[m][c]) /\ waiting'[m][c][i] = waiting[m][c][i])
    BY <1>1, <1>3, AppendProperties
  <2> QED
    BY <1>3, <2>1 DEF WaitingSound
<1> QED
  BY <1>2, <1>3, OfferType

(* What is gathered stays sound when an entry of loop changes to one whose *)
(* gradients are sound ones of its round.                                  *)
LEMMA GatheredStep ==
  ASSUME TypeOK, GatheredSound, NEW n \in Node, NEW t \in 1 .. Trainings, NEW l \in Loop,
         loop' = [loop EXCEPT ![n][t] = l],
         \A i \in 1 .. Len(l.got) :
           l.got[i].dst = n /\ l.got[i].iter = l.round /\ Sound(l.got[i])
  PROVE  GatheredSound'
<1> SUFFICES ASSUME NEW m \in Node, NEW u \in 1 .. Trainings,
                    NEW i \in 1 .. Len(loop'[m][u].got)
             PROVE  LET g == loop'[m][u].got[i]
                    IN g.dst = m /\ g.iter = loop'[m][u].round /\ Sound(g)
  BY DEF GatheredSound
<1>1. CASE m = n /\ u = t
  <2>1. loop'[m][u] = l
    BY <1>1, LoopType
  <2> QED
    BY <1>1, <2>1
<1>2. CASE ~(m = n /\ u = t)
  <2>1. loop'[m][u] = loop[m][u]
    BY <1>2, LoopType
  <2> QED
    BY <2>1 DEF GatheredSound
<1> QED
  BY <1>1, <1>2

(* The answers to weights are sound ones, and so is what is passed on. *)
LEMMA WorkSound ==
  ASSUME TypeOK, TrainingInv, NEW n \in Node, ReceivePacket(n) \/ AnswerWeights(n)
  PROVE  PacketsSound' /\ AnswersSound' /\ WaitingSound'
<1> USE DEF TrainingInv
<1>1. ASSUME NEW p \in net, HandleWeight(n, p)
      PROVE  PacketsSound' /\ AnswersSound' /\ WaitingSound'
  <2>1. PICK g \in Gradient :
          /\ g.org = n /\ g.dst = p.org /\ g.iter = p.iter
          /\ n \notin Byz => g.of = p.weight
          /\ net' \subseteq net \cup WeightPackets(n, p.org, p.iter, p.weight)
                                \cup GradientPackets(n, g)
          /\ \A m \in Node : answers'[m] \subseteq answers[m] \cup {g}
    BY <1>1, HandleWeightEffect
  <2>2. p \in WeightPacket /\ UNCHANGED waiting
    BY <1>1, HandleWeightEffect
  <2>3. /\ p.org \in Node /\ p.iter \in Iter /\ p.weight \in Weights
        /\ p.weight = WeightsOf(p.org, p.iter)
    BY <2>2 DEF WeightPacket, PacketsSound
  <2>4. Sound(g)
    BY <2>1, <2>3 DEF Sound
  <2>5. PacketsSound'
    <3> DEFINE sent == WeightPackets(n, p.org, p.iter, p.weight) \cup GradientPackets(n, g)
    <3>1. ASSUME NEW q \in sent
          PROVE  /\ q.kind = "weight" => q.weight = WeightsOf(q.org, q.iter)
                 /\ q.kind = "gradient" => Sound(q.gradient)
      <4>1. CASE q \in WeightPackets(n, p.org, p.iter, p.weight)
        BY <2>3, <4>1, WeightPacketsType
      <4>2. CASE q \in GradientPackets(n, g)
        BY <2>4, <4>2, GradientPacketsType
      <4> QED
        BY <4>1, <4>2
    <3>2. net' \subseteq net \cup sent
      BY <2>1
    <3> HIDE DEF sent
    <3> QED
      BY <3>1, <3>2, PacketsStep
  <2>6. AnswersSound'
    BY <2>1, <2>4 DEF AnswersSound
  <2>7. WaitingSound'
    BY <2>2 DEF WaitingSound
  <2> QED
    BY <2>5, <2>6, <2>7
<1>2. ASSUME NEW p \in net, HandleGradient(n, p)
      PROVE  PacketsSound' /\ AnswersSound' /\ WaitingSound'
  <2>1. /\ p \in GradientPacket
        /\ net' \subseteq net \cup GradientPackets(n, p.gradient)
        /\ waiting' = waiting \/ (p.gradient.dst = n /\ Offer(n, p.gradient))
        /\ UNCHANGED answers
    BY <1>2, HandleGradientEffect
  <2>2. p.gradient \in Gradient /\ Sound(p.gradient)
    BY <2>1 DEF GradientPacket, PacketsSound
  <2>3. \A q \in GradientPackets(n, p.gradient) :
          q.kind = "gradient" /\ q.gradient = p.gradient
    BY <2>2, GradientPacketsType
  <2>4. PacketsSound'
    BY <2>1, <2>2, <2>3, PacketsStep
  <2>5. WaitingSound'
    <3>1. CASE waiting' = waiting
      BY <3>1 DEF WaitingSound
    <3>2. CASE p.gradient.dst = n /\ Offer(n, p.gradient)
      BY <2>2, <3>2, WaitingStep
    <3> QED
      BY <2>1, <3>1, <3>2
  <2> QED
    BY <2>1, <2>4, <2>5 DEF AnswersSound
<1>3. ASSUME NEW g \in answers[n], SendAnswer(n, g)
      PROVE  PacketsSound' /\ AnswersSound' /\ WaitingSound'
  <2>1. g \in Gradient /\ Sound(g)
    BY DEF TypeOK, WorkersTypeOK, AnswersSound
  <2>2. \A q \in GradientPackets(n, g) : q.kind = "gradient" /\ q.gradient = g
    BY <2>1, GradientPacketsType
  <2>3. net' \subseteq net \cup GradientPackets(n, g)
    BY <1>3, TransferAdds DEF SendAnswer
  <2>4. PacketsSound'
    BY <2>1, <2>2, <2>3, PacketsStep
  <2>5. AnswersSound' /\ WaitingSound'
    BY <1>3 DEF SendAnswer, AnswersSound, WaitingSound, TypeOK, WorkersTypeOK
  <2> QED
    BY <2>4, <2>5
<1> QED
  BY <1>1, <1>2, <1>3 DEF ReceivePacket, AnswerWeights

(* Gathering moves a sound gradient of the round, or drops one. *)
LEMMA GatherSound ==
  ASSUME TypeOK, TrainingInv, NEW n \in Node, NEW t \in 1 .. Trainings, Gather(n, t)
  PROVE  WaitingSound' /\ GatheredSound'
<1> USE DEF TrainingInv
<1> DEFINE old == loop[n][t]
           queue == waiting[n][old.ch]
<1>1. /\ old \in Loop /\ queue \in Seq(Gradient) /\ queue # <<>>
      /\ \A m \in Node, c \in Channel :
           \/ waiting'[m][c] = waiting[m][c]
           \/ waiting'[m][c] = Tail(waiting[m][c]) /\ waiting[m][c] # <<>>
  BY GatherEffect
<1>2. PICK k \in Loop :
        /\ loop' = [loop EXCEPT ![n][t] = k]
        /\ k.round = old.round
        /\ \/ k.got = old.got
           \/ Head(queue).iter = old.round /\ k.got = Append(old.got, Head(queue))
  BY GatherEffect
<1>3. old.ch \in Channel /\ old.got \in Seq(Gradient)
  BY <1>1 DEF Loop
<1>4. Head(queue) = waiting[n][old.ch][1] /\ 1 \in 1 .. Len(queue)
  <2> HIDE DEF old
  <2> QED
    BY <1>1
<1>5. Head(queue).dst = n /\ Sound(Head(queue))
  BY <1>3, <1>4 DEF WaitingSound
<1>6. WaitingSound'
  <2> SUFFICES ASSUME NEW m \in Node, NEW c \in Channel, NEW i \in 1 .. Len(waiting'[m][c])
               PROVE  waiting'[m][c][i].dst = m /\ Sound(waiting'[m][c][i])
    BY DEF WaitingSound
  <2>1. waiting[m][c] \in Seq(Gradient)
    BY DEF TypeOK, WorkersTypeOK
  <2>2. CASE waiting'[m][c] = waiting[m][c]
    BY <2>2 DEF WaitingSound
  <2>3. CASE waiting'[m][c] = Tail(waiting[m][c]) /\ waiting[m][c] # <<>>
    <3>1. i + 1 \in 1 .. Len(waiting[m][c]) /\ waiting'[m][c][i] = waiting[m][c][i + 1]
      BY <2>1, <2>3
    <3> QED
      BY <3>1 DEF WaitingSound
  <2> QED
    BY <1>1, <2>2, <2>3
<1>7. GatheredSound'
  <2>1. ASSUME NEW i \in 1 .. Len(k.got)
        PROVE  k.got[i].dst = n /\ k.got[i].iter = k.round /\ Sound(k.got[i])
    <3>1. \A j \in 1 .. Len(old.got) :
            old.got[j].dst = n /\ old.got[j].iter = old.round /\ Sound(old.got[j])
      BY DEF GatheredSound
    <3>2. CASE k.got = old.got
      BY <1>2, <3>1, <3>2
    <3>3. CASE Head(queue).iter = old.round /\ k.got = Append(old.got, Head(queue))
      <4> HIDE DEF old, queue
      <4>1. k.got[i] = Head(queue) \/ (i \in 1 .. Len(old.got) /\ k.got[i] = old.got[i])
        BY <1>3, <3>3, AppendProperties
      <4> QED
        BY <1>2, <1>5, <3>1, <3>3, <4>1
    <3> QED
      BY <1>2, <3>2, <3>3
  <2> QED
    BY <1>2, <2>1, GatheredStep
<1> QED
  BY <1>6, <1>7

(* The invariant is inductive when there is one training per node. *)
LEMMA SoundStep ==
  ASSUME Trainings <= 1
  PROVE  TypeOK /\ TrainingInv /\ [Next]_vars => TrainingInv'
<1> SUFFICES ASSUME TypeOK, TrainingInv, [Next]_vars PROVE TrainingInv'
  OBVIOUS
<1> USE DEF TrainingInv, workerVars
<1>1. ASSUME NEW n \in Node, ReceivePacket(n) \/ AnswerWeights(n), UNCHANGED <<loop, own>>
      PROVE  TrainingInv'
  BY <1>1, WorkSound DEF GatheredSound
<1>2. ASSUME NEW n \in Node, NEW t \in 1 .. Trainings,
             StartTraining(n, t) \/ UpdateWeights(n, t)
      PROVE  TrainingInv'
  <2>1. PICK l \in Loop : /\ loop' = [loop EXCEPT ![n][t] = l]
                          /\ \/ l.got = <<>>
                             \/ l.got = loop[n][t].got /\ l.round = loop[n][t].round
    BY <1>2, LoopStep
  <2>2. ASSUME NEW i \in 1 .. Len(l.got)
        PROVE  l.got[i].dst = n /\ l.got[i].iter = l.round /\ Sound(l.got[i])
    BY <2>1 DEF GatheredSound
  <2>3. GatheredSound'
    BY <2>1, <2>2, GatheredStep
  <2>4. UNCHANGED <<waiting, answers, net>>
    BY <1>2 DEF StartTraining, UpdateWeights
  <2> QED
    BY <2>3, <2>4 DEF PacketsSound, AnswersSound, WaitingSound
<1>3. ASSUME NEW n \in Node, NEW t \in 1 .. Trainings, SendWeights(n, t)
      PROVE  TrainingInv'
  <2>1. /\ loop[n][t].round \in Iter /\ Current(n, t) \in Weights
        /\ net' \subseteq net \cup WeightPackets(n, n, loop[n][t].round, Current(n, t))
    BY <1>3, SendWeightsEffect
  <2>2. Current(n, t) = WeightsOf(n, loop[n][t].round)
    BY WorkersAssumption DEF Current, WeightsOf
  <2>3. \A p \in WeightPackets(n, n, loop[n][t].round, Current(n, t)) :
          p.kind = "weight" /\ p.weight = WeightsOf(p.org, p.iter)
    BY <2>1, <2>2, WeightPacketsType
  <2>4. PacketsSound'
    BY <2>1, <2>3, PacketsStep
  <2>5. PICK l \in Loop : loop' = [loop EXCEPT ![n][t] = l] /\ l.got = <<>>
    BY <1>3, SendWeightsEffect
  <2>6. 1 .. Len(l.got) = {}
    BY <2>5
  <2>7. GatheredSound'
    BY <2>5, <2>6, GatheredStep
  <2> QED
    BY <1>3, <2>4, <2>7 DEF SendWeights, AnswersSound, WaitingSound
<1>4. ASSUME NEW n \in Node, NEW t \in 1 .. Trainings, Gather(n, t)
      PROVE  TrainingInv'
  BY <1>4, GatherSound DEF Gather, PacketsSound, AnswersSound
<1>5. ASSUME NEW n \in Node, NEW g \in own[n], ComputeOwn(n, g)
      PROVE  TrainingInv'
  <2>1. g.training \in 1 .. Trainings
    BY DEF TypeOK, Own
  <2>2. PICK l \in Loop : /\ loop' = [loop EXCEPT ![n][g.training] = l]
                          /\ l.got = loop[n][g.training].got
                          /\ l.round = loop[n][g.training].round
    BY <1>5, ComputeOwnEffect
  <2>3. ASSUME NEW i \in 1 .. Len(l.got)
        PROVE  l.got[i].dst = n /\ l.got[i].iter = l.round /\ Sound(l.got[i])
    BY <2>1, <2>2 DEF GatheredSound
  <2>4. GatheredSound'
    BY <2>1, <2>2, <2>3, GatheredStep
  <2> QED
    BY <1>5, <2>4 DEF ComputeOwn, PacketsSound, AnswersSound, WaitingSound
<1>6. ASSUME NEW n \in Node, NEW g \in own[n], OfferOwn(n, g)
      PROVE  TrainingInv'
  <2>1. PICK h \in Gradient : h.org = n /\ h.dst = n /\ Offer(n, h)
    BY <1>6, OfferOwnEffect
  <2>2. Sound(h)
    BY <2>1 DEF Sound
  <2>3. WaitingSound'
    BY <2>1, <2>2, WaitingStep
  <2> QED
    BY <1>6, <2>3 DEF OfferOwn, PacketsSound, AnswersSound, GatheredSound
<1>7. CASE UNCHANGED vars
  BY <1>7 DEF vars, PacketsSound, AnswersSound, WaitingSound, GatheredSound
<1> QED
  BY <1>1, <1>2, <1>3, <1>4, <1>5, <1>6, <1>7 DEF Next

(* Gathered gradients of honest workers are gradients at the weights. *)
LEMMA SoundIsCurrent ==
  ASSUME Trainings <= 1, TypeOK, GatheredSound
  PROVE  WorkersUseCurrentWeights
<1> SUFFICES ASSUME NEW n \in Node, NEW t \in 1 .. Trainings,
                    NEW i \in DOMAIN loop[n][t].got,
                    loop[n][t].got[i].org \notin Byz \cup {n}
             PROVE  loop[n][t].got[i].of = Current(n, t)
  BY DEF WorkersUseCurrentWeights, Gathered
<1>1. loop[n][t].got \in Seq(Gradient)
  BY DEF TypeOK, Loop
<1>2. i \in 1 .. Len(loop[n][t].got)
  BY <1>1
<1>3. t = 1
  BY WorkersAssumption
<1> DEFINE g == loop[n][t].got[i]
<1>4. g.dst = n /\ g.iter = loop[n][t].round /\ Sound(g)
  BY <1>2 DEF GatheredSound
<1>5. g.of = WeightsOf(n, loop[n][t].round)
  BY <1>4 DEF Sound
<1> QED
  BY <1>3, <1>5 DEF Current, WeightsOf

(* When no node trains twice, every step of a training is taken with       *)
(* gradients at the weights that take it, those of Byzantine nodes and the *)
(* trainer's own apart, whatever is lost, late or received again.          *)
THEOREM OneTrainingIsCurrent ==
  ASSUME Trainings <= 1
  PROVE  Spec => []WorkersUseCurrentWeights
<1>1. Init => TypeOK /\ TrainingInv
  BY InitType, InitSound
<1>2. TypeOK /\ TrainingInv /\ [Next]_vars => (TypeOK /\ TrainingInv)'
  BY TypeStep, SoundStep
<1>3. TypeOK /\ TrainingInv => WorkersUseCurrentWeights
  BY SoundIsCurrent DEF TrainingInv
<1> QED
  BY <1>1, <1>2, <1>3, PTL DEF Spec

-----------------------------------------------------------------------------
(* No gradient is in two places, as long as no node trains twice and no    *)
(* datagram is received twice.  The gradient of node o for round r of n is *)
(* at one of four places, once: at o before it leaves, under way, in a     *)
(* queue of n, or counted.                                                 *)
Pending(o, n, r) ==
  \/ \E g \in answers[o] : g.dst = n /\ g.iter = r
  \/ o = n /\ \E g \in own[n] : g.round = r

Flying(o, n, r) ==
  \E p \in net : p.kind = "gradient" /\ p.gradient.org = o /\ p.gradient.dst = n /\ p.gradient.iter = r

(* The i-th gradient waiting on channel c of n is the one of o for round r.*)
Waits(n, c, i, o, r) ==
  i \in 1 .. Len(waiting[n][c]) /\ waiting[n][c][i].org = o /\ waiting[n][c][i].iter = r

Queued(o, n, r) == \E c \in Channel : \E i \in Nat : Waits(n, c, i, o, r)

Counted(o, n, r) ==
  \E t \in 1 .. Trainings : \E i \in 1 .. Len(loop[n][t].got) :
    loop[n][t].got[i].org = o /\ loop[n][t].got[i].iter = r

(* The weights of round r of n have left.                                  *)
Past(l, r) == r < l.round \/ (r = l.round /\ l.pc \in {"gather", "update"})

Begun(n, r) == \E t \in 1 .. Trainings : Past(loop[n][t], r)

(* Why o has computed a gradient for round r of n.                         *)
Due(o, n, r) == IF o = n THEN Begun(n, r) ELSE Concat[n][r] \in seen[o]

AtOnePlace(o, n, r) ==
  /\ Pending(o, n, r) => ~Flying(o, n, r) /\ ~Queued(o, n, r) /\ ~Counted(o, n, r)
  /\ Flying(o, n, r) => ~Queued(o, n, r) /\ ~Counted(o, n, r)
  /\ Queued(o, n, r) => ~Counted(o, n, r)
  /\ Pending(o, n, r) \/ Flying(o, n, r) \/ Queued(o, n, r) \/ Counted(o, n, r) => Due(o, n, r)

PlacesDiffer == \A o, n \in Node : \A r \in Iter : AtOnePlace(o, n, r)

AnswersOnce ==
  \A o \in Node : \A g \in answers[o] :
    /\ g.org = o /\ g.dst # o
    /\ \A h \in answers[o] : g.dst = h.dst /\ g.iter = h.iter => g = h

OwnOnce == \A n \in Node : \A g, h \in own[n] : g.round = h.round => g = h

PacketsOnce ==
  \A p \in net : p.kind = "gradient" =>
    /\ p.gradient.org # p.gradient.dst
    /\ \A q \in net : /\ q.kind = "gradient"
                      /\ q.gradient.org = p.gradient.org /\ q.gradient.dst = p.gradient.dst
                      /\ q.gradient.iter = p.gradient.iter
                      => q = p

QueuesOnce ==
  \A n, o \in Node : \A r \in Iter : \A c, d \in Channel : \A i, j \in Nat :
    Waits(n, c, i, o, r) /\ Waits(n, d, j, o, r) => c = d /\ i = j

CountedOnce ==
  \A n \in Node : \A t \in 1 .. Trainings :
    \A i, j \in 1 .. Len(loop[n][t].got) :
      loop[n][t].got[i].org = loop[n][t].got[j].org => i = j

OnceInv == PlacesDiffer /\ AnswersOnce /\ OwnOnce /\ PacketsOnce /\ QueuesOnce /\ CountedOnce

(* A step is taken with K gradients, and the rounds before it have been    *)
(* answered.                                                               *)
FullUpdates ==
  \A n \in Node : \A t \in 1 .. Trainings : loop[n][t].pc = "update" => Len(loop[n][t].got) = K

-----------------------------------------------------------------------------
(* Where a gradient can go in a step. *)

Keeps(o, n, r) ==
  /\ Pending(o, n, r)' => Pending(o, n, r)
  /\ Flying(o, n, r)' => Flying(o, n, r)
  /\ Queued(o, n, r)' => Queued(o, n, r)
  /\ Counted(o, n, r)' => Counted(o, n, r)

(* All gradients but one stay where they are. *)
LEMMA PlacesStep ==
  ASSUME PlacesDiffer, NEW o0 \in Node, NEW n0 \in Node, NEW r0 \in Iter,
         \A o, n \in Node : \A r \in Iter : Due(o, n, r) => Due(o, n, r)',
         \A o, n \in Node : \A r \in Iter : ~(o = o0 /\ n = n0 /\ r = r0) => Keeps(o, n, r),
         AtOnePlace(o0, n0, r0)'
  PROVE  PlacesDiffer'
<1> SUFFICES ASSUME NEW o \in Node, NEW n \in Node, NEW r \in Iter
             PROVE  AtOnePlace(o, n, r)'
  BY DEF PlacesDiffer
<1>1. CASE o = o0 /\ n = n0 /\ r = r0
  BY <1>1
<1>2. CASE ~(o = o0 /\ n = n0 /\ r = r0)
  BY <1>2 DEF PlacesDiffer, AtOnePlace, Keeps
<1> QED
  BY <1>1, <1>2

LEMMA PlacesKept ==
  ASSUME PlacesDiffer,
         \A o, n \in Node : \A r \in Iter : Due(o, n, r) => Due(o, n, r)',
         \A o, n \in Node : \A r \in Iter : Keeps(o, n, r)
  PROVE  PlacesDiffer'
<1> SUFFICES ASSUME NEW o \in Node, NEW n \in Node, NEW r \in Iter
             PROVE  AtOnePlace(o, n, r)'
  BY DEF PlacesDiffer
<1> QED
  BY DEF PlacesDiffer, AtOnePlace, Keeps

(* A datagram that is received once is gone. *)
LEMMA TransferMoves ==
  ASSUME ~Duplicates, NEW p, NEW sent, Transfer(p, sent)
  PROVE  net' \subseteq (net \ p) \cup sent
BY DEF Transfer

LEMMA OneGradientPacket ==
  ASSUME NEW n \in Node, NEW g, NEW p \in GradientPackets(n, g), NEW q \in GradientPackets(n, g)
  PROVE  p = q
BY DEF GradientPackets

LEMMA PacketsMove ==
  ASSUME PacketsOnce, NEW g, NEW gone, NEW sent, net' \subseteq (net \ gone) \cup sent,
         g.org # g.dst,
         \A q \in sent : q.kind = "gradient" => q.gradient = g,
         \A p, q \in sent : p.kind = "gradient" /\ q.kind = "gradient" => p = q,
         \A p \in net \ gone : p.kind = "gradient" =>
           ~(p.gradient.org = g.org /\ p.gradient.dst = g.dst /\ p.gradient.iter = g.iter)
  PROVE  /\ PacketsOnce'
         /\ \A o, n, r : Flying(o, n, r)' =>
              Flying(o, n, r) \/ (o = g.org /\ n = g.dst /\ r = g.iter)
<1>1. PacketsOnce'
  <2> SUFFICES ASSUME NEW p \in net', p.kind = "gradient", NEW q \in net', q.kind = "gradient"
               PROVE  /\ p.gradient.org # p.gradient.dst
                      /\ q.gradient.org = p.gradient.org /\ q.gradient.dst = p.gradient.dst
                         /\ q.gradient.iter = p.gradient.iter => q = p
    BY DEF PacketsOnce
  <2>1. p \in net \ gone \/ p \in sent
    OBVIOUS
  <2>2. q \in net \ gone \/ q \in sent
    OBVIOUS
  <2> QED
    BY <2>1, <2>2 DEF PacketsOnce
<1>2. ASSUME NEW o, NEW n, NEW r, Flying(o, n, r)'
      PROVE  Flying(o, n, r) \/ (o = g.org /\ n = g.dst /\ r = g.iter)
  <2>1. PICK p \in net' : p.kind = "gradient" /\ p.gradient.org = o /\ p.gradient.dst = n
                          /\ p.gradient.iter = r
    BY <1>2 DEF Flying
  <2> QED
    BY <2>1 DEF Flying
<1> QED
  BY <1>1, <1>2

LEMMA PacketsStay ==
  ASSUME PacketsOnce, NEW sent, net' \subseteq net \cup sent,
         \A q \in sent : q.kind # "gradient"
  PROVE  PacketsOnce' /\ \A o, n, r : Flying(o, n, r)' => Flying(o, n, r)
BY DEF PacketsOnce, Flying

(* What offering a gradient, and taking the first one, does to the queues. *)
LEMMA OfferQueues ==
  ASSUME TypeOK, QueuesOnce, NEW n \in Node, NEW g \in Gradient, g.dst = n, Offer(n, g),
         ~Queued(g.org, n, g.iter)
  PROVE  /\ QueuesOnce'
         /\ \A o, m \in Node : \A r \in Iter : Queued(o, m, r)' =>
              Queued(o, m, r) \/ (o = g.org /\ m = n /\ r = g.iter)
<1>1. ASSUME NEW m \in Node, NEW o \in Node, NEW r \in Iter, NEW c \in Channel, NEW i \in Nat,
             Waits(m, c, i, o, r)'
      PROVE  \/ Waits(m, c, i, o, r)
             \/ /\ m = n /\ c = chan[n] /\ o = g.org /\ r = g.iter
                /\ i = Len(waiting[m][c]) + 1
  <2>1. PICK s \in Seq(Gradient) : s = waiting[m][c]
    BY DEF TypeOK, WorkersTypeOK
  <2>2. waiting'[m][c] = s \/ (m = n /\ c = chan[n] /\ waiting'[m][c] = Append(s, g))
    BY <2>1 DEF Offer, TypeOK, WorkersTypeOK
  <2>3. i \in 1 .. Len(waiting'[m][c]) /\ waiting'[m][c][i].org = o /\ waiting'[m][c][i].iter = r
    BY <1>1 DEF Waits
  <2>4. CASE waiting'[m][c] = Append(s, g)
    BY <2>1, <2>2, <2>3, <2>4, AppendProperties DEF Waits
  <2>5. CASE waiting'[m][c] = s
    BY <2>1, <2>3, <2>5 DEF Waits
  <2> QED
    BY <2>2, <2>4, <2>5
<1>2. QueuesOnce'
  <2> SUFFICES ASSUME NEW m \in Node, NEW o \in Node, NEW r \in Iter,
                      NEW c \in Channel, NEW d \in Channel, NEW i \in Nat, NEW j \in Nat,
                      Waits(m, c, i, o, r)', Waits(m, d, j, o, r)'
               PROVE  c = d /\ i = j
    BY Zenon DEF QueuesOnce
  <2>1. Waits(m, c, i, o, r) \/ (m = n /\ c = chan[n] /\ o = g.org /\ r = g.iter /\ i = Len(waiting[m][c]) + 1)
    BY <1>1
  <2>2. Waits(m, d, j, o, r) \/ (m = n /\ d = chan[n] /\ o = g.org /\ r = g.iter /\ j = Len(waiting[m][d]) + 1)
    BY <1>1
  <2>3. m = n /\ o = g.org /\ r = g.iter => ~Waits(m, c, i, o, r) /\ ~Waits(m, d, j, o, r)
    BY DEF Queued
  <2>4. Waits(m, c, i, o, r) /\ Waits(m, d, j, o, r) => c = d /\ i = j
    BY Zenon DEF QueuesOnce
  <2> QED
    BY <2>1, <2>2, <2>3, <2>4
<1>3. ASSUME NEW o \in Node, NEW m \in Node, NEW r \in Iter, Queued(o, m, r)'
      PROVE  Queued(o, m, r) \/ (o = g.org /\ m = n /\ r = g.iter)
  <2>1. PICK c \in Channel, i \in Nat : Waits(m, c, i, o, r)'
    BY <1>3 DEF Queued
  <2> QED
    BY <1>1, <2>1, Zenon DEF Queued
<1> QED
  BY <1>2, <1>3

Pop(n, c) == /\ waiting[n][c] # <<>>
             /\ waiting' = [waiting EXCEPT ![n][c] = Tail(@)]

LEMMA PopQueues ==
  ASSUME TypeOK, QueuesOnce, NEW n \in Node, NEW c \in Channel, Pop(n, c),
         NEW h, h = Head(waiting[n][c])
  PROVE  /\ QueuesOnce'
         /\ \A o, m \in Node : \A r \in Iter : Queued(o, m, r)' =>
              Queued(o, m, r) /\ ~(o = h.org /\ m = n /\ r = h.iter)
         /\ h \in Gradient /\ Queued(h.org, n, h.iter)
<1>1. h \in Gradient /\ Waits(n, c, 1, h.org, h.iter)
  <2>1. PICK s \in Seq(Gradient) : s = waiting[n][c]
    BY DEF TypeOK, WorkersTypeOK
  <2>2. s # <<>>
    BY <2>1 DEF Pop
  <2>3. Head(s) \in Gradient /\ Head(s) = s[1] /\ 1 \in 1 .. Len(s)
    BY <2>2
  <2> QED
    BY <2>1, <2>3 DEF Waits
<1>2. ASSUME NEW m \in Node, NEW o \in Node, NEW r \in Iter, NEW d \in Channel, NEW i \in Nat,
             Waits(m, d, i, o, r)'
      PROVE  Waits(m, d, IF m = n /\ d = c THEN i + 1 ELSE i, o, r) /\ i # 0
  <2>1. PICK s \in Seq(Gradient) : s = waiting[m][d]
    BY DEF TypeOK, WorkersTypeOK
  <2>2. i \in 1 .. Len(waiting'[m][d]) /\ waiting'[m][d][i].org = o /\ waiting'[m][d][i].iter = r
    BY <1>2 DEF Waits
  <2>3. CASE m = n /\ d = c
    <3>1. waiting'[m][d] = Tail(s) /\ s # <<>>
      BY <2>1, <2>3 DEF Pop, TypeOK, WorkersTypeOK
    <3>2. i + 1 \in 1 .. Len(s) /\ waiting'[m][d][i] = s[i + 1] /\ i # 0
      BY <2>2, <3>1
    <3> QED
      BY <2>1, <2>2, <2>3, <3>2 DEF Waits
  <2>4. CASE ~(m = n /\ d = c)
    <3>1. waiting'[m][d] = s
      BY <2>1, <2>4 DEF Pop, TypeOK, WorkersTypeOK
    <3> QED
      BY <2>1, <2>2, <2>4, <3>1 DEF Waits
  <2> QED
    BY <2>3, <2>4
<1>3. QueuesOnce'
  <2> SUFFICES ASSUME NEW m \in Node, NEW o \in Node, NEW r \in Iter,
                      NEW d \in Channel, NEW e \in Channel, NEW i \in Nat, NEW j \in Nat,
                      Waits(m, d, i, o, r)', Waits(m, e, j, o, r)'
               PROVE  d = e /\ i = j
    BY Zenon DEF QueuesOnce
  <2>1. PICK k \in Nat : Waits(m, d, k, o, r) /\ k = IF m = n /\ d = c THEN i + 1 ELSE i
    BY <1>2
  <2>2. PICK l \in Nat : Waits(m, e, l, o, r) /\ l = IF m = n /\ e = c THEN j + 1 ELSE j
    BY <1>2
  <2>3. d = e /\ k = l
    BY <2>1, <2>2, Zenon DEF QueuesOnce
  <2> QED
    BY <2>1, <2>2, <2>3
<1>4. ASSUME NEW o \in Node, NEW m \in Node, NEW r \in Iter, Queued(o, m, r)'
      PROVE  Queued(o, m, r) /\ ~(o = h.org /\ m = n /\ r = h.iter)
  <2>1. PICK d \in Channel, i \in Nat : Waits(m, d, i, o, r)'
    BY <1>4 DEF Queued
  <2>2. PICK j \in Nat : Waits(m, d, j, o, r) /\ j = (IF m = n /\ d = c THEN i + 1 ELSE i) /\ i # 0
    BY <1>2, <2>1
  <2>3. Queued(o, m, r)
    BY <2>2 DEF Queued
  <2>4. CASE o = h.org /\ m = n /\ r = h.iter
    <3>1. c = d /\ 1 = j
      <4>1. Waits(m, c, 1, o, r) /\ 1 \in Nat
        BY <1>1, <2>4
      <4> QED
        BY <2>2, <4>1, Zenon DEF QueuesOnce
    <3> QED
      BY <2>2, <2>4, <3>1
  <2> QED
    BY <2>3, <2>4
<1>5. Queued(h.org, n, h.iter)
  BY <1>1 DEF Queued
<1> QED
  BY <1>1, <1>3, <1>4, <1>5, Zenon

(* The loops: rounds only go on, and gradients are dropped.                *)
Forward ==
  \A m \in Node : \A u \in 1 .. Trainings :
    /\ loop'[m][u].got = loop[m][u].got \/ loop'[m][u].got = <<>>
    /\ \A r \in Iter : Past(loop[m][u], r) => Past(loop'[m][u], r)

LEMMA LoopsForward ==
  ASSUME TypeOK, NEW n \in Node, NEW t \in 1 .. Trainings,
         \/ StartTraining(n, t) \/ SendWeights(n, t) \/ UpdateWeights(n, t)
         \/ \E g \in own[n] : g.training = t /\ ComputeOwn(n, g)
  PROVE  Forward
<1>1. PICK k \in Loop : k = loop[n][t]
  BY DEF TypeOK
<1>2. \E l : /\ loop' = [loop EXCEPT ![n][t] = l]
             /\ l.got = k.got \/ l.got = <<>>
             /\ \A r \in Iter : Past(k, r) => Past(l, r)
  <2>1. CASE StartTraining(n, t)
    <3>1. PICK l : l = [k EXCEPT !.pc = "send"]
      OBVIOUS
    <3>2. loop' = [loop EXCEPT ![n][t] = l] /\ k.pc = "new"
      BY <1>1, <2>1, <3>1 DEF StartTraining, TypeOK
    <3>3. l.got = k.got /\ l.round = k.round
      BY <3>1 DEF Loop
    <3> QED
      BY <3>2, <3>3 DEF Past
  <2>2. CASE SendWeights(n, t)
    <3>1. PICK l : l = [k EXCEPT !.pc = "gather", !.ch = chan[n], !.got = <<>>]
      OBVIOUS
    <3>2. loop' = [loop EXCEPT ![n][t] = l] /\ k.pc = "send"
      BY <1>1, <2>2, <3>1 DEF SendWeights, TypeOK
    <3>3. l.got = <<>> /\ l.round = k.round
      BY <3>1 DEF Loop
    <3> QED
      BY <3>2, <3>3 DEF Past
  <2>3. CASE UpdateWeights(n, t)
    <3>1. PICK l : l = [k EXCEPT !.round = k.round + 1, !.got = <<>>,
                                 !.pc = IF k.round + 1 < Rounds THEN "send" ELSE "done"]
      OBVIOUS
    <3>2. loop' = [loop EXCEPT ![n][t] = l] /\ k.pc = "update"
      BY <1>1, <2>3, <3>1 DEF UpdateWeights, TypeOK
    <3>3. l.got = <<>> /\ l.round = k.round + 1 /\ k.round \in Nat
      BY <3>1 DEF Loop
    <3>4. \A r \in Iter : Past(k, r) => Past(l, r)
      BY <3>3, WorkersAssumption DEF Past, Iter
    <3> QED
      BY <3>2, <3>3, <3>4
  <2>4. ASSUME NEW g \in own[n], g.training = t, ComputeOwn(n, g)
        PROVE  \E l : /\ loop' = [loop EXCEPT ![n][t] = l]
                      /\ l.got = k.got \/ l.got = <<>>
                      /\ \A r \in Iter : Past(k, r) => Past(l, r)
    <3>1. PICK l : l = [k EXCEPT !.grad = [trainer |-> n, training |-> g.training, rounds |-> g.round]]
      OBVIOUS
    <3>2. loop' = [loop EXCEPT ![n][t] = l]
      BY <1>1, <2>4, <3>1 DEF ComputeOwn, TypeOK
    <3>3. l.got = k.got /\ l.round = k.round /\ l.pc = k.pc
      BY <3>1 DEF Loop
    <3> QED
      BY <3>2, <3>3 DEF Past
  <2> QED
    BY <2>1, <2>2, <2>3, <2>4
<1>3. PICK l : /\ loop' = [loop EXCEPT ![n][t] = l]
               /\ l.got = k.got \/ l.got = <<>>
               /\ \A r \in Iter : Past(k, r) => Past(l, r)
  BY <1>2
<1>4. ASSUME NEW m \in Node, NEW u \in 1 .. Trainings
      PROVE  loop'[m][u] = IF m = n /\ u = t THEN l ELSE loop[m][u]
  BY <1>3 DEF TypeOK
<1> QED
  BY <1>1, <1>3, <1>4 DEF Forward

LEMMA ForwardKeeps ==
  ASSUME TypeOK, CountedOnce, Forward
  PROVE  /\ CountedOnce'
         /\ \A o, n \in Node : \A r \in Iter : Counted(o, n, r)' => Counted(o, n, r)
         /\ \A n \in Node : \A r \in Iter : Begun(n, r) => Begun(n, r)'
<1>1. ASSUME NEW n \in Node, NEW t \in 1 .. Trainings, NEW i \in 1 .. Len(loop'[n][t].got)
      PROVE  loop'[n][t].got = loop[n][t].got
  BY DEF Forward
<1>2. CountedOnce'
  <2> SUFFICES ASSUME NEW n \in Node, NEW t \in 1 .. Trainings,
                      NEW i \in 1 .. Len(loop'[n][t].got), NEW j \in 1 .. Len(loop'[n][t].got),
                      loop'[n][t].got[i].org = loop'[n][t].got[j].org
               PROVE  i = j
    BY DEF CountedOnce
  <2>1. loop'[n][t].got = loop[n][t].got
    BY <1>1
  <2> QED
    BY <2>1 DEF CountedOnce
<1>3. ASSUME NEW o \in Node, NEW n \in Node, NEW r \in Iter, Counted(o, n, r)'
      PROVE  Counted(o, n, r)
  <2>1. PICK t \in 1 .. Trainings : \E i \in 1 .. Len(loop'[n][t].got) :
          loop'[n][t].got[i].org = o /\ loop'[n][t].got[i].iter = r
    BY <1>3 DEF Counted
  <2>2. loop'[n][t].got = loop[n][t].got
    BY <1>1, <2>1
  <2> QED
    BY <2>1, <2>2 DEF Counted
<1>4. ASSUME NEW n \in Node, NEW r \in Iter, Begun(n, r)
      PROVE  Begun(n, r)'
  BY <1>4 DEF Begun, Forward
<1> QED
  BY <1>2, <1>3, <1>4

LEMMA DueGrows ==
  ASSUME \A m \in Node : seen[m] \subseteq seen'[m],
         \A n \in Node : \A r \in Iter : Begun(n, r) => Begun(n, r)'
  PROVE  \A o, n \in Node : \A r \in Iter : Due(o, n, r) => Due(o, n, r)'
BY DEF Due

-----------------------------------------------------------------------------
(* One lemma for each action. *)

LEMMA HandleWeightOnce ==
  ASSUME TypeOK, OnceInv, ~Duplicates, UNCHANGED <<loop, own>>,
         NEW n \in Node, NEW p \in net, HandleWeight(n, p)
  PROVE  OnceInv'
<1>1. p \in WeightPacket /\ UNCHANGED <<chan, waiting>>
  BY HandleWeightEffect
<1>2. p.org \in Node /\ p.iter \in Iter /\ p.kind = "weight"
  BY <1>1 DEF WeightPacket
<1>3. OwnOnce' /\ QueuesOnce' /\ CountedOnce'
  <2>1. OwnOnce' /\ CountedOnce'
    BY DEF OnceInv, OwnOnce, CountedOnce
  <2>2. QueuesOnce'
    BY <1>1 DEF OnceInv, QueuesOnce, Waits
  <2> QED
    BY <2>1, <2>2
<1>4. \A o, m \in Node : \A r \in Iter :
        /\ Queued(o, m, r)' <=> Queued(o, m, r)
        /\ Counted(o, m, r)' <=> Counted(o, m, r)
        /\ Begun(m, r) => Begun(m, r)'
  BY <1>1 DEF Queued, Waits, Counted, Begun, Past
<1>5. CASE Transfer({p}, {}) /\ UNCHANGED <<seen, answers>>
  <2>1. net' \subseteq net
    BY <1>5, TransferMoves
  <2>2. PacketsOnce' /\ \A o, m, r : Flying(o, m, r)' => Flying(o, m, r)
    <3>1. PICK none : none = {}
      OBVIOUS
    <3>2. net' \subseteq net \cup none /\ \A q \in none : q.kind # "gradient"
      BY <2>1, <3>1
    <3> QED
      BY <3>2, PacketsStay DEF OnceInv
  <2>3. AnswersOnce'
    BY <1>5 DEF OnceInv, AnswersOnce
  <2>4. \A o, m \in Node : \A r \in Iter : Pending(o, m, r)' <=> Pending(o, m, r)
    BY <1>5 DEF Pending
  <2>5. \A o, m \in Node : \A r \in Iter : Due(o, m, r) => Due(o, m, r)'
    BY <1>4, <1>5, DueGrows
  <2>6. PlacesDiffer'
    BY <1>4, <2>2, <2>4, <2>5, PlacesKept DEF OnceInv, Keeps
  <2> QED
    BY <1>3, <2>2, <2>3, <2>6 DEF OnceInv
<1>6. ASSUME NEW key, key = Concat[p.org][p.iter], key \notin seen[n], p.org # n,
             seen' = [seen EXCEPT ![n] = @ \cup {key}],
             NEW of, NEW g, g = [org |-> n, dst |-> p.org, iter |-> p.iter, of |-> of],
             NEW relayed, relayed = WeightPackets(n, p.org, p.iter, p.weight),
             \/ Transfer({p}, relayed \cup GradientPackets(n, g)) /\ answers' = answers
             \/ Transfer({p}, relayed) /\ answers' = [answers EXCEPT ![n] = @ \cup {g}]
      PROVE  OnceInv'
  <2>1. g.org = n /\ g.dst = p.org /\ g.iter = p.iter
    BY <1>6
  <2>2. seen \in [Node -> SUBSET Key] /\ answers \in [Node -> SUBSET Gradient]
    BY DEF TypeOK, WorkersTypeOK
  <2>3. ~Due(n, p.org, p.iter)
    BY <1>6 DEF Due
  <2>4. /\ ~Pending(n, p.org, p.iter) /\ ~Flying(n, p.org, p.iter)
        /\ ~Queued(n, p.org, p.iter) /\ ~Counted(n, p.org, p.iter)
    BY <1>2, <2>3 DEF OnceInv, PlacesDiffer, AtOnePlace
  <2>5. (\A m \in Node : seen[m] \subseteq seen'[m]) /\ Due(n, p.org, p.iter)'
    BY <1>6, <2>2 DEF Due
  <2>6. \A o, m \in Node : \A r \in Iter : Due(o, m, r) => Due(o, m, r)'
    BY <1>4, <2>5, DueGrows
  <2>7. \A q \in relayed : q.kind # "gradient"
    BY <1>6 DEF WeightPackets
  <2>8. CASE Transfer({p}, relayed \cup GradientPackets(n, g)) /\ answers' = answers
    <3>1. PICK sent : sent = relayed \cup GradientPackets(n, g)
      OBVIOUS
    <3>2. net' \subseteq (net \ {p}) \cup sent
      BY <2>8, <3>1, TransferMoves
    <3>3. \A q \in sent : q.kind = "gradient" => q \in GradientPackets(n, g) /\ q.gradient = g
      BY <2>7, <3>1 DEF GradientPackets
    <3>4. \A q, s \in sent : q.kind = "gradient" /\ s.kind = "gradient" => q = s
      BY <3>3, OneGradientPacket
    <3>5. \A q \in net \ {p} : q.kind = "gradient" =>
            ~(q.gradient.org = g.org /\ q.gradient.dst = g.dst /\ q.gradient.iter = g.iter)
      BY <2>1, <2>4 DEF Flying
    <3>6. PacketsOnce' /\ \A o, m, r : Flying(o, m, r)' =>
            Flying(o, m, r) \/ (o = n /\ m = p.org /\ r = p.iter)
      <4>1. PacketsOnce /\ g.org # g.dst
        BY <1>6, <2>1 DEF OnceInv
      <4>2. PacketsOnce' /\ \A o, m, r : Flying(o, m, r)' =>
              Flying(o, m, r) \/ (o = g.org /\ m = g.dst /\ r = g.iter)
        <5>1. PICK gone : gone = {p}
          OBVIOUS
        <5>2. \A q \in sent : q.kind = "gradient" => q.gradient = g
          BY <3>3
        <5>3. /\ net' \subseteq (net \ gone) \cup sent
              /\ \A q \in net \ gone : q.kind = "gradient" =>
                   ~(q.gradient.org = g.org /\ q.gradient.dst = g.dst /\ q.gradient.iter = g.iter)
          BY <3>2, <3>5, <5>1
        <5> QED
          BY <3>4, <4>1, <5>2, <5>3, PacketsMove
      <4> QED
        BY <2>1, <4>2
    <3>7. AnswersOnce' /\ \A o, m \in Node : \A r \in Iter : Pending(o, m, r)' <=> Pending(o, m, r)
      BY <2>8 DEF OnceInv, AnswersOnce, Pending
    <3>8. AtOnePlace(n, p.org, p.iter)'
      BY <1>2, <1>4, <2>4, <2>5, <3>7 DEF AtOnePlace
    <3>9. PlacesDiffer'
      BY <1>2, <1>4, <2>6, <3>6, <3>7, <3>8, PlacesStep DEF OnceInv, Keeps
    <3> QED
      BY <1>3, <3>6, <3>7, <3>9 DEF OnceInv
  <2>9. CASE Transfer({p}, relayed) /\ answers' = [answers EXCEPT ![n] = @ \cup {g}]
    <3>1. net' \subseteq net \cup relayed
      BY <2>9, TransferMoves
    <3>2. PacketsOnce' /\ \A o, m, r : Flying(o, m, r)' => Flying(o, m, r)
      BY <2>7, <3>1, PacketsStay DEF OnceInv
    <3>3. answers'[n] = answers[n] \cup {g} /\ \A m \in Node \ {n} : answers'[m] = answers[m]
      BY <2>2, <2>9
    <3>4. \A h \in answers[n] : ~(h.dst = g.dst /\ h.iter = g.iter)
      BY <2>1, <2>4 DEF Pending
    <3>5. AnswersOnce'
      <4> SUFFICES ASSUME NEW o \in Node, NEW h \in answers'[o]
                   PROVE  /\ h.org = o /\ h.dst # o
                          /\ \A k \in answers'[o] : h.dst = k.dst /\ h.iter = k.iter => h = k
        BY DEF AnswersOnce
      <4>1. AnswersOnce
        BY DEF OnceInv
      <4>2. CASE o = n
        <5>1. h \in answers[n] \/ h = g
          BY <3>3, <4>2
        <5>2. h.org = n /\ h.dst # n
          BY <1>6, <2>1, <4>1, <5>1 DEF AnswersOnce
        <5>3. ASSUME NEW k \in answers'[n], h.dst = k.dst, h.iter = k.iter PROVE h = k
          <6>1. k \in answers[n] \/ k = g
            BY <3>3
          <6> QED
            BY <3>4, <4>1, <5>1, <5>3, <6>1 DEF AnswersOnce
        <5> QED
          BY <4>2, <5>2, <5>3
      <4>3. CASE o # n
        BY <3>3, <4>1, <4>3 DEF AnswersOnce
      <4> QED
        BY <4>2, <4>3
    <3>6. \A o, m \in Node : \A r \in Iter : Pending(o, m, r)' =>
            Pending(o, m, r) \/ (o = n /\ m = p.org /\ r = p.iter)
      BY <2>1, <3>3 DEF Pending
    <3>7. AtOnePlace(n, p.org, p.iter)'
      BY <1>2, <1>4, <2>4, <2>5, <3>2 DEF AtOnePlace
    <3>8. PlacesDiffer'
      BY <1>2, <1>4, <2>6, <3>2, <3>6, <3>7, PlacesStep DEF OnceInv, Keeps
    <3> QED
      BY <1>3, <3>2, <3>5, <3>8 DEF OnceInv
  <2> QED
    BY <1>6, <2>8, <2>9
<1> QED
  BY <1>5, <1>6 DEF HandleWeight, Answered

LEMMA SendAnswerOnce ==
  ASSUME TypeOK, OnceInv, ~Duplicates, UNCHANGED <<loop, own>>,
         NEW n \in Node, NEW g \in answers[n], SendAnswer(n, g)
  PROVE  OnceInv'
<1>1. g \in Gradient /\ answers \in [Node -> SUBSET Gradient] /\ UNCHANGED <<seen, chan, waiting>>
      /\ answers' = [answers EXCEPT ![n] = @ \ {g}]
  BY DEF SendAnswer, TypeOK, WorkersTypeOK
<1>2. g.org = n /\ g.dst # n /\ g.dst \in Node /\ g.iter \in Iter
      /\ \A h \in answers[n] : g.dst = h.dst /\ g.iter = h.iter => g = h
  BY <1>1 DEF OnceInv, AnswersOnce, Gradient
<1>3. OwnOnce' /\ QueuesOnce' /\ CountedOnce'
  <2>1. OwnOnce' /\ CountedOnce'
    BY DEF OnceInv, OwnOnce, CountedOnce
  <2>2. QueuesOnce'
    BY <1>1 DEF OnceInv, QueuesOnce, Waits
  <2> QED
    BY <2>1, <2>2
<1>4. \A o, m \in Node : \A r \in Iter :
        /\ Queued(o, m, r)' <=> Queued(o, m, r)
        /\ Counted(o, m, r)' <=> Counted(o, m, r)
        /\ Due(o, m, r)' <=> Due(o, m, r)
  BY <1>1 DEF Queued, Waits, Counted, Due, Begun, Past
<1>5. Pending(n, g.dst, g.iter)
  BY DEF Pending
<1>6. /\ ~Flying(n, g.dst, g.iter) /\ ~Queued(n, g.dst, g.iter) /\ ~Counted(n, g.dst, g.iter)
      /\ Due(n, g.dst, g.iter)
  BY <1>2, <1>5 DEF OnceInv, PlacesDiffer, AtOnePlace
<1>7. PacketsOnce' /\ \A o, m, r : Flying(o, m, r)' =>
        Flying(o, m, r) \/ (o = n /\ m = g.dst /\ r = g.iter)
  <2>1. PICK sent : sent = GradientPackets(n, g)
    OBVIOUS
  <2>2. PICK gone : gone = {}
    OBVIOUS
  <2>3. net' \subseteq (net \ gone) \cup sent
    BY <2>1, <2>2, TransferAdds DEF SendAnswer
  <2>4. \A q \in sent : q.kind = "gradient" /\ q.gradient = g
    BY <2>1 DEF GradientPackets
  <2>5. \A q, s \in sent : q = s
    BY <2>1, OneGradientPacket
  <2>6. \A q \in net \ gone : q.kind = "gradient" =>
          ~(q.gradient.org = g.org /\ q.gradient.dst = g.dst /\ q.gradient.iter = g.iter)
    BY <1>2, <1>6 DEF Flying
  <2>7. PacketsOnce /\ g.org # g.dst
    BY <1>2 DEF OnceInv
  <2>8. PacketsOnce' /\ \A o, m, r : Flying(o, m, r)' =>
          Flying(o, m, r) \/ (o = g.org /\ m = g.dst /\ r = g.iter)
    BY <2>3, <2>4, <2>5, <2>6, <2>7, PacketsMove
  <2> QED
    BY <1>2, <2>8
<1>8. answers'[n] = answers[n] \ {g} /\ \A m \in Node \ {n} : answers'[m] = answers[m]
  BY <1>1
<1>9. AnswersOnce'
  BY <1>8 DEF OnceInv, AnswersOnce
<1>10. \A o, m \in Node : \A r \in Iter : Pending(o, m, r)' => Pending(o, m, r)
  BY <1>8 DEF Pending
<1>11. ~Pending(n, g.dst, g.iter)'
  BY <1>2, <1>8 DEF Pending
<1>12. AtOnePlace(n, g.dst, g.iter)'
  BY <1>2, <1>4, <1>6, <1>11 DEF AtOnePlace
<1>13. PlacesDiffer'
  BY <1>2, <1>4, <1>7, <1>10, <1>12, PlacesStep DEF OnceInv, Keeps
<1> QED
  BY <1>3, <1>7, <1>9, <1>13 DEF OnceInv

LEMMA HandleGradientOnce ==
  ASSUME TypeOK, OnceInv, ~Duplicates, UNCHANGED <<loop, own>>,
         NEW n \in Node, NEW p \in net, HandleGradient(n, p)
  PROVE  OnceInv'
<1>1. p \in GradientPacket /\ UNCHANGED <<seen, chan, answers>>
  BY HandleGradientEffect
<1>2. PICK g \in Gradient : g = p.gradient
  BY <1>1 DEF GradientPacket
<1>3. p.kind = "gradient" /\ g.org \in Node /\ g.dst \in Node /\ g.iter \in Iter
      /\ g.org # g.dst /\ Flying(g.org, g.dst, g.iter)
  BY <1>1, <1>2 DEF GradientPacket, Gradient, OnceInv, PacketsOnce, Flying
<1>4. /\ ~Pending(g.org, g.dst, g.iter) /\ ~Queued(g.org, g.dst, g.iter)
      /\ ~Counted(g.org, g.dst, g.iter) /\ Due(g.org, g.dst, g.iter)
  BY <1>3 DEF OnceInv, PlacesDiffer, AtOnePlace
<1>5. \A q \in net \ {p} : q.kind = "gradient" =>
        ~(q.gradient.org = g.org /\ q.gradient.dst = g.dst /\ q.gradient.iter = g.iter)
  BY <1>2, <1>3 DEF OnceInv, PacketsOnce
<1>6. OwnOnce' /\ AnswersOnce' /\ CountedOnce'
  BY <1>1 DEF OnceInv, OwnOnce, AnswersOnce, CountedOnce
<1>7. \A o, m \in Node : \A r \in Iter :
        /\ Pending(o, m, r)' <=> Pending(o, m, r)
        /\ Counted(o, m, r)' <=> Counted(o, m, r)
        /\ Due(o, m, r)' <=> Due(o, m, r)
  BY <1>1 DEF Pending, Counted, Due, Begun, Past
<1>8. ASSUME NEW sent, net' \subseteq (net \ {p}) \cup sent,
             \A q \in sent : q.kind = "gradient" /\ q.gradient = g, \A q, s \in sent : q = s
      PROVE  PacketsOnce' /\ \A o, m, r : Flying(o, m, r)' =>
               Flying(o, m, r) \/ (o = g.org /\ m = g.dst /\ r = g.iter)
  <2>1. PICK gone : gone = {p}
    OBVIOUS
  <2>2. /\ net' \subseteq (net \ gone) \cup sent /\ PacketsOnce
        /\ \A q \in net \ gone : q.kind = "gradient" =>
             ~(q.gradient.org = g.org /\ q.gradient.dst = g.dst /\ q.gradient.iter = g.iter)
    BY <1>5, <1>8, <2>1 DEF OnceInv
  <2>3. g.org # g.dst
    BY <1>3
  <2>4. /\ \A q \in sent : q.kind = "gradient" => q.gradient = g
        /\ \A q, s \in sent : q.kind = "gradient" /\ s.kind = "gradient" => q = s
    BY <1>8
  <2> QED
    BY <2>2, <2>3, <2>4, PacketsMove
<1>9. CASE g.dst = n
  <2>1. Transfer({p}, {}) /\ Offer(n, g)
    BY <1>2, <1>9 DEF HandleGradient
  <2>2. net' \subseteq net \ {p}
    BY <2>1, TransferMoves
  <2>3. PacketsOnce' /\ \A o, m, r : Flying(o, m, r)' => Flying(o, m, r)
    BY <2>2 DEF OnceInv, PacketsOnce, Flying
  <2>4. ~Flying(g.org, g.dst, g.iter)'
    BY <1>5, <2>2 DEF Flying
  <2>5. QueuesOnce' /\ \A o, m \in Node : \A r \in Iter : Queued(o, m, r)' =>
          Queued(o, m, r) \/ (o = g.org /\ m = g.dst /\ r = g.iter)
    BY <1>4, <1>9, <2>1, OfferQueues DEF OnceInv
  <2>6. AtOnePlace(g.org, g.dst, g.iter)'
    BY <1>3, <1>4, <1>7, <2>4 DEF AtOnePlace
  <2>7. PlacesDiffer'
    BY <1>3, <1>7, <2>3, <2>5, <2>6, PlacesStep DEF OnceInv, Keeps
  <2> QED
    BY <1>6, <2>3, <2>5, <2>7 DEF OnceInv
<1>10. CASE g.dst # n
  <2>1. Transfer({p}, GradientPackets(n, g)) /\ waiting' = waiting
    BY <1>2, <1>10 DEF HandleGradient
  <2>2. PICK sent : sent = GradientPackets(n, g)
    OBVIOUS
  <2>3. net' \subseteq (net \ {p}) \cup sent
    BY <2>1, <2>2, TransferMoves
  <2>4. (\A q \in sent : q.kind = "gradient" /\ q.gradient = g) /\ (\A q, s \in sent : q = s)
    BY <2>2, OneGradientPacket DEF GradientPackets
  <2>5. PacketsOnce' /\ \A o, m, r : Flying(o, m, r)' =>
          Flying(o, m, r) \/ (o = g.org /\ m = g.dst /\ r = g.iter)
    BY <1>8, <2>3, <2>4
  <2>6. QueuesOnce' /\ \A o, m \in Node : \A r \in Iter : Queued(o, m, r)' <=> Queued(o, m, r)
    BY <1>1, <2>1 DEF OnceInv, QueuesOnce, Queued, Waits
  <2>7. AtOnePlace(g.org, g.dst, g.iter)'
    BY <1>3, <1>4, <1>7, <2>6 DEF AtOnePlace
  <2>8. PlacesDiffer'
    BY <1>3, <1>7, <2>5, <2>6, <2>7, PlacesStep DEF OnceInv, Keeps
  <2> QED
    BY <1>6, <2>5, <2>6, <2>8 DEF OnceInv
<1> QED
  BY <1>9, <1>10

LEMMA SendWeightsOnce ==
  ASSUME TypeOK, OnceInv, Trainings <= 1, NEW n \in Node, NEW t \in 1 .. Trainings,
         SendWeights(n, t)
  PROVE  OnceInv'
<1>1. PICK r \in Iter : r = loop[n][t].round /\ loop[n][t].pc = "send"
  BY SendWeightsEffect DEF SendWeights
<1>2. UNCHANGED <<seen, chan, waiting, answers>>
  BY DEF SendWeights
<1>3. PICK g : g = [pc |-> "compute", training |-> t, round |-> r]
  OBVIOUS
<1>4. own'[n] = own[n] \cup {g} /\ \A m \in Node \ {n} : own'[m] = own[m]
  BY <1>1, <1>3 DEF SendWeights, TypeOK
<1>5. g.round = r
  BY <1>3
<1>6. ~Begun(n, r)
  <2>1. \A u \in 1 .. Trainings : u = t
    BY WorkersAssumption
  <2>2. ~Past(loop[n][t], r)
    BY <1>1, WorkersAssumption DEF Past, Iter
  <2> QED
    BY <2>1, <2>2 DEF Begun
<1>7. ~Pending(n, n, r) /\ ~Flying(n, n, r) /\ ~Queued(n, n, r) /\ ~Counted(n, n, r)
  BY <1>6 DEF OnceInv, PlacesDiffer, AtOnePlace, Due
<1>8. CountedOnce' /\ (\A o, m \in Node : \A q \in Iter : Counted(o, m, q)' => Counted(o, m, q))
      /\ (\A m \in Node : \A q \in Iter : Begun(m, q) => Begun(m, q)')
  BY LoopsForward, ForwardKeeps DEF OnceInv
<1>9. Due(n, n, r)'
  <2>1. PICK k \in Loop : k = loop[n][t]
    BY DEF TypeOK
  <2>2. loop'[n][t] = [k EXCEPT !.pc = "gather", !.ch = chan[n], !.got = <<>>]
    BY <2>1 DEF SendWeights, TypeOK
  <2>3. loop'[n][t].pc = "gather" /\ loop'[n][t].round = r
    BY <1>1, <2>1, <2>2 DEF Loop
  <2> QED
    BY <2>3 DEF Due, Begun, Past
<1>10. PacketsOnce' /\ \A o, m, q : Flying(o, m, q)' => Flying(o, m, q)
  <2>1. PICK sent : sent = WeightPackets(n, n, r, Current(n, t))
    OBVIOUS
  <2>2. net' \subseteq net \cup sent
    BY <1>1, <2>1, SendWeightsEffect
  <2>3. \A q \in sent : q.kind # "gradient"
    BY <2>1 DEF WeightPackets
  <2> QED
    BY <2>2, <2>3, PacketsStay DEF OnceInv
<1>11. OwnOnce'
  <2> SUFFICES ASSUME NEW m \in Node, NEW h \in own'[m], NEW k \in own'[m], h.round = k.round
               PROVE  h = k
    BY DEF OwnOnce
  <2>1. CASE m = n
    <3>1. \A x \in own[n] : x.round # r
      BY <1>7 DEF Pending
    <3> QED
      BY <1>4, <1>5, <2>1, <3>1 DEF OnceInv, OwnOnce
  <2>2. CASE m # n
    BY <1>4, <2>2 DEF OnceInv, OwnOnce
  <2> QED
    BY <2>1, <2>2
<1>12. AnswersOnce' /\ QueuesOnce'
  BY <1>2 DEF OnceInv, AnswersOnce, QueuesOnce, Waits
<1>13. \A o, m \in Node : \A q \in Iter :
         /\ Queued(o, m, q)' <=> Queued(o, m, q)
         /\ Pending(o, m, q)' => Pending(o, m, q) \/ (o = n /\ m = n /\ q = r)
  BY <1>2, <1>4, <1>5 DEF Queued, Waits, Pending
<1>14. \A o, m \in Node : \A q \in Iter : Due(o, m, q) => Due(o, m, q)'
  BY <1>2, <1>8, DueGrows
<1>15. AtOnePlace(n, n, r)'
  BY <1>7, <1>8, <1>9, <1>10, <1>13 DEF AtOnePlace
<1>16. PlacesDiffer'
  BY <1>8, <1>10, <1>13, <1>14, <1>15, PlacesStep DEF OnceInv, Keeps
<1> QED
  BY <1>8, <1>10, <1>11, <1>12, <1>16 DEF OnceInv

LEMMA LoopOnce ==
  ASSUME TypeOK, OnceInv, NEW n \in Node, NEW t \in 1 .. Trainings,
         StartTraining(n, t) \/ UpdateWeights(n, t)
  PROVE  OnceInv'
<1>1. UNCHANGED <<seen, waiting, answers, net, own>>
  BY DEF StartTraining, UpdateWeights, workerVars
<1>2. CountedOnce' /\ (\A o, m \in Node : \A q \in Iter : Counted(o, m, q)' => Counted(o, m, q))
      /\ (\A m \in Node : \A q \in Iter : Begun(m, q) => Begun(m, q)')
  BY LoopsForward, ForwardKeeps DEF OnceInv
<1>3. AnswersOnce' /\ OwnOnce' /\ PacketsOnce' /\ QueuesOnce'
  BY <1>1 DEF OnceInv, AnswersOnce, OwnOnce, PacketsOnce, QueuesOnce, Waits
<1>4. \A o, m \in Node : \A q \in Iter : Keeps(o, m, q)
  BY <1>1, <1>2 DEF Keeps, Pending, Flying, Queued, Waits
<1>5. \A o, m \in Node : \A q \in Iter : Due(o, m, q) => Due(o, m, q)'
  BY <1>1, <1>2, DueGrows
<1> QED
  BY <1>2, <1>3, <1>4, <1>5, PlacesKept DEF OnceInv

LEMMA ComputeOwnOnce ==
  ASSUME TypeOK, OnceInv, NEW n \in Node, NEW g \in own[n], ComputeOwn(n, g)
  PROVE  OnceInv'
<1>1. UNCHANGED <<seen, chan, waiting, answers, net>>
  BY DEF ComputeOwn, workerVars
<1>2. g \in Own /\ g.training \in 1 .. Trainings
  BY DEF TypeOK, Own
<1>3. CountedOnce' /\ (\A o, m \in Node : \A q \in Iter : Counted(o, m, q)' => Counted(o, m, q))
      /\ (\A m \in Node : \A q \in Iter : Begun(m, q) => Begun(m, q)')
  BY <1>2, LoopsForward, ForwardKeeps DEF OnceInv
<1>4. PICK h : h = [g EXCEPT !.pc = "sleep"]
  OBVIOUS
<1>5. h.round = g.round
  BY <1>2, <1>4 DEF Own
<1>6. own'[n] = (own[n] \ {g}) \cup {h} /\ \A m \in Node \ {n} : own'[m] = own[m]
  BY <1>4 DEF ComputeOwn, TypeOK
<1>7. OwnOnce'
  <2> SUFFICES ASSUME NEW m \in Node, NEW x \in own'[m], NEW y \in own'[m], x.round = y.round
               PROVE  x = y
    BY DEF OwnOnce
  <2>1. CASE m = n
    BY <1>5, <1>6, <2>1 DEF OnceInv, OwnOnce
  <2>2. CASE m # n
    BY <1>6, <2>2 DEF OnceInv, OwnOnce
  <2> QED
    BY <2>1, <2>2
<1>8. AnswersOnce' /\ PacketsOnce' /\ QueuesOnce'
  BY <1>1 DEF OnceInv, AnswersOnce, PacketsOnce, QueuesOnce, Waits
<1>9. \A o, m \in Node : \A q \in Iter : Pending(o, m, q)' => Pending(o, m, q)
  BY <1>1, <1>5, <1>6 DEF Pending
<1>10. \A o, m \in Node : \A q \in Iter : Keeps(o, m, q)
  BY <1>1, <1>3, <1>9 DEF Keeps, Flying, Queued, Waits
<1>11. \A o, m \in Node : \A q \in Iter : Due(o, m, q) => Due(o, m, q)'
  BY <1>1, <1>3, DueGrows
<1> QED
  BY <1>3, <1>7, <1>8, <1>10, <1>11, PlacesKept DEF OnceInv

LEMMA OfferOwnOnce ==
  ASSUME TypeOK, OnceInv, NEW n \in Node, NEW g \in own[n], OfferOwn(n, g)
  PROVE  OnceInv'
<1>1. UNCHANGED <<seen, chan, answers, net, loop>> /\ own' = [own EXCEPT ![n] = @ \ {g}]
  BY DEF OfferOwn
<1>2. g \in Own /\ g.training \in 1 .. Trainings /\ g.round \in Iter
  BY DEF TypeOK, Own
<1>3. PICK h \in Gradient : h.org = n /\ h.dst = n /\ h.iter = g.round /\ Offer(n, h)
  <2>1. loop[n][g.training] \in Loop
    BY <1>2 DEF TypeOK
  <2>2. PICK of \in Weights \cup {None} : of = loop[n][g.training].grad
    BY <2>1 DEF Loop
  <2>3. PICK h : h = [org |-> n, dst |-> n, iter |-> g.round, of |-> of]
    OBVIOUS
  <2>4. h \in Gradient /\ h.org = n /\ h.dst = n /\ h.iter = g.round
    BY <1>2, <2>3 DEF Gradient
  <2>5. Offer(n, h)
    BY <2>2, <2>3 DEF OfferOwn
  <2> QED
    BY <2>4, <2>5
<1>4. Pending(n, n, g.round)
  BY DEF Pending
<1>5. /\ ~Flying(n, n, g.round) /\ ~Queued(n, n, g.round) /\ ~Counted(n, n, g.round)
      /\ Due(n, n, g.round)
  BY <1>2, <1>4 DEF OnceInv, PlacesDiffer, AtOnePlace
<1>6. own'[n] = own[n] \ {g} /\ \A m \in Node \ {n} : own'[m] = own[m]
  BY <1>1 DEF TypeOK
<1>7. ~Pending(n, n, g.round)'
  <2>1. \A x \in own'[n] : x.round # g.round
    BY <1>6 DEF OnceInv, OwnOnce
  <2>2. \A x \in answers'[n] : x.dst # n
    BY <1>1 DEF OnceInv, AnswersOnce
  <2> QED
    BY <2>1, <2>2 DEF Pending
<1>8. QueuesOnce' /\ \A o, m \in Node : \A r \in Iter : Queued(o, m, r)' =>
        Queued(o, m, r) \/ (o = n /\ m = n /\ r = g.round)
  BY <1>3, <1>5, OfferQueues DEF OnceInv
<1>9. AnswersOnce' /\ OwnOnce' /\ PacketsOnce' /\ CountedOnce'
  BY <1>1, <1>6 DEF OnceInv, AnswersOnce, OwnOnce, PacketsOnce, CountedOnce
<1>10. \A o, m \in Node : \A r \in Iter :
         /\ Pending(o, m, r)' => Pending(o, m, r)
         /\ Flying(o, m, r)' <=> Flying(o, m, r)
         /\ Counted(o, m, r)' <=> Counted(o, m, r)
         /\ Due(o, m, r)' <=> Due(o, m, r)
  BY <1>1, <1>6 DEF Pending, Flying, Counted, Due, Begun, Past
<1>11. AtOnePlace(n, n, g.round)'
  BY <1>2, <1>5, <1>7, <1>10 DEF AtOnePlace
<1>12. PlacesDiffer'
  BY <1>2, <1>8, <1>10, <1>11, PlacesStep DEF OnceInv, Keeps
<1> QED
  BY <1>8, <1>9, <1>12 DEF OnceInv

LEMMA GatherOnce ==
  ASSUME TypeOK, GatheredSound, OnceInv, NEW n \in Node, NEW t \in 1 .. Trainings, Gather(n, t)
  PROVE  OnceInv'
<1>1. PICK k \in Loop : k = loop[n][t]
  BY DEF TypeOK
<1>2. PICK c \in Channel : c = k.ch
  BY DEF Loop
<1>3. Pop(n, c)
  BY <1>1, <1>2 DEF Gather, Pop
<1>4. PICK h \in Gradient : h = Head(waiting[n][c]) /\ Queued(h.org, n, h.iter)
  BY <1>3, PopQueues DEF OnceInv
<1>5. h.org \in Node /\ h.iter \in Iter
  BY DEF Gradient
<1>6. QueuesOnce' /\ \A o, m \in Node : \A r \in Iter : Queued(o, m, r)' =>
        Queued(o, m, r) /\ ~(o = h.org /\ m = n /\ r = h.iter)
  BY <1>3, <1>4, PopQueues DEF OnceInv
<1>7. /\ ~Pending(h.org, n, h.iter) /\ ~Flying(h.org, n, h.iter) /\ ~Counted(h.org, n, h.iter)
      /\ Due(h.org, n, h.iter)
  BY <1>4, <1>5 DEF OnceInv, PlacesDiffer, AtOnePlace
<1>8. PICK got : got = IF Counts(k, h) THEN Append(k.got, h) ELSE k.got
  OBVIOUS
<1>9. PICK pc : pc = IF Len(got) = K THEN "update" ELSE "gather"
  OBVIOUS
<1>10. /\ loop' = [loop EXCEPT ![n][t] = [k EXCEPT !.got = got, !.ch = chan[n], !.pc = pc]]
       /\ k.pc = "gather" /\ UNCHANGED <<seen, chan, answers, net, own>>
  BY <1>1, <1>2, <1>4, <1>8, <1>9 DEF Gather, TypeOK
<1>11. PICK l : l = [k EXCEPT !.got = got, !.ch = chan[n], !.pc = pc]
  OBVIOUS
<1>12. l.got = got /\ l.round = k.round /\ l.pc \in {"gather", "update"}
  BY <1>9, <1>11 DEF Loop
<1>13. ASSUME NEW m \in Node, NEW u \in 1 .. Trainings
       PROVE  loop'[m][u] = IF m = n /\ u = t THEN l ELSE loop[m][u]
  BY <1>10, <1>11 DEF TypeOK
<1>14. ASSUME NEW i \in 1 .. Len(got)
       PROVE  \/ i \in 1 .. Len(k.got) /\ got[i] = k.got[i]
              \/ i = Len(k.got) + 1 /\ got[i] = h /\ h.iter = k.round
  <2>1. PICK s \in Seq(Gradient) : s = k.got
    BY DEF Loop
  <2>2. CASE Counts(k, h)
    BY <1>8, <2>1, <2>2, AppendProperties DEF Counts
  <2>3. CASE ~Counts(k, h)
    BY <1>8, <2>3
  <2> QED
    BY <2>2, <2>3
<1>15. \A i \in 1 .. Len(k.got) : k.got[i].iter = k.round
  BY <1>1 DEF GatheredSound
<1>16. \A i \in 1 .. Len(k.got) : ~(k.got[i].org = h.org /\ h.iter = k.round)
  BY <1>1, <1>7, <1>15 DEF Counted
<1>17. CountedOnce'
  <2> SUFFICES ASSUME NEW m \in Node, NEW u \in 1 .. Trainings,
                      NEW i \in 1 .. Len(loop'[m][u].got), NEW j \in 1 .. Len(loop'[m][u].got),
                      loop'[m][u].got[i].org = loop'[m][u].got[j].org
               PROVE  i = j
    BY DEF CountedOnce
  <2>1. CASE m = n /\ u = t
    <3>1. loop'[m][u].got = got
      BY <1>12, <1>13, <2>1
    <3>2. i \in 1 .. Len(got) /\ j \in 1 .. Len(got) /\ got[i].org = got[j].org
      BY <3>1
    <3>3. \A x, y \in 1 .. Len(k.got) : k.got[x].org = k.got[y].org => x = y
      BY <1>1 DEF OnceInv, CountedOnce
    <3> QED
      BY <1>14, <1>16, <3>2, <3>3
  <2>2. CASE ~(m = n /\ u = t)
    <3>1. loop'[m][u] = loop[m][u]
      BY <1>13, <2>2
    <3> QED
      BY <3>1 DEF OnceInv, CountedOnce
  <2> QED
    BY <2>1, <2>2
<1>18. ASSUME NEW o \in Node, NEW m \in Node, NEW r \in Iter, Counted(o, m, r)'
       PROVE  Counted(o, m, r) \/ (o = h.org /\ m = n /\ r = h.iter)
  <2>1. PICK u \in 1 .. Trainings : \E i \in 1 .. Len(loop'[m][u].got) :
          loop'[m][u].got[i].org = o /\ loop'[m][u].got[i].iter = r
    BY <1>18 DEF Counted
  <2>2. PICK i \in 1 .. Len(loop'[m][u].got) :
          loop'[m][u].got[i].org = o /\ loop'[m][u].got[i].iter = r
    BY <2>1
  <2>3. CASE m = n /\ u = t
    <3>1. loop'[m][u].got = got
      BY <1>12, <1>13, <2>3
    <3>2. i \in 1 .. Len(got) /\ got[i].org = o /\ got[i].iter = r
      BY <2>2, <3>1
    <3>3. CASE i \in 1 .. Len(k.got) /\ got[i] = k.got[i]
      BY <1>1, <2>3, <3>2, <3>3 DEF Counted
    <3> QED
      BY <1>14, <2>3, <3>2, <3>3
  <2>4. CASE ~(m = n /\ u = t)
    <3>1. loop'[m][u] = loop[m][u]
      BY <1>13, <2>4
    <3> QED
      BY <2>2, <3>1 DEF Counted
  <2> QED
    BY <2>3, <2>4
<1>19. \A m \in Node : \A r \in Iter : Begun(m, r) => Begun(m, r)'
  <2> SUFFICES ASSUME NEW m \in Node, NEW r \in Iter, NEW u \in 1 .. Trainings, Past(loop[m][u], r)
               PROVE  Past(loop'[m][u], r)
    BY DEF Begun
  <2>1. CASE m = n /\ u = t
    BY <1>1, <1>12, <1>13, <2>1 DEF Past
  <2>2. CASE ~(m = n /\ u = t)
    BY <1>13, <2>2
  <2> QED
    BY <2>1, <2>2
<1>20. \A o, m \in Node : \A r \in Iter : Due(o, m, r) => Due(o, m, r)'
  BY <1>10, <1>19, DueGrows
<1>21. \A o, m \in Node : \A r \in Iter :
         /\ Pending(o, m, r)' <=> Pending(o, m, r)
         /\ Flying(o, m, r)' <=> Flying(o, m, r)
  BY <1>10 DEF Pending, Flying
<1>22. AnswersOnce' /\ OwnOnce' /\ PacketsOnce'
  BY <1>10 DEF OnceInv, AnswersOnce, OwnOnce, PacketsOnce
<1>23. AtOnePlace(h.org, n, h.iter)'
  BY <1>5, <1>6, <1>7, <1>20, <1>21 DEF AtOnePlace
<1>24. PlacesDiffer'
  BY <1>5, <1>6, <1>18, <1>20, <1>21, <1>23, PlacesStep DEF OnceInv, Keeps
<1> QED
  BY <1>6, <1>17, <1>22, <1>24 DEF OnceInv

(* No gradient is in two places in any reachable state. *)
LEMMA OnceStep ==
  ASSUME Trainings <= 1, ~Duplicates
  PROVE  TypeOK /\ TrainingInv /\ OnceInv /\ [Next]_vars => OnceInv'
<1> SUFFICES ASSUME TypeOK, TrainingInv, OnceInv, [Next]_vars PROVE OnceInv'
  OBVIOUS
<1>1. ASSUME NEW n \in Node, ReceivePacket(n), UNCHANGED <<loop, own>> PROVE OnceInv'
  BY <1>1, HandleWeightOnce, HandleGradientOnce DEF ReceivePacket
<1>2. ASSUME NEW n \in Node, AnswerWeights(n), UNCHANGED <<loop, own>> PROVE OnceInv'
  BY <1>2, SendAnswerOnce DEF AnswerWeights
<1>3. ASSUME NEW n \in Node, NEW t \in 1 .. Trainings, StartTraining(n, t) \/ UpdateWeights(n, t)
      PROVE  OnceInv'
  BY <1>3, LoopOnce
<1>4. ASSUME NEW n \in Node, NEW t \in 1 .. Trainings, SendWeights(n, t) PROVE OnceInv'
  BY <1>4, SendWeightsOnce
<1>5. ASSUME NEW n \in Node, NEW t \in 1 .. Trainings, Gather(n, t) PROVE OnceInv'
  BY <1>5, GatherOnce DEF TrainingInv
<1>6. ASSUME NEW n \in Node, NEW g \in own[n], ComputeOwn(n, g) PROVE OnceInv'
  BY <1>6, ComputeOwnOnce
<1>7. ASSUME NEW n \in Node, NEW g \in own[n], OfferOwn(n, g) PROVE OnceInv'
  BY <1>7, OfferOwnOnce
<1>8. CASE UNCHANGED vars
  BY <1>8, SMTT(30) DEF vars, workerVars, OnceInv, PlacesDiffer, AtOnePlace, Pending, Flying, Queued, Waits,
              Counted, Due, Begun, Past, AnswersOnce, OwnOnce, PacketsOnce, QueuesOnce, CountedOnce
<1> QED
  BY <1>1, <1>2, <1>3, <1>4, <1>5, <1>6, <1>7, <1>8 DEF Next

LEMMA OnceInit == Init => OnceInv
<1> SUFFICES ASSUME Init PROVE OnceInv
  OBVIOUS
<1>1. /\ \A n \in Node : answers[n] = {} /\ own[n] = {}
      /\ net = {}
      /\ \A n \in Node : \A c \in Channel : Len(waiting[n][c]) = 0
      /\ \A n \in Node : \A t \in 1 .. Trainings : Len(loop[n][t].got) = 0
  BY DEF Init, WorkersInit
<1>2. AnswersOnce /\ OwnOnce /\ PacketsOnce
  BY <1>1 DEF AnswersOnce, OwnOnce, PacketsOnce
<1>3. \A n, o \in Node : \A r \in Iter : \A c \in Channel : \A i \in Nat : ~Waits(n, c, i, o, r)
  BY <1>1 DEF Waits
<1>4. QueuesOnce
  BY <1>3 DEF QueuesOnce
<1>5. CountedOnce
  BY <1>1 DEF CountedOnce
<1>6. \A o, n \in Node : \A r \in Iter :
        ~Pending(o, n, r) /\ ~Flying(o, n, r) /\ ~Queued(o, n, r) /\ ~Counted(o, n, r)
  BY <1>1, <1>3 DEF Pending, Flying, Queued, Counted
<1>7. PlacesDiffer
  BY <1>6 DEF PlacesDiffer, AtOnePlace
<1> QED
  BY <1>2, <1>4, <1>5, <1>7 DEF OnceInv

(* Gradients of different nodes are as many as the nodes.                  *)
LEMMA OriginsCounted ==
  ASSUME NEW got \in Seq(Gradient),
         \A i, j \in 1 .. Len(got) : got[i].org = got[j].org => i = j,
         NEW T, T = {got[i].org : i \in 1 .. Len(got)}
  PROVE  IsFiniteSet(T) /\ Cardinality(T) = Len(got)
<1>1. PICK f : f = [i \in 1 .. Len(got) |-> got[i].org]
  OBVIOUS
<1>2. f \in Bijection(1 .. Len(got), T)
  BY <1>1 DEF Bijection, Injection, Surjection, IsInjective
<1>3. ExistsBijection(1 .. Len(got), T)
  BY <1>2 DEF ExistsBijection
<1>4. IsFiniteSet(1 .. Len(got)) /\ Cardinality(1 .. Len(got)) = Len(got)
  <2>1. PICK m \in Nat : m = Len(got)
    OBVIOUS
  <2>2. IsFiniteSet(1 .. m) /\ Cardinality(1 .. m) = IF 1 > m THEN 0 ELSE m - 1 + 1
    BY FS_Interval
  <2> QED
    BY <2>1, <2>2
<1> QED
  BY <1>3, <1>4, FS_Bijection

LEMMA OriginsOf ==
  ASSUME TypeOK, CountedOnce, NEW n \in Node, NEW t \in 1 .. Trainings,
         NEW got, got = loop[n][t].got, NEW S, S = {g.org : g \in Gathered(n, t)}
  PROVE  IsFiniteSet(S) /\ Cardinality(S) = Len(got)
<1>1. got \in Seq(Gradient)
  <2>1. PICK l \in Loop : l = loop[n][t]
    BY DEF TypeOK
  <2> QED
    BY <2>1 DEF Loop
<1>2. DOMAIN got = 1 .. Len(got)
  BY <1>1
<1>3. PICK T : T = {got[i].org : i \in 1 .. Len(got)}
  OBVIOUS
<1>4. S = T
  BY <1>2, <1>3 DEF Gathered
<1>5. \A i, j \in 1 .. Len(got) : got[i].org = got[j].org => i = j
  BY DEF CountedOnce
<1>6. IsFiniteSet(T) /\ Cardinality(T) = Len(got)
  BY <1>1, <1>3, <1>5, OriginsCounted
<1> QED
  BY <1>3, <1>4, <1>6

(* No gradient is counted twice in a round, whatever ways it took: when no *)
(* node trains twice and no datagram is received twice, for every network, *)
(* number of rounds and K, whatever is lost or late.                       *)
THEOREM WorkersCountOnce ==
  ASSUME Trainings <= 1, ~Duplicates
  PROVE  Spec => []EachWorkerOnce
<1>1. Init => TypeOK /\ TrainingInv /\ OnceInv
  BY InitType, InitSound, OnceInit
<1>2. TypeOK /\ TrainingInv /\ OnceInv /\ [Next]_vars => (TypeOK /\ TrainingInv /\ OnceInv)'
  BY TypeStep, SoundStep, OnceStep
<1>3. TypeOK /\ OnceInv => EachWorkerOnce
  <2> SUFFICES ASSUME TypeOK, CountedOnce, NEW n \in Node, NEW t \in 1 .. Trainings
               PROVE  Cardinality({g.org : g \in Gathered(n, t)}) = Len(loop[n][t].got)
    BY DEF OnceInv, EachWorkerOnce
  <2>1. PICK S, got : S = {g.org : g \in Gathered(n, t)} /\ got = loop[n][t].got
    OBVIOUS
  <2>2. Cardinality(S) = Len(got)
    BY <2>1, OriginsOf
  <2> QED
    BY <2>1, <2>2
<1> QED
  BY <1>1, <1>2, <1>3, PTL DEF Spec

-----------------------------------------------------------------------------
(* The rounds that have ended were answered. *)

Answerers(n, r) == {m \in Node : Concat[n][r] \in seen[m]}

LEMMA AnswerersGrow ==
  ASSUME IsFiniteSet(Node), \A m \in Node : seen[m] \subseteq seen'[m], NEW n, NEW r,
         Cardinality(Answerers(n, r)) >= K - 1
  PROVE  Cardinality(Answerers(n, r)') >= K - 1
<1>1. PICK A, B : A = Answerers(n, r) /\ B = Answerers(n, r)'
  OBVIOUS
<1>2. A \subseteq B /\ B \subseteq Node
  BY <1>1 DEF Answerers
<1>3. IsFiniteSet(B) /\ IsFiniteSet(A)
  BY <1>2, FS_Subset
<1>4. Cardinality(A) <= Cardinality(B) /\ Cardinality(A) \in Nat /\ Cardinality(B) \in Nat
  BY <1>2, <1>3, FS_Subset, FS_CardinalityType
<1> QED
  BY <1>1, <1>4, KAssumption

(* Every gradient counted in a round, the trainer's apart, comes from a    *)
(* node that has had the weights of the round.                             *)
LEMMA FullRound ==
  ASSUME IsFiniteSet(Node), TypeOK, GatheredSound, OnceInv, NEW n \in Node, NEW t \in 1 .. Trainings,
         loop[n][t].pc = "update", Len(loop[n][t].got) = K
  PROVE  Cardinality(Answerers(n, loop[n][t].round)) >= K - 1
<1>1. PICK got \in Seq(Gradient), r \in Iter : got = loop[n][t].got /\ r = loop[n][t].round
  <2>1. PICK l \in Loop : l = loop[n][t] /\ l.pc = "update"
    BY DEF TypeOK
  <2>2. l.got \in Seq(Gradient) /\ l.round \in Iter
    BY <2>1, WorkersAssumption DEF Loop, Iter
  <2> QED
    BY <2>1, <2>2
<1>2. PICK T : T = {got[i].org : i \in 1 .. Len(got)}
  OBVIOUS
<1>3. IsFiniteSet(T) /\ Cardinality(T) = K
  <2>1. PICK S : S = {g.org : g \in Gathered(n, t)}
    OBVIOUS
  <2>2. CountedOnce
    BY DEF OnceInv
  <2>3. got = loop[n][t].got /\ Len(got) = K
    BY <1>1
  <2>4. IsFiniteSet(S) /\ Cardinality(S) = Len(got)
    BY <2>1, <2>2, <2>3, OriginsOf
  <2>5. DOMAIN got = 1 .. Len(got)
    BY <1>1
  <2>6. S = T
    BY <1>2, <2>1, <2>3, <2>5 DEF Gathered
  <2> QED
    BY <2>3, <2>4, <2>6
<1>4. PICK A : A = Answerers(n, r)
  OBVIOUS
<1>5. T \ {n} \subseteq A
  <2> SUFFICES ASSUME NEW i \in 1 .. Len(got), got[i].org # n
               PROVE  got[i].org \in A
    BY <1>2
  <2>1. got[i] \in Gradient
    OBVIOUS
  <2>2. got[i].org \in Node
    BY <2>1 DEF Gradient
  <2>3. got[i].iter = r
    BY <1>1 DEF GatheredSound
  <2>4. Counted(got[i].org, n, r)
    BY <1>1, <2>3 DEF Counted
  <2>5. Concat[n][r] \in seen[got[i].org]
    BY <1>1, <2>2, <2>4 DEF OnceInv, PlacesDiffer, AtOnePlace, Due
  <2> QED
    BY <1>4, <2>2, <2>5 DEF Answerers
<1>6. IsFiniteSet(T \ {n}) /\ Cardinality(T \ {n}) = IF n \in T THEN Cardinality(T) - 1 ELSE Cardinality(T)
  BY <1>3, FS_RemoveElement
<1>7. IsFiniteSet(A)
  BY <1>4, FS_Subset DEF Answerers
<1>8. Cardinality(T \ {n}) <= Cardinality(A) /\ Cardinality(A) \in Nat
  BY <1>5, <1>7, FS_Subset, FS_CardinalityType
<1> QED
  BY <1>1, <1>3, <1>4, <1>6, <1>8, KAssumption

RoundInv == FullUpdates /\ RoundsAnswered

LEMMA RoundInit == Init => RoundInv
BY DEF Init, RoundInv, FullUpdates, RoundsAnswered

(* A loop that is not at "update" and goes to no later round, or comes     *)
(* from a full round, keeps the invariant.                                 *)
LEMMA RoundStep ==
  ASSUME IsFiniteSet(Node), TypeOK, GatheredSound, OnceInv, RoundInv, [Next]_vars
  PROVE  RoundInv'
<1>1. \A m \in Node : seen[m] \subseteq seen'[m]
  <2>1. ASSUME NEW n \in Node, NEW p \in net, HandleWeight(n, p)
        PROVE  \A m \in Node : seen[m] \subseteq seen'[m]
    <3>1. \/ seen' = seen
          \/ seen' = [seen EXCEPT ![n] = @ \cup {Concat[p.org][p.iter]}]
      BY <2>1 DEF HandleWeight
    <3> QED
      BY <3>1 DEF TypeOK, WorkersTypeOK
  <2>2. ASSUME NEW n \in Node, NEW p \in net, HandleGradient(n, p)
        PROVE  seen' = seen
    BY <2>2 DEF HandleGradient
  <2>3. ASSUME NEW n \in Node, AnswerWeights(n) PROVE seen' = seen
    BY <2>3 DEF AnswerWeights, SendAnswer
  <2>4. ASSUME NEW n \in Node, NEW t \in 1 .. Trainings,
               StartTraining(n, t) \/ SendWeights(n, t) \/ Gather(n, t) \/ UpdateWeights(n, t)
        PROVE  seen' = seen
    BY <2>4 DEF StartTraining, SendWeights, Gather, UpdateWeights, workerVars
  <2>5. ASSUME NEW n \in Node, NEW g \in own[n], ComputeOwn(n, g) \/ OfferOwn(n, g)
        PROVE  seen' = seen
    BY <2>5 DEF ComputeOwn, OfferOwn, workerVars
  <2>6. \/ \E n \in Node : \E p \in net : HandleWeight(n, p)
        \/ seen' = seen
    <3>1. ASSUME NEW n \in Node, ReceivePacket(n)
          PROVE  (\E p \in net : HandleWeight(n, p)) \/ seen' = seen
      BY <3>1, <2>2 DEF ReceivePacket
    <3>2. CASE Next
      BY <2>3, <2>4, <2>5, <3>1, <3>2, Zenon DEF Next
    <3>3. CASE UNCHANGED vars
      BY <3>3 DEF vars, workerVars
    <3> QED
      BY <3>2, <3>3
  <2> QED
    BY <2>1, <2>6
<1>2. ASSUME NEW n \in Node, NEW t \in 1 .. Trainings
      PROVE  /\ loop'[n][t].pc = "update" => Len(loop'[n][t].got) = K
             /\ \/ loop'[n][t].round = loop[n][t].round
                \/ loop'[n][t].round = loop[n][t].round + 1 /\ loop[n][t].pc = "update"
  <2>1. PICK k \in Loop : k = loop[n][t] /\ (k.pc = "update" => Len(k.got) = K)
    BY DEF TypeOK, RoundInv, FullUpdates
  <2>2. CASE loop' = loop
    BY <2>1, <2>2
  <2>3. ASSUME NEW m \in Node, NEW u \in 1 .. Trainings, ~(m = n /\ u = t), NEW l,
               loop' = [loop EXCEPT ![m][u] = l]
        PROVE  loop'[n][t] = loop[n][t]
    BY <2>3 DEF TypeOK
  <2>4. ASSUME NEW m \in Node, NEW u \in 1 .. Trainings, StartTraining(m, u)
        PROVE  \/ loop'[n][t] = k
               \/ loop'[n][t] = [k EXCEPT !.pc = "send"]
    BY <2>1, <2>4 DEF StartTraining, TypeOK
  <2>5. ASSUME NEW m \in Node, NEW u \in 1 .. Trainings, SendWeights(m, u)
        PROVE  \/ loop'[n][t] = k
               \/ loop'[n][t] = [k EXCEPT !.pc = "gather", !.ch = chan[m], !.got = <<>>]
    BY <2>1, <2>5 DEF SendWeights, TypeOK
  <2>6. ASSUME NEW m \in Node, NEW u \in 1 .. Trainings, Gather(m, u)
        PROVE  \/ loop'[n][t] = k
               \/ \E got, c : loop'[n][t] = [k EXCEPT !.got = got, !.ch = c,
                                               !.pc = IF Len(got) = K THEN "update" ELSE "gather"]
    <3>1. PICK l \in Loop : l = loop[m][u]
      BY DEF TypeOK
    <3>2. PICK got : got = IF Counts(l, Head(waiting[m][l.ch]))
                           THEN Append(l.got, Head(waiting[m][l.ch])) ELSE l.got
      OBVIOUS
    <3>3. PICK x : x = [l EXCEPT !.got = got, !.ch = chan[m],
                               !.pc = IF Len(got) = K THEN "update" ELSE "gather"]
      OBVIOUS
    <3>4. loop' = [loop EXCEPT ![m][u] = x]
      BY <2>6, <3>1, <3>2, <3>3 DEF Gather, TypeOK
    <3>5. CASE m = n /\ u = t
      <4>1. loop'[n][t] = x /\ l = k
        BY <2>1, <3>1, <3>4, <3>5 DEF TypeOK
      <4>2. PICK c : c = chan[m]
        OBVIOUS
      <4>3. x = [k EXCEPT !.got = got, !.ch = c,
                         !.pc = IF Len(got) = K THEN "update" ELSE "gather"]
        BY <3>3, <4>1, <4>2
      <4> QED
        BY <4>1, <4>3
    <3>6. CASE ~(m = n /\ u = t)
      BY <2>1, <2>3, <3>4, <3>6
    <3> QED
      BY <3>5, <3>6
  <2>7. ASSUME NEW m \in Node, NEW u \in 1 .. Trainings, UpdateWeights(m, u)
        PROVE  \/ loop'[n][t] = k
               \/ /\ k.pc = "update"
                  /\ loop'[n][t] = [k EXCEPT !.round = k.round + 1, !.got = <<>>,
                       !.pc = IF k.round + 1 < Rounds THEN "send" ELSE "done"]
    BY <2>1, <2>7 DEF UpdateWeights, TypeOK
  <2>8. ASSUME NEW m \in Node, NEW g \in own[m], ComputeOwn(m, g)
        PROVE  \/ loop'[n][t] = k
               \/ \E w : loop'[n][t] = [k EXCEPT !.grad = w]
    <3>1. g.training \in 1 .. Trainings
      BY DEF TypeOK, Own
    <3> QED
      BY <2>1, <2>8, <3>1 DEF ComputeOwn, TypeOK
  <2>9. \/ loop' = loop
        \/ \E m \in Node, u \in 1 .. Trainings :
             StartTraining(m, u) \/ SendWeights(m, u) \/ Gather(m, u) \/ UpdateWeights(m, u)
        \/ \E m \in Node : \E g \in own[m] : ComputeOwn(m, g)
    BY DEF Next, vars, OfferOwn
  <2>10. CASE loop'[n][t] = k
    BY <2>1, <2>10
  <2>11. CASE loop'[n][t] = [k EXCEPT !.pc = "send"]
    <3>1. loop'[n][t].pc = "send" /\ loop'[n][t].round = k.round
      BY <2>11 DEF Loop
    <3> QED
      BY <2>1, <3>1
  <2>12. ASSUME NEW m, loop'[n][t] = [k EXCEPT !.pc = "gather", !.ch = chan[m], !.got = <<>>]
         PROVE  loop'[n][t].pc = "gather" /\ loop'[n][t].round = k.round
    BY <2>12 DEF Loop
  <2>13. ASSUME NEW got, NEW c,
                loop'[n][t] = [k EXCEPT !.got = got, !.ch = c,
                                        !.pc = IF Len(got) = K THEN "update" ELSE "gather"]
         PROVE  /\ loop'[n][t].pc = "update" => Len(loop'[n][t].got) = K
                /\ loop'[n][t].round = k.round
    BY <2>13 DEF Loop
  <2>14. CASE k.pc = "update" /\ loop'[n][t] = [k EXCEPT !.round = k.round + 1, !.got = <<>>,
                                   !.pc = IF k.round + 1 < Rounds THEN "send" ELSE "done"]
    <3>1. loop'[n][t].pc \in {"send", "done"} /\ loop'[n][t].round = k.round + 1
      BY <2>14 DEF Loop
    <3> QED
      BY <2>1, <2>14, <3>1
  <2>15. ASSUME NEW w, loop'[n][t] = [k EXCEPT !.grad = w]
         PROVE  loop'[n][t].pc = k.pc /\ loop'[n][t].got = k.got /\ loop'[n][t].round = k.round
    BY <2>15 DEF Loop
  <2> QED
    BY <2>1, <2>2, <2>4, <2>5, <2>6, <2>7, <2>8, <2>9, <2>10, <2>11, <2>12, <2>13, <2>14, <2>15
<1>3. FullUpdates'
  BY <1>2 DEF FullUpdates
<1>4. RoundsAnswered'
  <2> SUFFICES ASSUME NEW n \in Node, NEW t \in 1 .. Trainings, NEW r \in 0 .. loop'[n][t].round - 1
               PROVE  Cardinality(Answerers(n, r)') >= K - 1
    BY DEF RoundsAnswered, Answerers
  <2>1. loop[n][t].round \in Nat
    <3>1. PICK k \in Loop : k = loop[n][t]
      BY DEF TypeOK
    <3> QED
      BY <3>1, WorkersAssumption DEF Loop
  <2>2. r \in 0 .. loop[n][t].round - 1 \/ (r = loop[n][t].round /\ loop[n][t].pc = "update")
    BY <1>2, <2>1
  <2>3. CASE r \in 0 .. loop[n][t].round - 1
    BY <1>1, <2>3, AnswerersGrow DEF RoundInv, RoundsAnswered, Answerers
  <2>4. CASE r = loop[n][t].round /\ loop[n][t].pc = "update"
    BY <1>1, <2>4, FullRound, AnswerersGrow DEF RoundInv, FullUpdates
  <2> QED
    BY <2>2, <2>3, <2>4
<1> QED
  BY <1>3, <1>4 DEF RoundInv

(* A round ends only when K nodes, the trainer perhaps among them, have    *)
(* had its weights: under the same conditions, for every finite network.   *)
THEOREM RoundsHaveAnswers ==
  ASSUME Trainings <= 1, ~Duplicates, IsFiniteSet(Node)
  PROVE  Spec => []RoundsAnswered
<1>1. Init => TypeOK /\ TrainingInv /\ OnceInv /\ RoundInv
  BY InitType, InitSound, OnceInit, RoundInit
<1>2. TypeOK /\ TrainingInv /\ OnceInv /\ RoundInv /\ [Next]_vars
        => (TypeOK /\ TrainingInv /\ OnceInv /\ RoundInv)'
  BY TypeStep, SoundStep, OnceStep, RoundStep DEF TrainingInv
<1>3. RoundInv => RoundsAnswered
  BY DEF RoundInv
<1> QED
  BY <1>1, <1>2, <1>3, PTL DEF Spec
=============================================================================
