------------------------------ MODULE Training ------------------------------
(***************************************************************************)
(* Distributed training (ml.go, newTraining and distributedSGD): in every  *)
(* round the trainer floods its weights, adds up the first K gradients of  *)
(* the round, its own among them if it is in time, and takes a step.       *)
(* Trainings of a node share the channel gradCh and the table nameIDTable  *)
(* of the nodes that answer.                                               *)
(***************************************************************************)
EXTENDS Workers

CONSTANTS
  Trainer,   \* nodes whose client asks for trainings
  K          \* gradients of a round

ASSUME TrainerAssumption == Trainer \subseteq Node
ASSUME KAssumption == K \in Nat \ {0}

VARIABLES
  loop,   \* loop[n][t]: where distributedSGD is in training t of n
  own     \* own[n]: goroutines of n that compute its own gradients

vars == <<workerVars, loop, own>>

-----------------------------------------------------------------------------
Places == {"new", "send", "gather", "update", "done"}

(* grad is the variable of distributedSGD that its goroutines share; ch is *)
(* the channel the loop receives from; got are the gradients of the round. *)
Loop == {l \in [pc : Places, round : 0 .. Rounds, ch : Channel, got : Seq(Gradient),
                grad : Weights \cup {None}] : l.pc # "done" => l.round < Rounds}

Own == [pc : {"compute", "sleep"}, training : 1 .. Trainings, round : Iter]

TypeOK ==
  /\ WorkersTypeOK
  /\ loop \in [Node -> [1 .. Trainings -> Loop]]
  /\ own \in [Node -> SUBSET Own]

Init ==
  /\ WorkersInit
  /\ loop = [n \in Node |-> [t \in 1 .. Trainings |->
               [pc |-> "new", round |-> 0, ch |-> 0, got |-> <<>>, grad |-> None]]]
  /\ own = [n \in Node |-> {}]

-----------------------------------------------------------------------------
(* newTraining: the client starts training t, with a channel of its own.   *)
StartTraining(n, t) ==
  /\ n \in Trainer /\ chan[n] = t - 1 /\ loop[n][t].pc = "new"
  /\ chan' = [chan EXCEPT ![n] = t]
  /\ loop' = [loop EXCEPT ![n][t] = [@ EXCEPT !.pc = "send"]]
  /\ UNCHANGED <<seen, waiting, answers, net, own>>

(* The weights of training t of n. *)
Current(n, t) == [trainer |-> n, training |-> t, rounds |-> loop[n][t].round]

(* A round begins: the weights leave, a goroutine computes the own         *)
(* gradient, and the loop waits on the channel that is current now.        *)
SendWeights(n, t) ==
  /\ loop[n][t].pc = "send"
  /\ LET r == loop[n][t].round
     IN /\ Transfer({}, WeightPackets(n, n, r, Current(n, t)))
        /\ own' = [own EXCEPT ![n] =
                     @ \cup {[pc |-> "compute", training |-> t, round |-> r]}]
  /\ loop' = [loop EXCEPT ![n][t] =
                [@ EXCEPT !.pc = "gather", !.ch = chan[n], !.got = <<>>]]
  /\ UNCHANGED <<seen, chan, waiting, answers>>

(* The goroutine of a round leaves its result in the shared grad, ...      *)
ComputeOwn(n, g) ==
  /\ g \in own[n] /\ g.pc = "compute"
  /\ loop' = [loop EXCEPT ![n][g.training] = [@ EXCEPT !.grad =
                [trainer |-> n, training |-> g.training, rounds |-> g.round]]]
  /\ own' = [own EXCEPT ![n] = (@ \ {g}) \cup {[g EXCEPT !.pc = "sleep"]}]
  /\ UNCHANGED workerVars

(* ... and after a while offers what it finds there.                       *)
OfferOwn(n, g) ==
  /\ g \in own[n] /\ g.pc = "sleep"
  /\ Offer(n, [org |-> n, dst |-> n, iter |-> g.round, of |-> loop[n][g.training].grad])
  /\ own' = [own EXCEPT ![n] = @ \ {g}]
  /\ UNCHANGED <<seen, chan, answers, net, loop>>

(* Mutant: gradients of any round are counted. *)
CountsAny(l, g) == TRUE

(* Mutant: the round is counted before it is compared. *)
CountsLater(l, g) == g.iter = l.round + 1

(* "same round" *)
Counts(l, g) == g.iter = l.round

(* The loop takes a gradient and, unless it was the K-th, waits again.     *)
Gather(n, t) ==
  LET l == loop[n][t]
      queue == waiting[n][l.ch]
      got == IF Counts(l, Head(queue)) THEN Append(l.got, Head(queue)) ELSE l.got
  IN /\ l.pc = "gather" /\ queue # <<>>
     /\ waiting' = [waiting EXCEPT ![n][l.ch] = Tail(@)]
     /\ loop' = [loop EXCEPT ![n][t] = [@ EXCEPT !.got = got, !.ch = chan[n],
                   !.pc = IF Len(got) = K THEN "update" ELSE "gather"]]
     /\ UNCHANGED <<seen, chan, answers, net, own>>

(* The weights take a step; the last round ends the training.              *)
UpdateWeights(n, t) ==
  /\ loop[n][t].pc = "update"
  /\ loop' = [loop EXCEPT ![n][t] = [@ EXCEPT !.round = loop[n][t].round + 1,
                !.got = <<>>, !.pc = IF loop[n][t].round + 1 < Rounds THEN "send" ELSE "done"]]
  /\ UNCHANGED <<workerVars, own>>

-----------------------------------------------------------------------------
Next ==
  \E n \in Node :
    \/ (ReceivePacket(n) \/ AnswerWeights(n)) /\ UNCHANGED <<loop, own>>
    \/ \E t \in 1 .. Trainings : \/ StartTraining(n, t)
                                 \/ SendWeights(n, t)
                                 \/ Gather(n, t)
                                 \/ UpdateWeights(n, t)
    \/ \E g \in own[n] : ComputeOwn(n, g) \/ OfferOwn(n, g)

Spec == Init /\ [][Next]_vars

-----------------------------------------------------------------------------
Gathered(n, t) == {loop[n][t].got[i] : i \in DOMAIN loop[n][t].got}

(* A step of the weights uses gradients at these very weights, whatever    *)
(* late answers to earlier rounds are under way (ml.go, handleWeight to    *)
(* distributedSGD); Byzantine nodes send what they like.                   *)
WorkersUseCurrentWeights ==
  \A n \in Node : \A t \in 1 .. Trainings : \A g \in Gathered(n, t) :
    g.org \notin Byz \cup {n} => g.of = Current(n, t)

(* No node is counted twice in a round, whatever ways its gradient took.   *)
EachWorkerOnce ==
  \A n \in Node : \A t \in 1 .. Trainings :
    Cardinality({g.org : g \in Gathered(n, t)}) = Len(loop[n][t].got)

(* A round ends only when K nodes, the trainer perhaps among them, have    *)
(* noted the key of its weights (ml.go:95, 115), and so have had them,     *)
(* unless the names of two trainers make keys collide.                     *)
RoundsAnswered ==
  \A n \in Node : \A t \in 1 .. Trainings : \A r \in 0 .. loop[n][t].round - 1 :
    Cardinality({m \in Node : Concat[n][r] \in seen[m]}) >= K - 1

(* Why gathered gradients are current when every node trains at most once: *)
(* whatever is under way for a round was computed from its weights, and    *)
(* only gradients of the round are gathered.                               *)
WeightsOf(n, r) == [trainer |-> n, training |-> 1, rounds |-> r]

Sound(g) == g.org \notin Byz \cup {g.dst} => g.of = WeightsOf(g.dst, g.iter)

PacketsSound ==
  \A p \in net : /\ p.kind = "weight" => p.weight = WeightsOf(p.org, p.iter)
                 /\ p.kind = "gradient" => Sound(p.gradient)

AnswersSound == \A n \in Node : \A g \in answers[n] : Sound(g)

WaitingSound ==
  \A n \in Node : \A c \in Channel : \A i \in 1 .. Len(waiting[n][c]) :
    waiting[n][c][i].dst = n /\ Sound(waiting[n][c][i])

GatheredSound ==
  \A n \in Node : \A t \in 1 .. Trainings : \A i \in 1 .. Len(loop[n][t].got) :
    LET g == loop[n][t].got[i]
    IN g.dst = n /\ g.iter = loop[n][t].round /\ Sound(g)

TrainingInv == PacketsSound /\ AnswersSound /\ WaitingSound /\ GatheredSound

-----------------------------------------------------------------------------
(* Goroutines and the packet loop are scheduled, datagrams arrive.         *)
Fairness ==
  \A n \in Node :
    /\ WF_vars(ReceivePacket(n) /\ UNCHANGED <<loop, own>>)
    /\ WF_vars(AnswerWeights(n) /\ UNCHANGED <<loop, own>>)
    /\ WF_vars(\E g \in own[n] : ComputeOwn(n, g))
    /\ WF_vars(\E g \in own[n] : OfferOwn(n, g))
    /\ \A t \in 1 .. Trainings :
         WF_vars(SendWeights(n, t) \/ Gather(n, t) \/ UpdateWeights(n, t))

FairSpec == Spec /\ Fairness

(* A training whose weights leave when the earlier ones of the trainer are *)
(* done ends, unless the trainer starts another one meanwhile, when there  *)
(* are K nodes with a way to the trainer and nothing is lost.              *)
TrainingEnds ==
  \A n \in Node : \A t \in 1 .. Trainings :
    loop[n][t].pc = "send" /\ (\A u \in 1 .. t - 1 : loop[n][u].pc = "done")
      ~> loop[n][t].pc = "done" \/ chan[n] > t

(* The flood of every round dies out, whatever cycles the peers form.      *)
FloodDies == <>[](\A p \in net : p.kind # "weight")
=============================================================================
