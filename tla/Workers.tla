------------------------------ MODULE Workers ------------------------------
(***************************************************************************)
(* How a gossiper answers the weights of a training (ml.go): the flood of  *)
(* weight packets, the gradient each node computes for them, and its way   *)
(* back along the next hops.  Modules of the training loops extend this    *)
(* one: they start trainings and consume the gradients.                    *)
(*                                                                         *)
(* Weights are what a training has after so many rounds; a gradient is     *)
(* known by the weights it was computed from.  Of the data sets, only      *)
(* "mnist" is considered: with another one the training loops panic before *)
(* their first round, as testMatX is nil.                                  *)
(***************************************************************************)
EXTENDS Integers, Sequences, FiniteSets

CONSTANTS
  Node,        \* gossipers
  None,        \* no next hop; what a Byzantine gradient is a gradient of
  Peers,       \* Peers[n]: peer_list of n, settled before the training
  NextHop,     \* NextHop[n][o]: nextHopTable[o] of n, or None
  Concat,      \* Concat[o][i]: the name o and the number i, one after the other
  Byz,         \* nodes started with -byz
  Lossy,       \* may datagrams be lost?
  Duplicates,  \* may datagrams be received again?
  Trainings,   \* bound: trainings started at one node
  Rounds       \* rounds of a training

ASSUME NoneAssumption == None \notin Node
ASSUME PeersAssumption ==
  \A n \in Node : /\ Peers[n] \subseteq Node \ {n}
                  /\ \A q \in Peers[n] : n \in Peers[q]
ASSUME NextHopAssumption ==
  \A n, o \in Node : NextHop[n][o] \in Peers[n] \cup {None}
(* Nothing is between the name and the number, so keys of two origins may  *)
(* be equal; those of one origin are not.                                  *)
ASSUME ConcatAssumption ==
  \A o \in Node : \A i, j \in 0 .. Rounds - 1 : Concat[o][i] = Concat[o][j] => i = j
ASSUME WorkersAssumption ==
  /\ Byz \subseteq Node
  /\ {Lossy, Duplicates} \subseteq BOOLEAN
  /\ Trainings \in Nat /\ Rounds \in Nat \ {0}

VARIABLES
  seen,     \* seen[n]: the keys of nameIDTable
  chan,     \* chan[n]: gradCh, named by the training that made it, 0 for nil
  waiting,  \* waiting[n][c]: goroutines blocked sending on channel c, in turn
  answers,  \* answers[n]: gradients that sleep before they are sent
  net       \* datagrams on their way

workerVars == <<seen, chan, waiting, answers, net>>

-----------------------------------------------------------------------------
(* Data. *)

Channel == 0 .. Trainings
Iter    == 0 .. Rounds - 1
Key     == {Concat[o][i] : o \in Node, i \in Iter}
Weights == [trainer : Node, training : Nat, rounds : Iter]

WeightPacket == [kind : {"weight"}, to : Node, org : Node, iter : Iter,
                 weight : Weights]

(* What a GradientPacket says, and where it is going.                      *)
Gradient == [org : Node, dst : Node, iter : Iter, of : Weights \cup {None}]
GradientPacket == [kind : {"gradient"}, to : Node, gradient : Gradient]

WorkersTypeOK ==
  /\ seen \in [Node -> SUBSET Key]
  /\ chan \in [Node -> Channel]
  /\ waiting \in [Node -> [Channel -> Seq(Gradient)]]
  /\ answers \in [Node -> SUBSET Gradient]
  /\ net \subseteq WeightPacket \cup GradientPacket

WorkersInit ==
  /\ seen = [n \in Node |-> {}]
  /\ chan = [n \in Node |-> 0]
  /\ waiting = [n \in Node |-> [c \in Channel |-> <<>>]]
  /\ answers = [n \in Node |-> {}]
  /\ net = {}

-----------------------------------------------------------------------------
(* Packet p, if any, is received and those in sent leave. *)
Transfer(p, sent) ==
  \E kept \in SUBSET sent, gone \in SUBSET p :
    /\ Lossy \/ kept = sent
    /\ Duplicates \/ gone = p
    /\ net' = (net \ gone) \cup kept

(* broadcastWeight *)
WeightPackets(n, org, iter, w) ==
  {[kind |-> "weight", to |-> q, org |-> org, iter |-> iter, weight |-> w] :
     q \in Peers[n]}

(* sendGradient: to the next hop, if there is one. *)
GradientPackets(n, g) ==
  {[kind |-> "gradient", to |-> q, gradient |-> g] : q \in {NextHop[n][g.dst]} \ {None}}

(* gradCh <- g: the goroutine waits for its turn on the current channel. *)
Offer(n, g) ==
  waiting' = [waiting EXCEPT ![n][chan[n]] = Append(@, g)]

-----------------------------------------------------------------------------
(* Mutant: weights are not looked up. *)
NeverAnswered(n, key) == FALSE

(* "exist": weights with this key were passed on and answered before. *)
Answered(n, key) == key \in seen[n]

(* handleWeight: weights seen for the first time are passed on to every    *)
(* peer and answered, at once by a Byzantine node, which reverses the      *)
(* gradient, and after a while by the others.                              *)
HandleWeight(n, p) ==
  /\ p.kind = "weight" /\ p.to = n
  /\ LET key == Concat[p.org][p.iter]
         gradient(w) == [org |-> n, dst |-> p.org, iter |-> p.iter, of |-> w]
         relayed == WeightPackets(n, p.org, p.iter, p.weight)
     IN \/ /\ p.org = n \/ Answered(n, key)
           /\ Transfer({p}, {})
           /\ UNCHANGED <<seen, answers>>
        \/ /\ p.org # n /\ ~Answered(n, key)
           /\ seen' = [seen EXCEPT ![n] = @ \cup {key}]
           /\ IF n \in Byz
              THEN /\ Transfer({p}, relayed \cup GradientPackets(n, gradient(None)))
                   /\ UNCHANGED answers
              ELSE /\ Transfer({p}, relayed)
                   /\ answers' = [answers EXCEPT ![n] = @ \cup {gradient(p.weight)}]
  /\ UNCHANGED <<chan, waiting>>

(* The goroutine of handleWeight wakes up. *)
SendAnswer(n, g) ==
  /\ g \in answers[n]
  /\ answers' = [answers EXCEPT ![n] = @ \ {g}]
  /\ Transfer({}, GradientPackets(n, g))
  /\ UNCHANGED <<seen, chan, waiting>>

(* handleGradient: a gradient for this node is offered to its training     *)
(* loop, any other is forwarded.                                           *)
HandleGradient(n, p) ==
  /\ p.kind = "gradient" /\ p.to = n
  /\ IF p.gradient.dst = n
     THEN Transfer({p}, {}) /\ Offer(n, p.gradient)
     ELSE Transfer({p}, GradientPackets(n, p.gradient)) /\ UNCHANGED waiting
  /\ UNCHANGED <<seen, chan, answers>>

ReceivePacket(n) == \E p \in net : HandleWeight(n, p) \/ HandleGradient(n, p)

AnswerWeights(n) == \E g \in answers[n] : SendAnswer(n, g)
=============================================================================
