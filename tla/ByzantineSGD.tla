---------------------------- MODULE ByzantineSGD ----------------------------
(***************************************************************************)
(* Byzantine-tolerant training (ml.go, byzantineSGD): the trainer takes    *)
(* one gradient per round, of this round or of an earlier one, if it       *)
(* passes two filters.  The Lipschitz filter compares how fast the         *)
(* gradients of its sender change with the same number of the other peers; *)
(* the frequency filter refuses the senders of the last 2F gradients.      *)
(*                                                                         *)
(* The number of a gradient is one of LCOf[its sender], any value below    *)
(* Inf that its weights may give.  How weights and gradients travel is the *)
(* matter of module Workers; here a worker that has had the weights of a   *)
(* round answers that round once, whichever training they came from, and   *)
(* what it sends comes at any time.  A training starts when the one before *)
(* has ended.                                                              *)
(***************************************************************************)
EXTENDS Integers, Sequences, FiniteSets

CONSTANTS
  Worker,     \* gossipers that answer
  Self,       \* the trainer, which answers itself as well
  Known,      \* destinations in its nextHopTable when it starts
  Byz,        \* workers started with -byz
  F,          \* byzF (2)
  Inf,        \* math.Inf(1)
  LCOf,       \* LCOf[w]: the Lipschitz numbers that gradients of w may have
  Rounds,     \* rounds of a training (500)
  Trainings,  \* bound: trainings that the client asks for
  Again,      \* bound: rounds of a training that is not the first
  Late,       \* bound: rounds that weights may be old when they get to a worker
  Capacity    \* bound: gradients on their way before a worker sends another

ASSUME WorkerAssumption ==
  /\ IsFiniteSet(Worker) /\ Self \notin Worker
  /\ Known \subseteq Worker /\ Byz \subseteq Worker
ASSUME NumberAssumption ==
  /\ F \in Nat \ {0} /\ Rounds \in Nat \ {0} /\ Trainings \in Nat \ {0} /\ Inf \in Nat
  /\ Again \in Nat /\ Late \in Nat /\ Capacity \in Nat
  /\ \A w \in Worker \cup {Self} : LCOf[w] \subseteq 0 .. Inf - 1

VARIABLES
  pc,        \* where byzantineSGD is
  training,  \* which training it is
  round,     \* its round; weightHistory has the weights of 0 .. round
  lc,        \* peersLC
  heard,     \* the keys of lastPeerGradients and lastPeerWeights
  recent,    \* recentPeers
  used,      \* senders of the gradients that made weight what it is
  sent,      \* weights that were broadcast
  seen,      \* seen[w]: rounds in nameIDTable of w
  coming     \* gradients on their way to gradCh

vars == <<pc, training, round, lc, heard, recent, used, sent, seen, coming>>
server == <<lc, heard, recent, used>>

-----------------------------------------------------------------------------
Peer     == Worker \cup {Self}
Iter     == 0 .. Rounds - 1
Weights  == [iter : Iter, training : 1 .. Trainings]
Gradient == [org : Peer, iter : Iter, training : 1 .. Trainings]

TypeOK ==
  /\ pc \in {"begin", "gather", "update", "done", "panic"}
  /\ training \in 1 .. Trainings
  /\ round \in 0 .. Rounds /\ (pc # "done" => round < Rounds)
  /\ DOMAIN lc \subseteq Peer /\ \A p \in DOMAIN lc : lc[p] \in 0 .. Inf
  /\ heard \subseteq Peer
  /\ recent \in Seq(Peer) /\ Len(recent) <= 2 * F
  /\ used \in Seq(Peer)
  /\ sent \subseteq Weights
  /\ seen \in [Worker -> SUBSET Iter]
  /\ coming \subseteq Gradient

(* peersLC at the start of a training. *)
Fresh == [p \in Known \cup {Self} |-> Inf]

Init ==
  /\ pc = "begin" /\ training = 1 /\ round = 0
  /\ lc = Fresh
  /\ heard = {} /\ recent = <<>> /\ used = <<>>
  /\ sent = {} /\ coming = {}
  /\ seen = [w \in Worker |-> {}]

-----------------------------------------------------------------------------
(* A round begins: its weights enter the history and are broadcast, and a  *)
(* goroutine computes the own gradient.                                    *)
Begin ==
  /\ pc = "begin"
  /\ training > 1 => round < Again
  /\ sent' = sent \cup {[iter |-> round, training |-> training]}
  /\ coming' = coming \cup {[org |-> Self, iter |-> round, training |-> training]}
  /\ pc' = "gather"
  /\ UNCHANGED <<training, round, server, seen>>

(* handleWeight of worker w: the key has no training in it.                *)
Answer(w, m) ==
  /\ LET age == Rounds * (training - m.training) + round - m.iter
     IN  age <= Late /\ Cardinality(coming) <= Capacity
  /\ m.iter \notin seen[w]
  /\ seen' = [seen EXCEPT ![w] = @ \cup {m.iter}]
  /\ coming' = coming \cup {[org |-> w, iter |-> m.iter, training |-> m.training]}
  /\ UNCHANGED <<pc, training, round, server, sent>>

-----------------------------------------------------------------------------
(* Mutant: twice as many peers are taken to be Byzantine. *)
LipschitzTwice(table, new) ==
  LET cnt == Cardinality({p \in DOMAIN table : table[p] # Inf /\ table[p] <= new})
  IN cnt <= Cardinality(DOMAIN table) - 2 * F

(* Mutant: one peer less has to have a larger number. *)
LipschitzOneMore(table, new) ==
  LET cnt == Cardinality({p \in DOMAIN table : table[p] # Inf /\ table[p] <= new})
  IN cnt <= Cardinality(DOMAIN table) - F + 1

(* lipschitzFilter: at least F peers are not heard or have larger numbers. *)
Lipschitz(table, new) ==
  LET cnt == Cardinality({p \in DOMAIN table : table[p] # Inf /\ table[p] <= new})
  IN cnt <= Cardinality(DOMAIN table) - F

(* frequencyFilter *)
Frequency(p) == \A i \in DOMAIN recent : recent[i] # p

(* Mutant: the history of senders is one too short. *)
RememberOneLess(p) ==
  Append(IF Len(recent) = 2 * F - 1 THEN Tail(recent) ELSE recent, p)

Remember(p) == Append(IF Len(recent) = 2 * F THEN Tail(recent) ELSE recent, p)

(* Number of a gradient: none before there are two of its sender.          *)
Numbers(p) == IF p \in heard THEN LCOf[p] ELSE {Inf}

(* peersLC after it; only a second gradient brings a new peer in.          *)
Table(p, new) ==
  IF p \notin heard THEN lc
  ELSE [q \in DOMAIN lc \cup {p} |-> IF q = p THEN new ELSE lc[q]]

(* Mutant: histories are kept for the rounds before this one only. *)
InHistoryShort(g) == g.iter < round

(* weightHistory[grad.IterID] is there.                                    *)
InHistory(g) == g.iter <= round

(* The loop of a round takes a gradient and tries it; ...                  *)
Take(g) ==
  /\ pc = "gather" /\ InHistory(g)
  /\ coming' = coming \ {g}
  /\ heard' = heard \cup {g.org}
  /\ \E new \in Numbers(g.org) :
       /\ lc' = Table(g.org, new)
       /\ \/ /\ Lipschitz(lc', new) /\ Frequency(g.org)
             /\ used' = Append(used, g.org)
             /\ recent' = Remember(g.org)
             /\ pc' = "update"
          \/ /\ ~(Lipschitz(lc', new) /\ Frequency(g.org))
             /\ UNCHANGED <<used, recent, pc>>
  /\ UNCHANGED <<training, round, sent, seen>>

(* ... one of a round that this training has not had ends the program.     *)
TakeUnknownRound(g) ==
  /\ pc = "gather" /\ ~InHistory(g)
  /\ pc' = "panic"
  /\ UNCHANGED <<training, round, server, sent, seen, coming>>

Update ==
  /\ pc = "update"
  /\ round' = round + 1
  /\ pc' = IF round' < Rounds THEN "begin" ELSE "done"
  /\ UNCHANGED <<training, server, sent, seen, coming>>

(* newTraining: fresh filters and a fresh channel; goroutines that wait on *)
(* the old one wait for ever, and what comes later comes to the new one.   *)
StartAgain ==
  /\ pc = "done" /\ training < Trainings
  /\ training' = training + 1 /\ round' = 0 /\ pc' = "begin"
  /\ lc' = Fresh /\ heard' = {} /\ recent' = <<>> /\ used' = <<>>
  /\ \E stuck \in SUBSET coming : coming' = coming \ stuck
  /\ UNCHANGED <<sent, seen>>

Next == \/ Begin \/ Update \/ StartAgain
        \/ \E w \in Worker : \E m \in sent : Answer(w, m)
        \/ \E g \in coming : Take(g) \/ TakeUnknownRound(g)

Spec == Init /\ [][Next]_vars

(* The loop and the own goroutines run and nothing is lost: a worker       *)
(* answers what it has been sent, and what comes is taken, in any order.   *)
Fairness ==
  /\ WF_vars(Begin) /\ WF_vars(Update)
  /\ \A w \in Worker : WF_vars(\E m \in sent : Answer(w, m))
  /\ WF_vars(\E g \in coming : Take(g))

FairSpec == Spec /\ Fairness

-----------------------------------------------------------------------------
(* Properties. *)

(* Any 2F + 1 gradients used one after the other have as many senders ...  *)
WindowsDistinct ==
  \A i, j \in DOMAIN used : i < j /\ j - i <= 2 * F => used[i] # used[j]

(* ... and, of F Byzantine workers, a majority of them is honest, whatever *)
(* the Lipschitz numbers are and however fast a Byzantine worker answers   *)
(* (ml.go:492-500, 570-574).  A consequence of WindowsDistinct, proved and *)
(* not run.                                                                *)
HonestMajority ==
  Cardinality(Byz) <= F =>
    \A i \in DOMAIN used : i + 2 * F \in DOMAIN used =>
      Cardinality({j \in i .. i + 2 * F : used[j] \in Byz}) <= F

(* No gradient of a Byzantine worker is used whose Lipschitz number is     *)
(* above those of all honest peers, whichever of them the trainer has      *)
(* numbers of yet: of the F peers above it at most F - 1 are Byzantine     *)
(* (ml.go:411-490).                                                        *)
Bounded(p) ==
  p \in Byz /\ p \in DOMAIN lc' /\ lc'[p] # Inf =>
    \E h \in DOMAIN lc' \ Byz : lc'[h] > lc'[p]

ByzantineBounded ==
  [][Cardinality(Byz) <= F /\ Len(used') > Len(used) => Bounded(used'[Len(used')])]_vars

(* The history of weights is indexed out of its range only by gradients    *)
(* that an earlier training left behind (ml.go:421, 470).  The state keeps *)
(* its types.                                                              *)
FirstTrainingSafe == TypeOK /\ (pc = "panic" => training > 1)

(* A training ends when Lipschitz numbers are constant and distinct and    *)
(* the trainer knows 3F + 1 peers: of those not among the last 2F senders, *)
(* one is not among the F with the largest numbers (ml.go:522-576).        *)
TrainingEnds == <>(pc = "done")
=============================================================================
