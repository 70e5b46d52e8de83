------------------------------- MODULE Layers -------------------------------
(***************************************************************************)
(* The network of nn.go: a fully connected layer, softmax, cross entropy.  *)
(* The layer keeps its last input and adds up gradients until updatePara.  *)
(* Training sends weights and gradients as flat vectors (ml.go).           *)
(*   Softmax gives any positive probabilities, written q / Total in each   *)
(* row; backward results are multiplied by what makes them integers.       *)
(***************************************************************************)
EXTENDS Integers, Sequences, SequencesExt, Matrices

CONSTANTS
  Units, Inputs,   \* 10 and 500 in ml.go
  Batches,         \* inputs x of forward, N x Inputs
  Gradients,       \* gradients dz of the output, N x Units
  Weights,         \* entries of the first weights
  Gamma,           \* factors of updatePara
  MaxPasses, MaxUpdates, \* bounds: backwards before an update, updates
  Total,           \* in a row of softmax, the q add up to it
  Probs, Labels,   \* rows q, and classes
  Scale            \* a common multiple of the q

ConstantsOK ==
  /\ Units \in Nat \ {0} /\ Inputs \in Nat \ {0}
  /\ \A batch \in Batches : IsMatrix(batch) /\ Cols(batch) = Inputs
  /\ \A dz \in Gradients : IsMatrix(dz) /\ Cols(dz) = Units
  /\ Weights \subseteq Int /\ Gamma \subseteq Int
  /\ MaxPasses \in Nat /\ MaxUpdates \in Nat
  /\ Total \in Nat /\ Scale \in Nat
  /\ \A q \in Probs : /\ q \in [1 .. Units -> 1 .. Total] /\ SumFunction(q) = Total
                       /\ \A u \in 1 .. Units : Scale % q[u] = 0
  /\ Labels \subseteq 1 .. Units

VARIABLES
  W, B,    \* parameters, Units x Inputs and Units x 1
  DW, DB,  \* their gradients since the last update
  X,       \* input of the last forward, <<>> before the first
  passes,  \* ghost: <<input, gradient>> of every backward since the last update
  updates  \* number of updates

vars == <<W, B, DW, DB, X, passes, updates>>

-----------------------------------------------------------------------------
(* FCLayer.forward                                                         *)
Affine(w, b, batch) ==
  LET z == Mul(batch, Transpose(w)) IN EachEntry(z, LAMBDA i, j : z[i][j] + b[j][1])

(* The sum of the gradients over the samples, for B.                       *)
SampleSums(dz) ==
  LET zt == Transpose(dz)
  IN SliceToMat([i \in DOMAIN zt |-> InnerProduct(zt[i], [j \in DOMAIN zt[i] |-> 1])])

(* l.DW.add(dz.T().mul(l.X))                                               *)
Added(dw, dz, batch) == Add(dw, Mul(Transpose(dz), batch))

(* dz.mul(l.W), the gradient of the input                                  *)
Back(dz, w) == Mul(dz, w)

(* The first weights are random.                                           *)
Init ==
  /\ W \in [1 .. Units -> [1 .. Inputs -> Weights]]
  /\ B = GetZeroMat(Units, 1)
  /\ DW = GetZeroMat(Units, Inputs) /\ DB = GetZeroMat(Units, 1)
  /\ X = <<>> /\ passes = <<>> /\ updates = 0

Forward(batch) ==
  /\ X' = batch
  /\ UNCHANGED <<W, B, DW, DB, passes, updates>>

Backward(dz) ==
  /\ X # <<>> /\ Rows(dz) = Rows(X) /\ Len(passes) < MaxPasses
  /\ DW' = Added(DW, dz, X)
  /\ DB' = Add(DB, SampleSums(dz))
  /\ passes' = Append(passes, <<X, dz>>)
  /\ UNCHANGED <<W, B, X, updates>>

(* The gradients start anew.                                               *)
Zeroed(m) == GetZeroMat(Rows(m), Cols(m))

UpdatePara(gamma) ==
  /\ updates < MaxUpdates /\ passes # <<>>
  /\ W' = Sub(W, MulConstant(DW, gamma))
  /\ B' = Sub(B, MulConstant(DB, gamma))
  /\ DW' = Zeroed(DW) /\ DB' = Zeroed(DB)
  /\ passes' = <<>>
  /\ updates' = updates + 1
  /\ UNCHANGED X

Next == \/ \E batch \in Batches : Forward(batch)
        \/ \E dz \in Gradients : Backward(dz)
        \/ \E gamma \in Gamma : UpdatePara(gamma)

Spec == Init /\ [][Next]_vars

-----------------------------------------------------------------------------
(* Flat vectors. *)

(* flattenWB: W row by row, then B.                                        *)
FlattenWB(w, b) == FlattenSeq(w) \o ColAt(b, 1)

(* deFlatten, and the same loops at the head of grad_f_nn.                 *)
DeFlatten(v) ==
  << [i \in 1 .. Units |-> [j \in 1 .. Inputs |-> v[(i - 1) * Inputs + j]]],
     [i \in 1 .. Units |-> <<v[Units * Inputs + i]>>] >>

(* Mutant: B is left out. *)
SteppedW(v, gamma, g) ==
  [i \in DOMAIN v |-> IF i <= Units * Inputs THEN v[i] - gamma * g[i] ELSE v[i]]

(* What the host does with the sum of the gradients of a round.            *)
Stepped(v, gamma, g) == [i \in DOMAIN v |-> v[i] - gamma * g[i]]

-----------------------------------------------------------------------------
(* Softmax and cross entropy, for rows q of probabilities q / Total. *)

(* CrossEntropyLayer.backward times Scale N / Total: -1/(p_y N) at the     *)
(* label.                                                                  *)
CrossEntropyBack(q, label) ==
  [i \in DOMAIN q |-> [j \in 1 .. Units |-> IF j = label[i] THEN -(Scale \div q[i][j]) ELSE 0]]

(* Mutant: the product with the transpose is left out. *)
SoftmaxBackDiagonal(q, dz) ==
  [i \in DOMAIN q |-> ColAt(Mul(MulConstant(DiagMatrix(q[i]), Total), SliceToMat(dz[i])), 1)]

(* SoftmaxLayer.backward times Total^2: (diag(p) - p p^T) dz in each row.  *)
SoftmaxBack(q, dz) ==
  [i \in DOMAIN q |->
     LET vecY == SliceToMat(q[i])
         m    == Add(Mul(vecY, MulConstant(Transpose(vecY), -1)), MulConstant(DiagMatrix(q[i]), Total))
     IN ColAt(Mul(m, SliceToMat(dz[i])), 1)]

(* grad_f_nn, the gradient of one batch, times Scale N Total.              *)
GradFNN(q, label, batch) ==
  LET dz == SoftmaxBack(q, CrossEntropyBack(q, label))
  IN FlattenWB(Added(GetZeroMat(Units, Inputs), dz, batch), SampleSums(dz))

-----------------------------------------------------------------------------
(* Properties. *)

TypeOK ==
  /\ Rows(W) = Units /\ Cols(W) = Inputs /\ SameShape(DW, W) /\ SameShape(DB, B)
  /\ X \in Batches \cup {<<>>}
  /\ Len(passes) \in 0 .. MaxPasses /\ updates \in 0 .. MaxUpdates

(* The sum of the outputs of a batch, weighted with dz: what backward      *)
(* takes the derivative of.                                                *)
Weighted(w, b, batch, dz) ==
  LET z == Affine(w, b, batch)
  IN SumFunction([i \in DOMAIN z |-> InnerProduct(dz[i], z[i])])

AllPasses(w, b) ==
  SumFunction([k \in DOMAIN passes |-> Weighted(w, b, passes[k][1], passes[k][2])])

(* DW and DB are the derivatives of all passes since the last update, and  *)
(* of no other: each one for the input of its own forward (nn.go:102-127). *)
GradientsAddUp ==
  /\ \A i \in 1 .. Units, j \in 1 .. Inputs :
       DW[i][j] = AllPasses([W EXCEPT ![i][j] = @ + 1], B) - AllPasses(W, B)
  /\ \A i \in 1 .. Units : DB[i][1] = AllPasses(W, [B EXCEPT ![i][1] = @ + 1]) - AllPasses(W, B)

(* What backward returns is the derivative for its input (nn.go:119).      *)
BackIsSlope ==
  X # <<>> => \A dz \in {g \in Gradients : Rows(g) = Rows(X)} :
    LET dx == Back(dz, W)
    IN \A n \in DOMAIN X, j \in 1 .. Inputs :
         dx[n][j] = Weighted(W, B, [X EXCEPT ![n][j] = @ + 1], dz) - Weighted(W, B, X, dz)

(* The host's step on flat vectors is updatePara of the layer, after the   *)
(* way through a packet: weights and gradients are flattened and taken     *)
(* apart in the same order (ml.go:581-583, 776-788, 906-943).              *)
HostStepsLikeLayer ==
  [][\A gamma \in Gamma : UpdatePara(gamma) =>
       DeFlatten(Stepped(FlattenWB(W, B), gamma, FlattenWB(DW, DB))) = <<W', B'>>]_vars

(* The three backwards together are the gradient of the cross entropy of a *)
(* softmax: probabilities less the label, averaged over the batch with its *)
(* inputs (nn.go:162-229).  The layer is fresh: grad_f_nn makes one for    *)
(* every gradient (ml.go:772-788).                                         *)
NetworkGradient ==
  X # <<>> /\ passes = <<>> => \A q \in [DOMAIN X -> Probs], label \in [DOMAIN X -> Labels] :
    LET less == [i \in DOMAIN X |-> [u \in 1 .. Units |-> q[i][u] - (IF u = label[i] THEN Total ELSE 0)]]
    IN GradFNN(q, label, X) =
         [k \in 1 .. Units * Inputs + Units |->
            Scale * SumFunction([i \in DOMAIN X |->
              IF k > Units * Inputs THEN less[i][k - Units * Inputs]
              ELSE less[i][((k - 1) \div Inputs) + 1] * X[i][((k - 1) % Inputs) + 1]])]
=============================================================================
