---------------------------- MODULE LinearModel -----------------------------
(***************************************************************************)
(* The linear model of ml.go: the mean squared error f, its gradient       *)
(* grad_f, and the step that a training round takes with one gradient.     *)
(* Losses are multiplied by 2N and gradients by N, where N is the number   *)
(* of samples, which makes every value an integer.                         *)
(***************************************************************************)
EXTENDS Integers, Matrices

CONSTANTS
  Features,        \* sample matrices x
  Value,           \* entries of the outputs y and of the first weights
  Regularization,  \* "", "ridge" and "lasso"
  Lambda,          \* factors of the regularization
  MaxWeight        \* bound: of a weight

ConstantsOK ==
  /\ \A m \in Features : IsMatrix(m)
  /\ MaxWeight \in Nat /\ Value \subseteq -MaxWeight .. MaxWeight
  /\ Lambda \subseteq Nat

VARIABLES
  x, y,     \* the data set, N x d and N x 1
  w,        \* the weights, d
  reg, lambda

vars == <<x, y, w, reg, lambda>>

-----------------------------------------------------------------------------
N == Rows(x)

TypeOK ==
  /\ x \in Features /\ \A i \in DOMAIN y : y[i] \in Value
  /\ DOMAIN w = 1 .. Cols(x) /\ \A j \in DOMAIN w : w[j] \in -MaxWeight .. MaxWeight
  /\ FitsMul(x, SliceToMat(w)) /\ SameShape(Mul(x, SliceToMat(w)), SliceToMat(y))

Abs(a) == IF a < 0 THEN -a ELSE a

(* The penalty for the weights.                                            *)
Penalty(v) ==
  CASE reg = "ridge" -> Mul(Transpose(SliceToMat(v)), SliceToMat(v))[1][1]
    [] reg = "lasso" -> SumFunction([j \in DOMAIN v |-> Abs(v[j])])
    [] OTHER         -> 0

Residual(v) == Sub(Mul(x, SliceToMat(v)), SliceToMat(y))

(* mse_loss: |xw - y|^2 / 2N and lambda times the penalty.                 *)
MseLoss(v) ==
  LET r == Residual(v)
  IN Mul(Transpose(r), r)[1][1] + 2 * N * lambda * Penalty(v)

(* x^T (xw - y)                                                            *)
Slope(v) == Mul(Transpose(x), Residual(v))

Sign(a) == IF a >= 0 THEN 1 ELSE -1

(* grad_mse                                                                *)
GradMse(v) ==
  LET signs == [j \in DOMAIN v |-> Sign(v[j])]
      g     == CASE reg = "ridge" -> Add(Slope(v), MulConstant(SliceToMat(v), N * lambda))
                 [] reg = "lasso" -> Add(Slope(v), MulConstant(SliceToMat(signs), N * lambda))
                 [] OTHER         -> Slope(v)
  IN [j \in DOMAIN v |-> g[j][1]]

Init ==
  /\ x \in Features /\ y \in [1 .. N -> Value]
  /\ w \in [1 .. Cols(x) -> Value]
  /\ reg \in Regularization /\ lambda \in Lambda

(* weight.Val[i] - gamma * updates[i], for a gamma of N                    *)
Updated(v, g) == [j \in DOMAIN v |-> v[j] - g[j]]

Round ==
  LET v == Updated(w, GradMse(w))
  IN /\ \A j \in DOMAIN v : v[j] \in -MaxWeight .. MaxWeight
     /\ w' = v
     /\ UNCHANGED <<x, y, reg, lambda>>

Next == Round

Spec == Init /\ [][Next]_vars

-----------------------------------------------------------------------------
(* Properties. *)

(* Twice the slope of loss L for weight j: exact for a polynomial of       *)
(* degree two, and for lasso away from zero.                               *)
Difference(L(_), j) == L([w EXCEPT ![j] = @ + 1]) - L([w EXCEPT ![j] = @ - 1])
Smooth(j) == reg # "ridge" /\ (reg = "lasso" => w[j] # 0)

(* grad_mse is the derivative of mse_loss, for a linear model without      *)
(* penalty and with lasso (ml.go:832-876).                                 *)
GradientIsSlope ==
  \A j \in DOMAIN w : Smooth(j) => Difference(MseLoss, j) = 4 * GradMse(w)[j]
=============================================================================
