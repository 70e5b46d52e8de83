------------------------------ MODULE Matrices ------------------------------
(***************************************************************************)
(* The operations of matrix.go that training uses, on sequences of rows.   *)
(* Entries are integers: what the code divides by, the users of this       *)
(* module multiply the other side with.  Where dimensions do not fit, the  *)
(* code stops the program (log.Fatal).                                     *)
(***************************************************************************)
EXTENDS Integers, Sequences, Functions

Rows(m) == Len(m)
Cols(m) == Len(m[1])

IsMatrix(m) ==
  /\ Rows(m) \in Nat \ {0} /\ Cols(m) \in Nat \ {0}
  /\ m \in [1 .. Rows(m) -> [1 .. Cols(m) -> Int]]

FitsMul(m1, m2) == Cols(m1) = Rows(m2)
SameShape(m1, m2) == Rows(m1) = Rows(m2) /\ Cols(m1) = Cols(m2)

RowAt(m, i) == m[i]
ColAt(m, j) == [i \in 1 .. Rows(m) |-> m[i][j]]

InnerProduct(v1, v2) == SumFunction([i \in DOMAIN v1 |-> v1[i] * v2[i]])

Mul(m1, m2) ==
  [i \in 1 .. Rows(m1) |-> [j \in 1 .. Cols(m2) |-> InnerProduct(RowAt(m1, i), ColAt(m2, j))]]

EachEntry(m, Op(_, _)) == [i \in 1 .. Rows(m) |-> [j \in 1 .. Cols(m) |-> Op(i, j)]]

Sub(m1, m2) == EachEntry(m1, LAMBDA i, j : m1[i][j] - m2[i][j])
Add(m1, m2) == EachEntry(m1, LAMBDA i, j : m1[i][j] + m2[i][j])
MulConstant(m, c) == EachEntry(m, LAMBDA i, j : c * m[i][j])

(* T                                                                       *)
Transpose(m) == [i \in 1 .. Cols(m) |-> ColAt(m, i)]

SliceToMat(v) == [i \in DOMAIN v |-> <<v[i]>>]
GetZeroMat(r, c) == [i \in 1 .. r |-> [j \in 1 .. c |-> 0]]
DiagMatrix(v) == [i \in DOMAIN v |-> [j \in DOMAIN v |-> IF i = j THEN v[i] ELSE 0]]
=============================================================================
