----------------------------- MODULE MCTraining -----------------------------
(* Small networks of training gossipers for TLC. *)
EXTENDS Training, TLC

CONSTANTS a, b, c

(* Two neighbours. *)
Pair == a :> {b} @@ b :> {a}
PairHop == [n \in Node |-> [o \in Node |-> IF o = n THEN None ELSE o]]

(* A triangle in which c heard the rumors of a through b.                  *)
Triangle == a :> {b, c} @@ b :> {a, c} @@ c :> {a, b}
TriangleHop ==
  [n \in Node |-> [o \in Node |->
     IF o = n THEN None ELSE IF n = c /\ o = a THEN b ELSE o]]

(* Names without digits: no two keys are equal. *)
Names == [o \in Node |-> [i \in 0 .. Rounds - 1 |-> <<o, i>>]]
=============================================================================
