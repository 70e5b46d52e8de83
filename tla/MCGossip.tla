------------------------------ MODULE MCGossip ------------------------------
(* Small networks of gossipers for TLC. *)
EXTENDS Gossip, TLC

CONSTANTS a, b, c

(* -peers flags: a pair of which only a knows the other, and a full mesh.  *)
Pair == a :> {b} @@ b :> {}
Mesh == a :> {b, c} @@ b :> {a, c} @@ c :> {a, b}

(* How many rumors each node publishes. *)
OnlyA2 == [n \in Node |-> IF n = a THEN 2 ELSE 0]
TwoAndOne == [n \in Node |-> IF n = a THEN 2 ELSE IF n = b THEN 1 ELSE 0]

(* b and c start alike and publish nothing. *)
Symmetry == Permutations({b, c})
=============================================================================
