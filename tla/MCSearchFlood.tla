--------------------------- MODULE MCSearchFlood ----------------------------
(* A triangle of nodes for TLC, two of which search. *)
EXTENDS SearchFlood, TLC

CONSTANTS a, b, c,  \* nodes
          r1, r2    \* rounds

Triangle  == a :> {b, c} @@ b :> {a, c} @@ c :> {a, b}
AllRoutes == [n \in Node |-> Node \ {n}]
ByAandC   == r1 :> a @@ r2 :> c
TwoFive   == r1 :> 2 @@ r2 :> 5
=============================================================================
