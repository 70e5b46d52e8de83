-------------------------- MODULE MCSearchProcess ---------------------------
(* Two searches of one node for TLC. *)
EXTENDS SearchProcess, TLC

CONSTANTS p, q,    \* peers
          f, g,    \* file names
          s1, s2,  \* searches
          m1, m2   \* metahashes

(* Both peers have g; p has a part of f, and q has the rest.               *)
Chunks    == f :> 2 @@ g :> 1
Parts     == p :> (f :> {1} @@ g :> {1}) @@ q :> (f :> {2} @@ g :> {1})
SameFiles == [x \in Peer |-> f :> m1 @@ g :> m2]

(* Both names match s1, which doubles its budget; one matches s2, which    *)
(* was given one and does not.                                             *)
OverlapMatch == s1 :> {f, g} @@ s2 :> {f}
TwoAndThree  == s1 :> 2 @@ s2 :> 3
=============================================================================
