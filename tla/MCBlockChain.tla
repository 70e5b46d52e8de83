---------------------------- MODULE MCBlockChain ----------------------------
(* The two parts of blockchain.go for TLC: a behaviour is one of the block *)
(* chain or one of the file names.                                         *)
EXTENDS ChainAndNames, TLC

CONSTANTS a, b, c, d,   \* nodes
          x, y          \* file names

Pair == a :> {b} @@ b :> {a}

(* A triangle with a tail: a name of a comes to c straight and round by b, *)
(* with one hop less, and whichever copy is first decides what d gets.     *)
Tailed == a :> {b, c} @@ b :> {a, c} @@ c :> {a, b, d} @@ d :> {c}

OneEach == {<<a, x>>, <<d, y>>}

Symmetry == Permutations(Block)

VARIABLE part

ASSUME NamesAssumption == N!ConstantsOK

MCInit == Init /\ N!Init /\ part \in {"blocks", "names"}

MCNext == \/ part = "blocks" /\ Next /\ UNCHANGED <<part, nameVars>>
          \/ part = "names" /\ N!Next /\ UNCHANGED <<part, vars>>

MCSpec == MCInit /\ [][MCNext]_<<part, vars, nameVars>>
=============================================================================
