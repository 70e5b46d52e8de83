--------------------------- MODULE MCByzantineSGD ---------------------------
(* Small numbers of workers for TLC. *)
EXTENDS ByzantineSGD, TLC

CONSTANTS s, a, b, c   \* s trains

(* Numbers that do not change, the Byzantine worker's the largest.         *)
Ranks == s :> {1} @@ a :> {2} @@ b :> {3} @@ c :> {4}
=============================================================================
