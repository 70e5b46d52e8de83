------------------------------- MODULE Fetch --------------------------------
(***************************************************************************)
(* What a download promises: it is ordered once, learns how many chunks it *)
(* is to take, takes the chunks of the file in order, each once, and ends  *)
(* when it has as many as that or when a source does not have the file.    *)
(* An ended download never changes again.                                  *)
(***************************************************************************)
EXTENDS Sequences, Naturals

CONSTANTS
  Order,   \* downloads
  Whole    \* Whole[o]: the chunks of the file that o asks for

VARIABLES
  status,  \* new, wait, done or missing
  length,  \* how many chunks the metafile names, 0 before it is there
  got      \* the chunks taken

Init == /\ status = [o \in Order |-> "new"]
        /\ length = [o \in Order |-> 0]
        /\ got = [o \in Order |-> <<>>]

Start(o) == /\ status[o] = "new"
            /\ status' = [status EXCEPT ![o] = "wait"]
            /\ UNCHANGED <<length, got>>

(* A metafile that was cut short names the first chunks only.              *)
Learn(o, k) == /\ status[o] = "wait" /\ length[o] = 0
               /\ k \in 1..Len(Whole[o])
               /\ length' = [length EXCEPT ![o] = k]
               /\ UNCHANGED <<status, got>>

Extend(o) ==
  /\ status[o] = "wait" /\ Len(got[o]) < length[o]
  /\ got' = [got EXCEPT ![o] = Append(got[o], Whole[o][Len(got[o]) + 1])]
  /\ UNCHANGED <<status, length>>

Finish(o) == /\ status[o] = "wait" /\ length[o] > 0 /\ Len(got[o]) = length[o]
             /\ status' = [status EXCEPT ![o] = "done"]
             /\ UNCHANGED <<length, got>>

Fail(o) == /\ status[o] = "wait"
           /\ status' = [status EXCEPT ![o] = "missing"]
           /\ UNCHANGED <<length, got>>

Next == \E o \in Order : \/ Start(o) \/ Extend(o) \/ Finish(o) \/ Fail(o)
                         \/ \E k \in 1..Len(Whole[o]) : Learn(o, k)

Spec == Init /\ [][Next]_<<status, length, got>>
=============================================================================
