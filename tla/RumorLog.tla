------------------------------ MODULE RumorLog ------------------------------
(***************************************************************************)
(* What rumor gossip promises, without packets, peers or goroutines: every *)
(* node owns a log of rumor texts, and every other node holds a copy of it *)
(* that it extends one entry at a time, in order, with the entries of the  *)
(* owner.  Module Gossip implements this specification (see RL there).     *)
(***************************************************************************)
EXTENDS Naturals, Sequences

CONSTANTS Node,   \* the gossipers; a node is its name and its address
          Text    \* what a rumor may carry

VARIABLE log      \* log[n][o]: the rumors of origin o that node n holds

TypeOK == log \in [Node -> [Node -> Seq(Text)]]

Init == log = [n \in Node |-> [o \in Node |-> <<>>]]

(* The owner of a log adds an entry to it. *)
Publish(o, text) == log' = [log EXCEPT ![o][o] = Append(@, text)]

(* Another node learns the next entry it misses. *)
Learn(n, o) ==
  /\ n # o
  /\ Len(log[n][o]) < Len(log[o][o])
  /\ log' = [log EXCEPT ![n][o] = Append(@, log[o][o][Len(@) + 1])]

Next == \/ \E o \in Node, text \in Text : Publish(o, text)
        \/ \E n, o \in Node : Learn(n, o)

Spec == Init /\ [][Next]_log

(* Every copy is a prefix of the owner's log. *)
PrefixOfOwner ==
  \A n, o \in Node :
    /\ Len(log[n][o]) <= Len(log[o][o])
    /\ \A i \in 1 .. Len(log[n][o]) : log[n][o][i] = log[o][o][i]
=============================================================================
