----------------------------- MODULE PeerTable ------------------------------
(***************************************************************************)
(* The peer table of one gossiper, step by step (main.go, gui.go):         *)
(* peer_list, the index of a peer in it, and the channel for its statuses. *)
(* The packet loop ("loop") and the web page ("web") add peers; goroutines *)
(* pick a random peer other than the one they had a rumor from.  Only the  *)
(* single calls of peer_list are locked.                                   *)
(***************************************************************************)
EXTENDS Integers, Sequences, FiniteSets

CONSTANTS
  Addr,     \* addresses, without the own one
  None,     \* no index; the result of a Get out of range
  Flags     \* what the -peers flag may be

ConstantsOK ==
  /\ None \notin Addr /\ None \notin Nat
  /\ Flags \subseteq Seq(Addr)
  /\ \A flag \in Flags : \A i, j \in DOMAIN flag : flag[i] = flag[j] => i = j

VARIABLES
  list,     \* peer_list
  index,    \* peer_index
  channel,  \* the keys of recv_channels
  writer,   \* writer[w]: where w is in the addition of an address
  pick      \* a goroutine inside randomPeer, or what it got

vars == <<list, index, channel, writer, pick>>

-----------------------------------------------------------------------------
Writers == {"loop", "web"}

Quiet == [pc |-> "idle"]
Off   == [pc |-> "off"]   \* the web page without the -gui flag
Busy  == [pc : {"append", "index", "channel"}, addr : Addr]

Picking == [pc : {"get"}, excluded : Addr, at : Int]
Picked  == [pc : {"done"}, excluded : Addr, peer : Addr \cup {None}]

TypeOK ==
  /\ list \in Seq(Addr)
  /\ index \in [Addr -> Nat \cup {None}]
  /\ channel \subseteq Addr
  /\ writer \in [Writers -> {Quiet, Off} \cup Busy]
  /\ pick \in {Quiet} \cup Picking \cup Picked

Listed == {list[i] : i \in DOMAIN list}

(* The peers of the flag are there before anything runs.                   *)
Init ==
  /\ list \in Flags
  /\ index = [a \in Addr |-> IF \E i \in DOMAIN list : list[i] = a
                             THEN (CHOOSE i \in DOMAIN list : list[i] = a) - 1 ELSE None]
  /\ channel = Listed
  /\ \E gui \in BOOLEAN :
       writer = [w \in Writers |-> IF w = "web" /\ ~gui THEN Off ELSE Quiet]
  /\ pick = Quiet

-----------------------------------------------------------------------------
(* peer_contained *)
Contained(a) == index[a] # None

(* "append new peer": a datagram comes from a, or the form names it.       *)
Look(w, a) ==
  /\ writer[w] = Quiet /\ ~Contained(a)
  /\ writer' = [writer EXCEPT ![w] = [pc |-> "append", addr |-> a]]
  /\ UNCHANGED <<list, index, channel, pick>>

AppendPeer(w) ==
  /\ writer[w].pc = "append"
  /\ list' = Append(list, writer[w].addr)
  /\ writer' = [writer EXCEPT ![w].pc = "index"]
  /\ UNCHANGED <<index, channel, pick>>

(* Mutant: the length itself is taken. *)
SetIndexToLen(w) ==
  /\ writer[w].pc = "index"
  /\ index' = [index EXCEPT ![writer[w].addr] = Len(list)]
  /\ writer' = [writer EXCEPT ![w].pc = "channel"]
  /\ UNCHANGED <<list, channel, pick>>

SetIndex(w) ==
  /\ writer[w].pc = "index"
  /\ index' = [index EXCEPT ![writer[w].addr] = Len(list) - 1]
  /\ writer' = [writer EXCEPT ![w].pc = "channel"]
  /\ UNCHANGED <<list, channel, pick>>

MakeChannel(w) ==
  /\ writer[w].pc = "channel"
  /\ channel' = channel \cup {writer[w].addr}
  /\ writer' = [writer EXCEPT ![w] = Quiet]
  /\ UNCHANGED <<list, index, pick>>

(* rand.Intn(peer_list.Len()-1) + 1                                        *)
Distances == 1 .. Len(list) - 1

(* randomPeer(excluded): the excluded peer is one that a packet came from, *)
(* and the list has more than one, ...                                     *)
StartPick(a) ==
  /\ pick = Quiet /\ a \in channel /\ Len(list) # 1
  /\ \E d \in Distances : pick' = [pc |-> "get", excluded |-> a, at |-> index[a] + d]
  /\ UNCHANGED <<list, index, channel, writer>>

(* ... and may be longer when it is read again.                            *)
PeerAt(at) ==
  LET i == at % Len(list) IN IF i + 1 \in DOMAIN list THEN list[i + 1] ELSE None

FinishPick ==
  /\ pick.pc = "get"
  /\ pick' = [pc |-> "done", excluded |-> pick.excluded, peer |-> PeerAt(pick.at)]
  /\ UNCHANGED <<list, index, channel, writer>>

NextPick == pick.pc = "done" /\ pick' = Quiet /\ UNCHANGED <<list, index, channel, writer>>

Next == \/ \E w \in Writers : \/ \E a \in Addr : Look(w, a)
                              \/ AppendPeer(w) \/ SetIndex(w) \/ MakeChannel(w)
        \/ \E a \in Addr : StartPick(a)
        \/ FinishPick \/ NextPick

Spec == Init /\ [][Next]_vars

-----------------------------------------------------------------------------
(* Properties. *)

(* Without web page, the index of a peer is its place in the list, no peer *)
(* is listed twice, and a rumor is not passed back to the peer it came     *)
(* from, even when the list grows between the two reads of its length      *)
(* (main.go:148-151, 446-457).                                             *)
TableInOrder ==
  writer["web"] = Off =>
    /\ \A a \in Addr : index[a] # None => PeerAt(index[a]) = a
    /\ \A i, j \in DOMAIN list : list[i] = list[j] => i = j
    /\ pick.pc = "done" => pick.peer # pick.excluded

(* However many write, and whichever addition overlaps another, indices    *)
(* and picks stay in the list and nobody is listed more often than there   *)
(* are writers (main.go:149-151, gui.go:154-156).                          *)
TableInBounds ==
  /\ TypeOK
  /\ pick.pc = "done" => pick.peer # None
  /\ \A a \in Addr :
       /\ index[a] # None => index[a] \in 0 .. Len(list) - 1
       /\ Cardinality({i \in DOMAIN list : list[i] = a}) <= Cardinality({w \in Writers : writer[w] # Off})
=============================================================================
