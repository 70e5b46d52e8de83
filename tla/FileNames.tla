----------------------------- MODULE FileNames ------------------------------
(***************************************************************************)
(* The flood of file names (blockchain.go, main.go): the goroutine         *)
(* publishFile of every shared file, and handlebcFile in the packet loop.  *)
(* Both note the name in tmpbcFileMap and append it to the transactions of *)
(* nextBlock, the block that the node would mine.                          *)
(*                                                                         *)
(* A file is known by its name and the node that shared it.  Nothing fills *)
(* bcFileMap.  The appends take no lock: two that overlap both extend what *)
(* they read.  handlebcFile sends after its append in the same step, since *)
(* nothing else reads what it sends.  A packet that is lost is one that is *)
(* never received.                                                         *)
(***************************************************************************)
EXTENDS Integers, Sequences

CONSTANTS
  Node, Name, None,
  Peers,      \* Peers[n]: peer_list of n
  Shares,     \* <<n, x>>: the user of n shares a file named x, once
  Hops,       \* HopLimit of a published name (10)
  Racy        \* nodes on which the appends of two goroutines may overlap

ConstantsOK == /\ None \notin Node
               /\ \A n \in Node : Peers[n] \subseteq Node \ {n}
               /\ Shares \subseteq Node \X Name
               /\ Hops \in Nat \ {0}
               /\ Racy \subseteq Node

VARIABLES
  table,  \* table[n][x]: tmpbcFileMap, the owner of the file noted as x
  txs,    \* txs[n]: nextBlock.Transactions
  pub,    \* pub[s]: the goroutine publishFile of share s
  loop,   \* loop[n]: where the packet loop is inside handlebcFile
  net     \* name packets on their way

vars == <<table, txs, pub, loop, net>>

-----------------------------------------------------------------------------
File   == [name : Name, owner : Node]
Packet == [src : Node, dst : Node, file : File, hop : 1..Hops]

Idle    == [pc |-> "idle"]
Inside  == [pc : {"append", "write"}, packet : Packet, read : Seq(File)]

TypeOK ==
  /\ table \in [Node -> [Name -> Node \cup {None}]]
  /\ txs \in [Node -> Seq(File)]
  /\ \A s \in Shares : /\ pub[s].pc \in {"new", "append", "write", "send", "done"}
                       /\ pub[s].read \in Seq(File)
  /\ loop \in [Node -> {Idle} \cup Inside]
  /\ net \subseteq Packet

Init ==
  /\ table = [n \in Node |-> [x \in Name |-> None]]
  /\ txs = [n \in Node |-> <<>>]
  /\ pub = [s \in Shares |-> [pc |-> "new", read |-> <<>>]]
  /\ loop = [n \in Node |-> Idle]
  /\ net = {}

-----------------------------------------------------------------------------
FileOf(s) == [name |-> s[2], owner |-> s[1]]

Note(n, f) == table' = [table EXCEPT ![n][f.name] = f.owner]

Packets(n, src, f, hop) ==
  {[src |-> n, dst |-> p, file |-> f, hop |-> hop] : p \in Peers[n] \ {src}}

(* publishFile: note the name, append it, send it to every peer.           *)
(* Mutant: the name is sent and appended but never noted. *)
PublishNoteLost(s) ==
  /\ pub[s].pc = "new"
  /\ pub' = [pub EXCEPT ![s].pc = "append"]
  /\ UNCHANGED <<table, txs, loop, net>>

PublishNote(s) ==
  /\ pub[s].pc = "new"
  /\ Note(s[1], FileOf(s))
  /\ pub' = [pub EXCEPT ![s].pc = "append"]
  /\ UNCHANGED <<txs, loop, net>>

PublishRead(s) ==
  /\ s[1] \in Racy /\ pub[s].pc = "append"
  /\ pub' = [pub EXCEPT ![s] = [pc |-> "write", read |-> txs[s[1]]]]
  /\ UNCHANGED <<table, txs, loop, net>>

PublishAppend(s) ==
  /\ \/ /\ pub[s].pc = "write"
        /\ txs' = [txs EXCEPT ![s[1]] = Append(pub[s].read, FileOf(s))]
     \/ /\ s[1] \notin Racy /\ pub[s].pc = "append"
        /\ txs' = [txs EXCEPT ![s[1]] = Append(@, FileOf(s))]
  /\ pub' = [pub EXCEPT ![s] = [pc |-> "send", read |-> <<>>]]
  /\ UNCHANGED <<table, loop, net>>

PublishSend(s) ==
  /\ pub[s].pc = "send"
  /\ net' = net \cup Packets(s[1], None, FileOf(s), Hops)
  /\ pub' = [pub EXCEPT ![s].pc = "done"]
  /\ UNCHANGED <<table, txs, loop>>

-----------------------------------------------------------------------------
(* Mutant: the owner is part of what makes a file known. *)
SeenFromOwner(n, f) == table[n][f.name] = f.owner

(* handlebcFile: a name that is noted already is dropped, another one is   *)
(* noted, ...                                                              *)
Seen(n, f) == table[n][f.name] # None

ReceiveKnown(n, m) ==
  /\ loop[n] = Idle /\ m.dst = n /\ Seen(n, m.file)
  /\ net' = net \ {m}
  /\ UNCHANGED <<table, txs, pub, loop>>

ReceiveNew(n, m) ==
  /\ loop[n] = Idle /\ m.dst = n /\ ~Seen(n, m.file)
  /\ net' = net \ {m}
  /\ Note(n, m.file)
  /\ loop' = [loop EXCEPT ![n] = [pc |-> "append", packet |-> m, read |-> <<>>]]
  /\ UNCHANGED <<txs, pub>>

HandleRead(n) ==
  /\ n \in Racy /\ loop[n].pc = "append"
  /\ loop' = [loop EXCEPT ![n].pc = "write", ![n].read = txs[n]]
  /\ UNCHANGED <<table, txs, pub, net>>

(* Mutant: a packet with two hops left goes nowhere. *)
ForwardedOneLess(n, m) == IF m.hop <= 2 THEN {} ELSE Packets(n, m.src, m.file, m.hop - 1)

(* ... appended, and sent on while its hop limit lasts.                    *)
Forwarded(n, m) == IF m.hop = 1 THEN {} ELSE Packets(n, m.src, m.file, m.hop - 1)

HandleAppend(n) ==
  /\ \/ /\ loop[n].pc = "write"
        /\ txs' = [txs EXCEPT ![n] = Append(loop[n].read, loop[n].packet.file)]
     \/ /\ n \notin Racy /\ loop[n].pc = "append"
        /\ txs' = [txs EXCEPT ![n] = Append(@, loop[n].packet.file)]
  /\ net' = net \cup Forwarded(n, loop[n].packet)
  /\ loop' = [loop EXCEPT ![n] = Idle]
  /\ UNCHANGED <<table, pub>>

Publish(s) == PublishNote(s) \/ PublishRead(s) \/ PublishAppend(s) \/ PublishSend(s)

Handle(n) == \/ \E m \in net : ReceiveKnown(n, m) \/ ReceiveNew(n, m)
             \/ HandleRead(n) \/ HandleAppend(n)

Next == \/ \E s \in Shares : Publish(s)
        \/ \E n \in Node : Handle(n)

Spec == Init /\ [][Next]_vars

-----------------------------------------------------------------------------
(* Properties. *)

Quiet(n) == loop[n] = Idle /\ \A s \in Shares : s[1] = n => pub[s].pc \in {"new", "send", "done"}

Listed(n, x) == {i \in DOMAIN txs[n] : txs[n][i].name = x}

(* Between two packets the next block holds every name that was noted,     *)
(* once, and nothing but them: what handlebcFile drops as seen has been    *)
(* appended (blockchain.go:118-119, 131-137).  Where appends may overlap,  *)
(* a noted name may be missing, but none is there twice or unnoted.  (All  *)
(* names that are shared differ.)  The state keeps its types.              *)
NotedIsListed ==
  /\ TypeOK
  /\ \A n \in Node : Quiet(n) => \A x \in Name :
       /\ \A i, j \in Listed(n, x) : i = j
       /\ Listed(n, x) # {} => table[n][x] # None
       /\ n \notin Racy /\ table[n][x] # None => Listed(n, x) # {}

(* When everything has been sent and received, every node has noted every  *)
(* name that was shared, over whatever paths its copies came first: the    *)
(* hop limit is as long as the longest way (blockchain.go:140-154).        *)
NamesSpread ==
  /\ \A s \in Shares : pub[s].pc = "done"
  /\ \A n \in Node : loop[n] = Idle
  /\ net = {}
  => \A n \in Node : \A s \in Shares : table[n][s[2]] = s[1]
=============================================================================
