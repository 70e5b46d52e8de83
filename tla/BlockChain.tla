----------------------------- MODULE BlockChain -----------------------------
(***************************************************************************)
(* The chain of blocks that every node keeps (blockchain.go): handleBlock, *)
(* which the packet loop runs, updateMainChain, and the goroutine PoW on   *)
(* the nodes that mine (main.go starts none at present).                   *)
(*                                                                         *)
(* A block stands for its hash, which its PrevHash, nonce and file names   *)
(* determine: only prev, the PrevHash of the mined blocks, is kept, and a  *)
(* nonce that gives a valid hash is found at any time.  Nothing calls      *)
(* initBlockChain, so that the zero hash is not in cBlockMap.  A packet    *)
(* that is lost is one that is never received.                             *)
(***************************************************************************)
EXTENDS Integers, Sequences, FiniteSets

CONSTANTS
  Node, None,
  Block,     \* bound: the blocks that can be mined
  Zero,      \* the hash of 32 zero bytes
  Peers,     \* Peers[n]: peer_list of n
  Miner,     \* nodes that run PoW
  Hops       \* HopLimit of a mined block (20)

ASSUME DistinctAssumption == None \notin Block /\ Zero \notin Block /\ None # Zero
ASSUME PeersAssumption == \A n \in Node : Peers[n] \subseteq Node \ {n}
ASSUME MinerAssumption == Miner \subseteq Node
ASSUME HopsAssumption == Hops \in Nat \ {0}

VARIABLES
  prev,      \* prev[b]: PrevHash of b, None while it is not mined
  len,       \* len[n][b]: Len of b in cBlockMap, 0 when it is not there
  main,      \* main[n]: mainChain, whose length is longestLen
  listed,    \* listed[n]: blockChain; its blocks are parentBlockMap
  nextPrev,  \* nextPrev[n]: nextBlock.PrevHash
  net        \* block packets on their way

vars == <<prev, len, main, listed, nextPrev, net>>

-----------------------------------------------------------------------------
Packet == [src : Node, dst : Node, block : Block, hop : 1..Hops]

TypeOK ==
  /\ prev \in [Block -> Block \cup {Zero, None}]
  /\ len \in [Node -> [Block -> Nat]]
  /\ main \in [Node -> Seq(Block)]
  /\ listed \in [Node -> Seq(Block)]
  /\ nextPrev \in [Node -> Block \cup {Zero}]
  /\ net \subseteq Packet

Init ==
  /\ prev = [b \in Block |-> None]
  /\ len = [n \in Node |-> [b \in Block |-> 0]]
  /\ main = [n \in Node |-> <<>>]
  /\ listed = [n \in Node |-> <<>>]
  /\ nextPrev = [n \in Node |-> Zero]
  /\ net = {}

-----------------------------------------------------------------------------
(* Helpers. *)

Elements(s) == {s[i] : i \in DOMAIN s}
Longest(n)  == Len(main[n])
Known(n, b) == b \in Block /\ len[n][b] # 0
Listed(n)   == Elements(listed[n])

(* The l blocks that end in b, along Parent.                               *)
Trace(b, l) ==
  LET back[k \in 0..l - 1] == IF k = 0 THEN b ELSE prev[back[k - 1]]
  IN  [i \in 1..l |-> back[l - i]]

(* Mutant: a longer fork is appended, nothing is rewound. *)
UpdateMainChainAppend(n, b, l) == Append(main[n], b)

(* updateMainChain for a block of length l at the end of a chain.          *)
UpdateMainChain(n, b, l) ==
  IF prev[b] = main[n][Longest(n)] THEN Append(main[n], b) ELSE Trace(b, l)

(* sendPacketToAddr to the peers but the one a packet came from.           *)
Packets(n, src, b, hop) ==
  {[src |-> n, dst |-> p, block |-> b, hop |-> hop] : p \in Peers[n] \ {src}}

Forwarded(n, m) == IF m.hop = 1 THEN {} ELSE Packets(n, m.src, m.block, m.hop - 1)

(* Mutant: a fork replaces the main chain when it is as long. *)
AttachEager(n, b) ==
  LET l == len[n][prev[b]] + 1
  IN  /\ len' = [len EXCEPT ![n][b] = l]
      /\ nextPrev' = [nextPrev EXCEPT ![n] = b]
      /\ main' = IF l >= Longest(n) THEN [main EXCEPT ![n] = UpdateMainChain(n, b, l)] ELSE main

(* Mutant: only the end of the main chain is ever followed. *)
AttachToMain(n, b) ==
  LET l == len[n][prev[b]] + 1
  IN  /\ len' = [len EXCEPT ![n][b] = l]
      /\ nextPrev' = [nextPrev EXCEPT ![n] = b]
      /\ main' = IF prev[b] = main[n][Longest(n)] THEN [main EXCEPT ![n] = Append(@, b)] ELSE main

(* Case 3 of the comment at blockchain.go:201: b goes behind its parent.   *)
(* The next block to mine follows it even when it is not on main.          *)
Attach(n, b) ==
  LET l == len[n][prev[b]] + 1
  IN  /\ len' = [len EXCEPT ![n][b] = l]
      /\ nextPrev' = [nextPrev EXCEPT ![n] = b]
      /\ main' = IF l > Longest(n) THEN [main EXCEPT ![n] = UpdateMainChain(n, b, l)] ELSE main

(* Case 1: the first block is the root, whatever its PrevHash.             *)
Root(n, b) ==
  /\ len' = [len EXCEPT ![n][b] = 1]
  /\ nextPrev' = [nextPrev EXCEPT ![n] = b]
  /\ main' = [main EXCEPT ![n] = <<b>>]

(* Mutant: orphans are listed, too. *)
ListsAll(n, b) == TRUE

(* The other list: blocks with PrevHash 0 or a listed parent, or the first.*)
Lists(n, b) == listed[n] = <<>> \/ prev[b] = Zero \/ prev[b] \in Listed(n)

(* handleBlock of a new block.                                             *)
HandleBlock(n, m) ==
  /\ m.block \notin Listed(n)
  /\ \/ /\ Longest(n) = 0
        /\ Root(n, m.block)
     \/ /\ Longest(n) # 0 /\ Known(n, prev[m.block])
        /\ Attach(n, m.block)
     \/ /\ Longest(n) # 0 /\ ~Known(n, prev[m.block])
        /\ UNCHANGED <<len, nextPrev, main>>
  /\ \/ /\ Lists(n, m.block)
        /\ listed' = [listed EXCEPT ![n] = Append(@, m.block)]
        /\ net' = (net \ {m}) \cup Forwarded(n, m)
     \/ /\ ~Lists(n, m.block)
        /\ net' = net \ {m}
        /\ UNCHANGED listed
  /\ UNCHANGED prev

HandleDuplicate(n, m) ==
  /\ m.block \in Listed(n)
  /\ net' = net \ {m}
  /\ UNCHANGED <<prev, len, main, listed, nextPrev>>

Receive(n) == \E m \in net : m.dst = n /\ (HandleBlock(n, m) \/ HandleDuplicate(n, m))

(* PoW finds a nonce for nextBlock, and sends it to the peers and to the   *)
(* node itself.                                                            *)
Mine(n, b) ==
  /\ n \in Miner /\ prev[b] = None
  /\ prev' = [prev EXCEPT ![b] = nextPrev[n]]
  /\ net' = net \cup Packets(n, None, b, Hops)
                \cup {[src |-> n, dst |-> n, block |-> b, hop |-> Hops]}
  /\ UNCHANGED <<len, main, listed, nextPrev>>

Next == \E n \in Node : Receive(n) \/ \E b \in Block : Mine(n, b)

Spec == Init /\ [][Next]_vars

-----------------------------------------------------------------------------
(* Properties. *)

(* The main chain hangs together, through forks and rewinds: every block   *)
(* follows the one before it and its place is the Len it was given; no     *)
(* known chain is longer; and a miner works on a block of its own chain    *)
(* (blockchain.go:206-230, 301-334).  The state keeps its types.           *)
MainIsChain ==
  /\ TypeOK
  /\ \A n \in Node :
       /\ \A i \in DOMAIN main[n] : /\ len[n][main[n][i]] = i
                                    /\ i > 1 => prev[main[n][i]] = main[n][i - 1]
       /\ \A b \in Block : len[n][b] <= Longest(n)
       /\ IF main[n] = <<>> THEN nextPrev[n] = Zero ELSE Known(n, nextPrev[n])

(* A main chain is given up only for a longer one, with the blocks that    *)
(* were on it kept; between two of the same length the first one stays.    *)
MainOnlyGrows ==
  [][\A n \in Node : /\ main'[n] # main[n] => Len(main'[n]) > Len(main[n])
                     /\ \A b \in Elements(main[n]) : len'[n][b] = len[n][b]]_vars

(* The list repeats no block, and a block follows its parent unless it is  *)
(* the first or has PrevHash 0; the chain knows nothing that is not listed *)
(* (blockchain.go:188-204, 232-244).                                       *)
ListInOrder ==
  \A n \in Node :
    /\ \A i \in DOMAIN listed[n] :
         \/ i = 1 \/ prev[listed[n][i]] = Zero
         \/ \E j \in 1..i - 1 : listed[n][j] = prev[listed[n][i]]
    /\ \A i, j \in DOMAIN listed[n] : listed[n][i] = listed[n][j] => i = j
    /\ \A b \in Block : len[n][b] # 0 => b \in Listed(n)

(* Nodes that know the same blocks with the same first one have main       *)
(* chains of one length, in whatever order the blocks came.                *)
SameBlocksSameLength ==
  \A n, m \in Node :
    /\ \A b \in Block : (len[n][b] # 0) = (len[m][b] # 0)
    /\ main[n] # <<>> /\ main[n][1] = main[m][1]
    => Longest(n) = Longest(m)
=============================================================================
