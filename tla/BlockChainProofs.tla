-------------------------- MODULE BlockChainProofs --------------------------
(***************************************************************************)
(* What the block chain of every node guarantees, for any number of nodes, *)
(* blocks and miners and whatever order the blocks come in: the main chain *)
(* hangs together and only grows, the older list is in order and knows all *)
(* that the chain knows, and nodes that know the same blocks agree on the  *)
(* length.  At the end, the names in a node's next block and how they      *)
(* spread.                                                                 *)
(***************************************************************************)
EXTENDS ChainAndNames, FiniteSetTheorems, WellFoundedInduction, TLAPS

(* A known block was mined, and so was one that travels.                   *)
Mined ==
  /\ \A n \in Node : \A b \in Block : len[n][b] # 0 => prev[b] # None
  /\ \A n \in Node : \A b \in Listed(n) : prev[b] # None
  /\ \A m \in net : prev[m.block] # None

(* Len counts the blocks back to the first one, of which there is one, as  *)
(* soon as a block is listed.                                              *)
LenCounts ==
  \A n \in Node :
    /\ main[n] = <<>> => listed[n] = <<>>
    /\ \A b \in Block :
         /\ len[n][b] = 1 => main[n] # <<>> /\ b = main[n][1]
         /\ len[n][b] > 1 => prev[b] \in Block /\ len[n][prev[b]] = len[n][b] - 1

ChainInv == MainIsChain /\ Mined /\ LenCounts /\ ListInOrder

-----------------------------------------------------------------------------
LEMMA Least ==
  ASSUME NEW S, S \subseteq Nat, S # {}
  PROVE  \E x \in S : \A y \in S : x <= y
<1>1. PICK x \in S : \A y \in S : ~(<<y, x>> \in OpToRel(<, Nat))
  BY WFMin, NatLessThanWellFounded, Zenon
<1>2. ASSUME NEW y \in S
      PROVE  x <= y
  <2>1. ~(<<y, x>> \in OpToRel(<, Nat)) /\ <<y, x>> \in Nat \X Nat
    BY <1>1
  <2>2. ~(y < x)
    BY <2>1 DEF OpToRel
  <2> QED
    BY <2>2
<1> QED
  BY <1>2

(* Induction over a range, for the members of a set.                       *)
LEMMA RangeInduction ==
  ASSUME NEW m \in Nat, NEW S, 0 \in S,
         \A k \in 0 .. m - 1 : k \in S => k + 1 \in S
  PROVE  \A k \in 0 .. m : k \in S
<1> DEFINE T == {k \in 0 .. m : k \notin S}
<1> SUFFICES ASSUME T # {} PROVE FALSE
  OBVIOUS
<1>1. T \subseteq Nat
  OBVIOUS
<1>2. PICK k \in T : \A y \in T : k <= y
  <2> HIDE DEF T
  <2> QED
    BY <1>1, Least
<1>3. k \in 0 .. m /\ k \notin S /\ k # 0
  OBVIOUS
<1>4. k - 1 \in 0 .. m - 1 /\ k - 1 \in 0 .. m /\ k - 1 + 1 = k /\ ~(k <= k - 1)
  BY <1>3
<1>5. k - 1 \in S
  BY <1>2, <1>4
<1> QED
  BY <1>3, <1>4, <1>5

(* The trace of a block goes from parent to parent, for every length.      *)
LEMMA TraceIs ==
  ASSUME NEW b, NEW l \in Nat \ {0}
  PROVE  /\ DOMAIN Trace(b, l) = 1 .. l
         /\ Trace(b, l)[l] = b
         /\ \A i \in 2 .. l : Trace(b, l)[i - 1] = prev[Trace(b, l)[i]]
<1> DEFINE Is(g, k) == g = [j \in 0 .. k |-> IF j = 0 THEN b ELSE prev[g[j - 1]]]
           S == {k \in 0 .. l - 1 : \E g : Is(g, k)}
<1>1. \A k \in 0 .. l - 1 : k \in S
  <2>1. 0 \in S
    <3>1. Is([j \in 0 .. 0 |-> b], 0)
      OBVIOUS
    <3>2. 0 \in 0 .. l - 1
      OBVIOUS
    <3> QED
      BY <3>1, <3>2
  <2>2. ASSUME NEW k \in 0 .. l - 1 - 1, k \in S
        PROVE  k + 1 \in S
    <3>1. PICK g : Is(g, k)
      BY <2>2
    <3> DEFINE h == [j \in 0 .. k + 1 |-> IF j = k + 1 THEN prev[g[k]] ELSE g[j]]
    <3>2. \A j \in 0 .. k + 1 : h[j] = IF j = 0 THEN b ELSE prev[h[j - 1]]
      <4>1. \A j \in 0 .. k : g[j] = IF j = 0 THEN b ELSE prev[g[j - 1]]
        BY <3>1
      <4>2. \A j \in 0 .. k : j \in 0 .. k + 1 /\ h[j] = g[j] /\ (j # 0 => h[j - 1] = g[j - 1])
        OBVIOUS
      <4>3. h[k + 1] = prev[h[k + 1 - 1]]
        OBVIOUS
      <4> QED
        BY <4>1, <4>2, <4>3
    <3>3. Is(h, k + 1)
      BY <3>2
    <3>4. k + 1 \in 0 .. l - 1
      OBVIOUS
    <3> QED
      BY <3>3, <3>4
  <2>3. l - 1 \in Nat
    OBVIOUS
  <2> HIDE DEF S
  <2> QED
    BY <2>1, <2>2, <2>3, RangeInduction
<1> DEFINE back == CHOOSE g : Is(g, l - 1)
<1>2. Is(back, l - 1)
  <2>1. l - 1 \in S
    <3>1. l - 1 \in 0 .. l - 1
      OBVIOUS
    <3> HIDE DEF S
    <3> QED
      BY <3>1, <1>1
  <2> QED
    BY <2>1
<1>3. Trace(b, l) = [i \in 1 .. l |-> back[l - i]]
  BY DEF Trace
<1> HIDE DEF back
<1> QED
  BY <1>2, <1>3

-----------------------------------------------------------------------------
(* Receiving. *)

LEMMA KnownIsListed ==
  ASSUME ChainInv, NEW n \in Node, NEW b \in Block
  PROVE  /\ Known(n, b) => b \in Listed(n)
         /\ b \notin Listed(n) => len[n][b] = 0
  BY DEF ChainInv, ListInOrder, Known

(* What Attach gives a block, and the lengths with it.                     *)
NextLen(n, b)  == len[n][prev[b]] + 1
NextLens(n, b) == [len[n] EXCEPT ![b] = NextLen(n, b)]

(* A chain whose blocks follow each other and are at their lengths.        *)
Linked(chain, lens) ==
  /\ chain \in Seq(Block)
  /\ \A i \in 1 .. Len(chain) : /\ lens[chain[i]] = i
                                /\ i > 1 => prev[chain[i]] = chain[i - 1]

(* The main chain of a node whose block b gets a place behind its parent.  *)
LEMMA UpdatedChain ==
  ASSUME ChainInv, NEW n \in Node, NEW b \in Block, len[n][b] = 0,
         Longest(n) # 0, Known(n, prev[b]),
         NextLen(n, b) > Longest(n)
  PROVE  /\ Linked(UpdateMainChain(n, b, NextLen(n, b)), NextLens(n, b))
         /\ Len(UpdateMainChain(n, b, NextLen(n, b))) = Longest(n) + 1
         /\ UpdateMainChain(n, b, NextLen(n, b))[1] = main[n][1]
<1> PICK l : l = NextLen(n, b)
  OBVIOUS
<1> PICK lens : lens = NextLens(n, b)
  OBVIOUS
<1> PICK chain : chain = UpdateMainChain(n, b, l)
  OBVIOUS
<1> SUFFICES /\ chain \in Seq(Block) /\ Len(chain) = Longest(n) + 1
             /\ \A i \in 1 .. Len(chain) : /\ lens[chain[i]] = i
                                           /\ i > 1 => prev[chain[i]] = chain[i - 1]
             /\ chain[1] = main[n][1]
  BY DEF Linked
<1>0. l = len[n][prev[b]] + 1 /\ l > Longest(n) /\ lens = [len[n] EXCEPT ![b] = l]
  BY DEF NextLen, NextLens
<1>1. /\ len[n] \in [Block -> Nat] /\ prev[b] \in Block /\ prev[b] # b
      /\ main[n] \in Seq(Block) /\ Longest(n) = Len(main[n]) /\ Longest(n) \in Nat \ {0}
      /\ len[n][prev[b]] <= Longest(n) /\ len[n][prev[b]] # 0
  BY DEF ChainInv, MainIsChain, TypeOK, Known, Longest
<1>2. l = Longest(n) + 1 /\ l \in Nat \ {0} /\ l > 1
  BY <1>0, <1>1
<1>3. /\ lens \in [Block -> Nat] /\ lens[b] = l
      /\ \A c \in Block : c # b => lens[c] = len[n][c]
  BY <1>0, <1>1, <1>2
<1>4. \A i \in 1 .. Longest(n) : /\ main[n][i] \in Block /\ len[n][main[n][i]] = i
                                 /\ i > 1 => prev[main[n][i]] = main[n][i - 1]
  BY <1>1 DEF ChainInv, MainIsChain, Longest
<1>5. CASE prev[b] = main[n][Longest(n)]
  <2>1. chain = Append(main[n], b)
    BY <1>5 DEF UpdateMainChain
  <2>2. /\ chain \in Seq(Block) /\ Len(chain) = Longest(n) + 1 /\ chain[Longest(n) + 1] = b
        /\ \A i \in 1 .. Longest(n) : chain[i] = main[n][i]
    <3>1. PICK s \in Seq(Block) : s = main[n] /\ Len(s) = Longest(n)
      BY <1>1
    <3>2. /\ Append(s, b) \in Seq(Block) /\ Len(Append(s, b)) = Len(s) + 1
          /\ Append(s, b)[Len(s) + 1] = b
          /\ \A i \in 1 .. Len(s) : Append(s, b)[i] = s[i]
      OBVIOUS
    <3> QED
      BY <2>1, <3>1, <3>2
  <2>3. \A i \in 1 .. Longest(n) : main[n][i] # b
    BY <1>4
  <2>4. ASSUME NEW i \in 1 .. Longest(n) + 1
        PROVE  lens[chain[i]] = i /\ (i > 1 => prev[chain[i]] = chain[i - 1])
    <3>1. CASE i = Longest(n) + 1
      <4>1. chain[i] = b /\ i - 1 = Longest(n) /\ Longest(n) \in 1 .. Longest(n)
        BY <3>1, <2>2, <1>1
      <4>2. chain[i - 1] = main[n][Longest(n)]
        BY <4>1, <2>2
      <4> QED
        BY <4>1, <4>2, <3>1, <1>2, <1>3, <1>5
    <3>2. CASE i \in 1 .. Longest(n)
      <4>1. i > 1 => i - 1 \in 1 .. Longest(n)
        BY <3>2, <1>1
      <4> QED
        BY <3>2, <4>1, <2>2, <2>3, <1>3, <1>4
    <3> QED
      BY <3>1, <3>2, <1>1
  <2>5. chain[1] = main[n][1]
    <3>1. 1 \in 1 .. Longest(n)
      BY <1>1
    <3> QED
      BY <3>1, <2>2
  <2> QED
    BY <2>2, <2>4, <2>5
<1>6. CASE prev[b] # main[n][Longest(n)]
  <2>1. chain = Trace(b, l)
    BY <1>6 DEF UpdateMainChain
  <2>2. /\ DOMAIN chain = 1 .. l /\ chain[l] = b
        /\ \A i \in 2 .. l : chain[i - 1] = prev[chain[i]]
    BY <2>1, <1>2, TraceIs
  <2> DEFINE Good(i) == chain[i] \in Block /\ lens[chain[i]] = i
             S == {k \in 0 .. l - 1 : Good(l - k)}
  <2>3. \A k \in 0 .. l - 1 : k \in S
    <3>1. 0 \in S
      BY <2>2, <1>2, <1>3
    <3>2. ASSUME NEW k \in 0 .. l - 1 - 1, k \in S
          PROVE  k + 1 \in S
      <4>1. Good(l - k)
        BY <3>2
      <4>2. l - k \in 2 .. l /\ l - k - 1 = l - (k + 1) /\ k + 1 \in 0 .. l - 1
        BY <1>2
      <4>3. PICK j \in 2 .. l : j = l - k
        BY <4>2
      <4>4. chain[j] \in Block /\ lens[chain[j]] = j /\ chain[j - 1] = prev[chain[j]]
        BY <4>1, <4>3, <2>2
      <4>5. prev[chain[j]] \in Block /\ lens[prev[chain[j]]] = j - 1
        <5>1. CASE chain[j] = b
          BY <5>1, <4>4, <1>0, <1>1, <1>2, <1>3
        <5>2. CASE chain[j] # b
          <6>1. len[n][chain[j]] = j /\ j > 1
            BY <5>2, <4>4, <1>2, <1>3
          <6>2. prev[chain[j]] \in Block /\ len[n][prev[chain[j]]] = j - 1
            BY <6>1, <4>4 DEF ChainInv, LenCounts
          <6>3. prev[chain[j]] # b
            BY <6>1, <6>2
          <6> QED
            BY <6>2, <6>3, <1>3
        <5> QED
          BY <5>1, <5>2
      <4>6. Good(l - (k + 1))
        BY <4>2, <4>3, <4>4, <4>5
      <4> QED
        BY <4>2, <4>6
    <3>3. l - 1 \in Nat
      BY <1>2
    <3> HIDE DEF S
    <3> QED
      BY <3>1, <3>2, <3>3, RangeInduction
  <2>4. \A i \in 1 .. l : chain[i] \in Block /\ lens[chain[i]] = i
    <3> SUFFICES ASSUME NEW i \in 1 .. l PROVE Good(i)
      OBVIOUS
    <3>1. l - i \in 0 .. l - 1 /\ l - (l - i) = i
      BY <1>2
    <3>2. l - i \in S
      <4> HIDE DEF S
      <4> QED
        BY <2>3, <3>1
    <3> QED
      BY <3>1, <3>2
  <2>5. chain \in Seq(Block) /\ Len(chain) = l
    <3>1. chain \in [1 .. l -> Block]
      BY <2>1, <2>2, <2>4 DEF Trace
    <3> QED
      BY <3>1, <1>2
  <2>6. chain[1] = main[n][1]
    <3>1. chain[1] \in Block /\ lens[chain[1]] = 1
      BY <2>4, <1>2
    <3>2. len[n][chain[1]] = 1
      BY <3>1, <1>2, <1>3
    <3> QED
      BY <3>1, <3>2 DEF ChainInv, LenCounts
  <2>7. \A i \in 1 .. l : i > 1 => prev[chain[i]] = chain[i - 1]
    BY <2>2, <1>2
  <2> QED
    BY <2>4, <2>5, <2>6, <2>7, <1>2
<1> QED
  BY <1>5, <1>6

(* What the new block b does to the tree and to the main chain of n.       *)
TreeStep(n, b) ==
  \/ Longest(n) = 0 /\ Root(n, b)
  \/ Longest(n) # 0 /\ Known(n, prev[b]) /\ Attach(n, b)
  \/ Longest(n) # 0 /\ ~Known(n, prev[b]) /\ UNCHANGED <<len, nextPrev, main>>

(* The tree of node n hangs together.                                      *)
TreeTypes(n) ==
  /\ len[n] \in [Block -> Nat] /\ main[n] \in Seq(Block)
  /\ nextPrev[n] \in Block \cup {Zero}

TreeLinks(n) ==
  /\ \A i \in 1 .. Longest(n) : /\ len[n][main[n][i]] = i
                                /\ i > 1 => prev[main[n][i]] = main[n][i - 1]
  /\ \A b \in Block : len[n][b] <= Longest(n)
  /\ main[n] = <<>> => nextPrev[n] = Zero
  /\ main[n] # <<>> => Known(n, nextPrev[n])

TreeCounts(n) ==
  \A b \in Block :
    /\ len[n][b] = 1 => main[n] # <<>> /\ b = main[n][1]
    /\ len[n][b] > 1 => prev[b] \in Block /\ len[n][prev[b]] = len[n][b] - 1

TreeOf(n) == TreeTypes(n) /\ TreeLinks(n) /\ TreeCounts(n)

LEMMA Trees ==
  ASSUME ChainInv
  PROVE  \A n \in Node : TreeOf(n)
<1> SUFFICES ASSUME NEW n \in Node PROVE TreeOf(n)
  OBVIOUS
<1>1. TreeTypes(n) /\ DOMAIN main[n] = 1 .. Len(main[n])
  BY DEF ChainInv, MainIsChain, TypeOK, TreeTypes
<1>2. TreeLinks(n)
  BY <1>1 DEF ChainInv, MainIsChain, Longest, TreeLinks
<1>3. TreeCounts(n)
  BY DEF ChainInv, LenCounts, TreeCounts
<1> QED
  BY <1>1, <1>2, <1>3 DEF TreeOf

(* What a step of n does to its tree: it stays one, the new block b is all *)
(* that can be new in it, and the main chain only gets longer.             *)
Extends(n, b) ==
  /\ TreeOf(n)'
  /\ main'[n] # <<>>
  /\ \A c \in Block : c # b => len'[n][c] = len[n][c]
  /\ main'[n] # main[n] => Len(main'[n]) > Len(main[n])

LEMMA RootExtends ==
  ASSUME ChainInv, NEW n \in Node, NEW b \in Block, Longest(n) = 0, Root(n, b),
         UNCHANGED prev
  PROVE  Extends(n, b)
<1>1. /\ len'[n] = [len[n] EXCEPT ![b] = 1] /\ main'[n] = <<b>> /\ nextPrev'[n] = b
      /\ main[n] = <<>> /\ len[n] \in [Block -> Nat]
  BY DEF Root, ChainInv, MainIsChain, TypeOK, Longest
<1>2. \A c \in Block : len[n][c] = 0
  BY <1>1 DEF ChainInv, MainIsChain, Longest, TypeOK
<1>3. /\ len'[n] \in [Block -> Nat] /\ len'[n][b] = 1
      /\ \A c \in Block : c # b => len'[n][c] = 0
  BY <1>1, <1>2
<1>4. /\ main'[n] \in Seq(Block) /\ Len(main'[n]) = 1 /\ main'[n][1] = b /\ main'[n] # <<>>
      /\ Len(main[n]) = 0
  BY <1>1
<1>5. TreeOf(n)'
  BY <1>1, <1>3, <1>4 DEF TreeOf, TreeTypes, TreeLinks, TreeCounts, Longest, Known
<1> QED
  BY <1>2, <1>3, <1>4, <1>5 DEF Extends

LEMMA AttachExtends ==
  ASSUME ChainInv, NEW n \in Node, NEW b \in Block, len[n][b] = 0, Longest(n) # 0,
         Known(n, prev[b]), Attach(n, b), UNCHANGED prev
  PROVE  Extends(n, b)
<1>1. PICK l : l = NextLen(n, b) /\ l = len[n][prev[b]] + 1
  BY DEF NextLen
<1>2. /\ TreeOf(n) /\ prev[b] \in Block /\ prev[b] # b /\ len[n][prev[b]] \in Nat \ {0}
      /\ len[n][prev[b]] <= Longest(n) /\ Longest(n) \in Nat \ {0}
      /\ len[n] \in [Block -> Nat] /\ main[n] \in Seq(Block) /\ main[n] # <<>>
  <2>1. TreeOf(n) /\ prev[b] \in Block /\ prev[b] # b /\ len[n][prev[b]] # 0
    BY Trees DEF Known
  <2>2. /\ len[n] \in [Block -> Nat] /\ main[n] \in Seq(Block) /\ Len(main[n]) # 0
        /\ len[n][prev[b]] <= Longest(n) /\ Longest(n) = Len(main[n])
    BY <2>1 DEF TreeOf, TreeTypes, TreeLinks, TreeCounts, Longest
  <2> QED
    BY <2>1, <2>2
<1>3. l \in Nat /\ l > 1 /\ l <= Longest(n) + 1 /\ l - 1 = len[n][prev[b]]
  BY <1>1, <1>2
<1>4. PICK lens : lens = NextLens(n, b) /\ lens = [len[n] EXCEPT ![b] = l]
  BY <1>1 DEF NextLens
<1>5. /\ lens \in [Block -> Nat] /\ lens[b] = l
      /\ \A c \in Block : c # b => lens[c] = len[n][c]
  BY <1>2, <1>3, <1>4
<1>6. PICK chain : chain = IF l > Longest(n) THEN UpdateMainChain(n, b, l) ELSE main[n]
  OBVIOUS
<1>7. len'[n] = lens /\ nextPrev'[n] = b /\ main'[n] = chain
  BY <1>1, <1>4, <1>6 DEF Attach, ChainInv, MainIsChain, TypeOK
<1>8. /\ chain \in Seq(Block) /\ chain[1] = main[n][1]
      /\ Len(chain) >= Longest(n) /\ Len(chain) >= l
      /\ \A i \in 1 .. Len(chain) : /\ lens[chain[i]] = i
                                    /\ i > 1 => prev[chain[i]] = chain[i - 1]
      /\ chain # main[n] => Len(chain) > Longest(n)
  <2>1. CASE l > Longest(n)
    <3>1. chain = UpdateMainChain(n, b, NextLen(n, b)) /\ NextLen(n, b) > Longest(n)
      BY <2>1, <1>1, <1>6
    <3>2. /\ chain \in Seq(Block) /\ Len(chain) = Longest(n) + 1 /\ chain[1] = main[n][1]
          /\ \A i \in 1 .. Len(chain) : /\ lens[chain[i]] = i
                                        /\ i > 1 => prev[chain[i]] = chain[i - 1]
      <4>1. Linked(chain, lens) /\ Len(chain) = Longest(n) + 1 /\ chain[1] = main[n][1]
        BY <3>1, <1>4, UpdatedChain
      <4> QED
        BY <4>1 DEF Linked
    <3> QED
      BY <3>2, <1>2, <1>3
  <2>2. CASE ~(l > Longest(n))
    <3>1. chain = main[n] /\ Len(chain) = Longest(n)
      BY <2>2, <1>6 DEF Longest
    <3>2. \A i \in 1 .. Longest(n) : /\ main[n][i] \in Block /\ len[n][main[n][i]] = i
                                     /\ i > 1 => prev[main[n][i]] = main[n][i - 1]
      BY <1>2 DEF TreeOf, TreeTypes, TreeLinks, TreeCounts, Longest
    <3>3. \A i \in 1 .. Longest(n) : main[n][i] # b
      BY <3>2
    <3> QED
      BY <3>1, <3>2, <3>3, <2>2, <1>2, <1>3, <1>5, SMTT(30)
  <2> QED
    BY <2>1, <2>2
<1>9. chain # <<>> /\ Len(chain) \in Nat
  BY <1>2, <1>8
<1>10. \A c \in Block : lens[c] <= Len(chain)
  <2>1. \A c \in Block : len[n][c] \in Nat /\ len[n][c] <= Longest(n)
    BY <1>2 DEF TreeOf, TreeTypes, TreeLinks, TreeCounts
  <2>2. \A c \in Block : c # b => lens[c] <= Len(chain)
    BY <2>1, <1>2, <1>5, <1>8, <1>9
  <2> QED
    BY <2>2, <1>5, <1>8
<1>11. \A c \in Block :
         /\ lens[c] = 1 => c = chain[1]
         /\ lens[c] > 1 => prev[c] \in Block /\ lens[prev[c]] = lens[c] - 1
  <2> SUFFICES ASSUME NEW c \in Block
               PROVE  /\ lens[c] = 1 => c = chain[1]
                      /\ lens[c] > 1 => prev[c] \in Block /\ lens[prev[c]] = lens[c] - 1
    OBVIOUS
  <2>1. CASE c = b
    BY <2>1, <1>2, <1>3, <1>5
  <2>2. CASE c # b
    <3>1. /\ lens[c] = len[n][c] /\ len[n][c] \in Nat
          /\ len[n][c] = 1 => c = main[n][1]
          /\ len[n][c] > 1 => prev[c] \in Block /\ len[n][prev[c]] = len[n][c] - 1
      BY <2>2, <1>2, <1>5 DEF TreeOf, TreeTypes, TreeLinks, TreeCounts
    <3>2. len[n][c] > 1 => prev[c] # b
      BY <3>1
    <3> QED
      BY <3>1, <3>2, <1>5, <1>8
  <2> QED
    BY <2>1, <2>2
<1>12. Known(n, b)'
  BY <1>3, <1>5, <1>7 DEF Known
<1>13. TreeOf(n)'
  BY <1>5, <1>7, <1>8, <1>9, <1>10, <1>11, <1>12 DEF TreeOf, TreeTypes, TreeLinks, TreeCounts, Longest
<1> QED
  BY <1>5, <1>7, <1>8, <1>9, <1>13 DEF Extends, Longest

LEMMA TreeExtends ==
  ASSUME ChainInv, NEW n \in Node, NEW b \in Block, b \notin Listed(n), TreeStep(n, b),
         UNCHANGED prev
  PROVE  Extends(n, b)
<1>1. len[n][b] = 0
  BY KnownIsListed
<1>2. CASE Longest(n) = 0 /\ Root(n, b)
  BY <1>2, RootExtends
<1>3. CASE Longest(n) # 0 /\ Known(n, prev[b]) /\ Attach(n, b)
  BY <1>1, <1>3, AttachExtends
<1>4. CASE Longest(n) # 0 /\ ~Known(n, prev[b]) /\ UNCHANGED <<len, nextPrev, main>>
  <2>1. TreeOf(n)'
    BY <1>4, Trees DEF TreeOf, TreeTypes, TreeLinks, TreeCounts, Longest, Known
  <2>2. main[n] # <<>>
    BY <1>4 DEF Longest
  <2> QED
    BY <1>4, <2>1, <2>2 DEF Extends
<1> QED
  BY <1>2, <1>3, <1>4 DEF TreeStep

(* Of the other nodes' trees nothing changes.                              *)
LEMMA TreeOthers ==
  ASSUME ChainInv, NEW n \in Node, NEW b \in Block, TreeStep(n, b)
  PROVE  /\ DOMAIN len' = Node /\ DOMAIN main' = Node /\ DOMAIN nextPrev' = Node
         /\ len' = [len EXCEPT ![n] = len'[n]]
         /\ main' = [main EXCEPT ![n] = main'[n]]
         /\ nextPrev' = [nextPrev EXCEPT ![n] = nextPrev'[n]]
<1>1. /\ len \in [Node -> [Block -> Nat]] /\ main \in [Node -> Seq(Block)]
      /\ nextPrev \in [Node -> Block \cup {Zero}]
  BY DEF ChainInv, MainIsChain, TypeOK
<1>2. CASE Root(n, b)
  BY <1>1, <1>2 DEF Root
<1>3. CASE Attach(n, b)
  BY <1>1, <1>3 DEF Attach
<1>4. CASE UNCHANGED <<len, nextPrev, main>>
  BY <1>1, <1>4
<1> QED
  BY <1>2, <1>3, <1>4 DEF TreeStep

AllTrees == \A n \in Node : TreeOf(n)

LEMMA TreesMakeChain == TypeOK /\ AllTrees => MainIsChain
<1> SUFFICES ASSUME TypeOK, AllTrees, NEW n \in Node
             PROVE  /\ \A i \in DOMAIN main[n] :
                         /\ len[n][main[n][i]] = i
                         /\ i > 1 => prev[main[n][i]] = main[n][i - 1]
                    /\ \A b \in Block : len[n][b] <= Longest(n)
                    /\ IF main[n] = <<>> THEN nextPrev[n] = Zero ELSE Known(n, nextPrev[n])
  BY DEF MainIsChain
<1>1. TreeLinks(n) /\ DOMAIN main[n] = 1 .. Longest(n)
  BY DEF AllTrees, TreeOf, TypeOK, Longest
<1> QED
  BY <1>1 DEF TreeLinks

LEMMA TreesMakeChainNext == TypeOK' /\ AllTrees' => MainIsChain'
BY TreesMakeChain, PTL

-----------------------------------------------------------------------------
(* The list of a node. *)
ListOf(n) ==
  /\ \A i \in 1 .. Len(listed[n]) :
       \/ i = 1 \/ prev[listed[n][i]] = Zero
       \/ \E j \in 1 .. i - 1 : listed[n][j] = prev[listed[n][i]]
  /\ \A i, j \in 1 .. Len(listed[n]) : listed[n][i] = listed[n][j] => i = j
  /\ \A b \in Block : len[n][b] # 0 => b \in Listed(n)

AllLists == \A n \in Node : ListOf(n)

LEMMA ListsInOrder == TypeOK => (ListInOrder <=> AllLists)
<1>1. TypeOK => \A n \in Node : DOMAIN listed[n] = 1 .. Len(listed[n])
  BY DEF TypeOK
<1> QED
  BY <1>1 DEF ListInOrder, ListOf, AllLists

LEMMA ListsInOrderNext == TypeOK' => (ListInOrder' <=> AllLists')
BY ListsInOrder, PTL

ListStep(n, m) ==
  \/ /\ Lists(n, m.block)
     /\ listed' = [listed EXCEPT ![n] = Append(@, m.block)]
     /\ net' = (net \ {m}) \cup Forwarded(n, m)
  \/ /\ ~Lists(n, m.block)
     /\ net' = net \ {m}
     /\ UNCHANGED listed

(* A new block that is not listed is an orphan: its parent is not known.   *)
LEMMA UnlistedIsOrphan ==
  ASSUME ChainInv, NEW n \in Node, NEW b \in Block, ~Lists(n, b), TreeStep(n, b)
  PROVE  UNCHANGED <<len, nextPrev, main>>
<1>1. main[n] \in Seq(Block) /\ main[n] # <<>> /\ Len(main[n]) # 0
  BY DEF Lists, ChainInv, LenCounts, MainIsChain, TypeOK
<1>2. ~Known(n, prev[b])
  BY KnownIsListed DEF Lists, Known
<1> QED
  BY <1>1, <1>2 DEF TreeStep, Longest

LEMMA ListExtends ==
  ASSUME ChainInv, NEW n \in Node, NEW m \in net, m.block \in Block,
         m.block \notin Listed(n), TreeStep(n, m.block), ListStep(n, m), UNCHANGED prev
  PROVE  /\ listed' \in [Node -> Seq(Block)]
         /\ \A o \in Node : o # n => listed'[o] = listed[o]
         /\ Listed(n)' \subseteq Listed(n) \cup {m.block}
         /\ ListOf(n)'
<1> PICK b \in Block : b = m.block
  OBVIOUS
<1> PICK s \in Seq(Block) : s = listed[n]
  BY DEF ChainInv, MainIsChain, TypeOK
<1>1. /\ listed \in [Node -> Seq(Block)] /\ TypeOK /\ ListOf(n)
  BY ListsInOrder DEF AllLists, ChainInv, MainIsChain, TypeOK
<1>2. Extends(n, b)
  BY TreeExtends
<1>3. CASE Lists(n, b) /\ listed' = [listed EXCEPT ![n] = Append(@, b)]
  <2> PICK t : t = Append(s, b)
    OBVIOUS
  <2>1. /\ t \in Seq(Block) /\ Len(t) = Len(s) + 1 /\ t[Len(s) + 1] = b
        /\ \A i \in 1 .. Len(s) : t[i] = s[i]
        /\ Len(s) \in Nat /\ DOMAIN s = 1 .. Len(s) /\ DOMAIN t = 1 .. Len(s) + 1
    OBVIOUS
  <2>2. listed'[n] = t /\ listed' \in [Node -> Seq(Block)]
    BY <1>1, <1>3, <2>1
  <2>3. /\ \A o \in Node : o # n => listed'[o] = listed[o]
        /\ Listed(n)' \subseteq Listed(n) \cup {b}
        /\ Listed(n) \cup {b} \subseteq Listed(n)'
    <3>1. Listed(n) = {s[i] : i \in 1 .. Len(s)} /\ Listed(n)' = {t[i] : i \in 1 .. Len(s) + 1}
      BY <2>1, <2>2 DEF Listed, Elements
    <3>2. \A i \in 1 .. Len(s) + 1 : i \in 1 .. Len(s) \/ i = Len(s) + 1
      BY <2>1
    <3>3. \A i \in 1 .. Len(s) : i \in 1 .. Len(s) + 1
      BY <2>1
    <3>4. Len(s) + 1 \in 1 .. Len(s) + 1
      BY <2>1
    <3> QED
      BY <1>1, <1>3, <2>1, <3>1, <3>2, <3>3, <3>4
  <2>4. ASSUME NEW i \in 1 .. Len(t)
        PROVE  i = 1 \/ prev[t[i]] = Zero \/ \E j \in 1 .. i - 1 : t[j] = prev[t[i]]
    <3>1. CASE i \in 1 .. Len(s)
      <4>1. i = 1 \/ prev[s[i]] = Zero \/ \E j \in 1 .. i - 1 : s[j] = prev[s[i]]
        BY <1>1, <3>1 DEF ListOf
      <4>2. \A j \in 1 .. i - 1 : t[j] = s[j]
        BY <2>1, <3>1
      <4> QED
        BY <2>1, <3>1, <4>1, <4>2
    <3>2. CASE i = Len(s) + 1
      <4>1. t[i] = b /\ i - 1 = Len(s)
        BY <2>1, <3>2
      <4>2. s = <<>> \/ prev[b] = Zero \/ prev[b] \in Listed(n)
        BY <1>3 DEF Lists
      <4>3. CASE s = <<>>
        BY <3>2, <4>3
      <4>4. CASE prev[b] \in Listed(n)
        <5>1. PICK j \in 1 .. Len(s) : s[j] = prev[b]
          BY <4>4, <2>1 DEF Listed, Elements
        <5> QED
          BY <5>1, <4>1, <2>1
      <4> QED
        BY <4>1, <4>2, <4>3, <4>4
    <3> QED
      BY <3>1, <3>2, <2>1
  <2>5. ASSUME NEW i \in 1 .. Len(t), NEW j \in 1 .. Len(t), t[i] = t[j]
        PROVE  i = j
    <3>1. \A k \in 1 .. Len(s) : s[k] # b
      BY <2>1 DEF Listed, Elements
    <3>2. \A k, l \in 1 .. Len(s) : s[k] = s[l] => k = l
      BY <1>1 DEF ListOf
    <3>3. \A k \in 1 .. Len(t) : k \in 1 .. Len(s) \/ k = Len(s) + 1
      BY <2>1
    <3> QED
      BY <2>1, <2>5, <3>1, <3>2, <3>3
  <2>6. \A c \in Block : len'[n][c] # 0 => c \in Listed(n)'
    BY <1>1, <1>2, <2>3 DEF ListOf, Extends
  <2>7. ListOf(n)'
    BY <2>2, <2>4, <2>5, <2>6 DEF ListOf
  <2> QED
    BY <2>2, <2>3, <2>7
<1>4. CASE ~Lists(n, b) /\ UNCHANGED listed
  <2>1. UNCHANGED len
    BY <1>4, UnlistedIsOrphan
  <2> QED
    BY <1>1, <1>4, <2>1 DEF ListOf, Listed
<1> QED
  BY <1>3, <1>4 DEF ListStep

-----------------------------------------------------------------------------
(* The steps. *)

LEMMA PacketTypes ==
  ASSUME NEW n \in Node, NEW src, NEW b \in Block, NEW hop \in 1 .. Hops
  PROVE  /\ Packets(n, src, b, hop) \subseteq Packet
         /\ \A p \in Packets(n, src, b, hop) : p.block = b
BY PeersAssumption DEF Packets, Packet

LEMMA ForwardedTypes ==
  ASSUME NEW n \in Node, NEW m \in Packet
  PROVE  /\ Forwarded(n, m) \subseteq Packet
         /\ \A p \in Forwarded(n, m) : p.block = m.block
<1>1. m.block \in Block /\ m.hop \in 1 .. Hops
  BY DEF Packet
<1>2. CASE m.hop = 1
  BY <1>2 DEF Forwarded
<1>3. CASE m.hop # 1
  <2>1. m.hop - 1 \in 1 .. Hops
    BY <1>1, <1>3, HopsAssumption
  <2> QED
    BY <1>1, <1>3, <2>1, PacketTypes DEF Forwarded
<1> QED
  BY <1>2, <1>3

(* What is known keeps its length, and a main chain gives way to a longer. *)
Grows ==
  \A n \in Node : /\ main'[n] # main[n] => Len(main'[n]) > Len(main[n])
                  /\ \A b \in Elements(main[n]) : len'[n][b] = len[n][b]

LEMMA HandleBlockKeeps ==
  ASSUME ChainInv, NEW n \in Node, NEW m \in net, HandleBlock(n, m)
  PROVE  ChainInv' /\ Grows
<1>1. m \in Packet /\ m.block \in Block /\ TypeOK
  BY DEF ChainInv, MainIsChain, TypeOK, Packet
<1> PICK b \in Block : b = m.block
  BY <1>1
<1>2. b \notin Listed(n) /\ TreeStep(n, b) /\ ListStep(n, m) /\ UNCHANGED prev
  BY DEF HandleBlock, TreeStep, ListStep
<1>3. Extends(n, b)
  BY <1>2, TreeExtends
<1>4. /\ len' = [len EXCEPT ![n] = len'[n]] /\ main' = [main EXCEPT ![n] = main'[n]]
      /\ nextPrev' = [nextPrev EXCEPT ![n] = nextPrev'[n]]
  BY <1>2, TreeOthers
<1>5. /\ listed' \in [Node -> Seq(Block)]
      /\ \A o \in Node : o # n => listed'[o] = listed[o]
      /\ Listed(n)' \subseteq Listed(n) \cup {b}
      /\ ListOf(n)'
  BY <1>1, <1>2, ListExtends
<1>6. net' \subseteq Packet /\ \A p \in net' : \E q \in net : p.block = q.block
  BY <1>1, <1>2, ForwardedTypes DEF ListStep, TypeOK
<1>7. /\ len'[n] \in [Block -> Nat] /\ main'[n] \in Seq(Block)
      /\ nextPrev'[n] \in Block \cup {Zero}
  BY <1>3 DEF Extends, TreeOf, TreeTypes
<1>8. TypeOK'
  BY <1>1, <1>2, <1>4, <1>5, <1>6, <1>7 DEF TypeOK
<1>9. \A o \in Node : o # n => len'[o] = len[o] /\ main'[o] = main[o] /\ nextPrev'[o] = nextPrev[o]
  BY <1>1, <1>4 DEF TypeOK
<1>10. \A o \in Node : TreeOf(o)'
  <2> SUFFICES ASSUME NEW o \in Node, o # n PROVE TreeOf(o)'
    BY <1>3 DEF Extends
  <2>1. TreeOf(o)
    BY Trees
  <2>2. len'[o] = len[o] /\ main'[o] = main[o] /\ nextPrev'[o] = nextPrev[o] /\ prev' = prev
    BY <1>2, <1>9
  <2>3. TreeTypes(o)'
    BY <2>1, <2>2 DEF TreeOf, TreeTypes
  <2>4. TreeLinks(o)'
    BY <2>1, <2>2 DEF TreeOf, TreeLinks, Longest, Known
  <2>5. TreeCounts(o)'
    BY <2>1, <2>2 DEF TreeOf, TreeCounts
  <2> QED
    BY <2>3, <2>4, <2>5 DEF TreeOf
<1>11. MainIsChain'
  BY <1>8, <1>10, TreesMakeChainNext DEF AllTrees
<1>12. Mined'
  <2>1. prev[b] # None
    BY DEF ChainInv, Mined
  <2>2. \A o \in Node : \A c \in Block : len'[o][c] # 0 => prev[c] # None
    BY <1>3, <1>9, <2>1 DEF ChainInv, Mined, Extends
  <2>3. \A o \in Node : Listed(o)' \subseteq Listed(o) \cup {b}
    BY <1>5 DEF Listed
  <2>4. \A p \in net' : prev[p.block] # None
    BY <1>6 DEF ChainInv, Mined
  <2> QED
    BY <1>2, <2>1, <2>2, <2>3, <2>4 DEF ChainInv, Mined
<1>13. LenCounts'
  <2>1. \A o \in Node : main'[o] = <<>> => listed'[o] = <<>>
    BY <1>3, <1>5, <1>9 DEF ChainInv, LenCounts, Extends
  <2>2. \A o \in Node : TreeCounts(o)'
    BY <1>10 DEF TreeOf
  <2> QED
    BY <2>1, <2>2 DEF LenCounts, TreeCounts
<1>14. ListInOrder'
  <2> SUFFICES ASSUME NEW o \in Node, o # n PROVE ListOf(o)'
    BY <1>5, <1>8, ListsInOrderNext DEF AllLists
  <2>1. ListOf(o)
    BY <1>1, ListsInOrder DEF AllLists, ChainInv
  <2>2. listed'[o] = listed[o] /\ len'[o] = len[o] /\ prev' = prev
    BY <1>2, <1>5, <1>9
  <2>3. Listed(o)' = Listed(o)
    BY <2>2 DEF Listed
  <2> QED
    BY <2>1, <2>2, <2>3 DEF ListOf
<1>15. Grows
  <2> SUFFICES ASSUME NEW o \in Node
               PROVE  /\ main'[o] # main[o] => Len(main'[o]) > Len(main[o])
                      /\ \A c \in Elements(main[o]) : len'[o][c] = len[o][c]
    BY DEF Grows
  <2>1. CASE o # n
    BY <1>9, <2>1
  <2>2. CASE o = n
    <3>1. \A c \in Elements(main[n]) : c \in Block /\ len[n][c] # 0
      <4>1. TreeOf(n) /\ DOMAIN main[n] = 1 .. Longest(n) /\ \A i \in 1 .. Longest(n) : main[n][i] \in Block /\ i # 0
        BY <1>1, Trees DEF TypeOK, Longest
      <4> QED
        BY <4>1 DEF TreeOf, TreeLinks, Elements
    <3>2. len[n][b] = 0
      BY <1>2, KnownIsListed
    <3> QED
      BY <1>3, <2>2, <3>1, <3>2 DEF Extends
  <2> QED
    BY <2>1, <2>2
<1> QED
  BY <1>11, <1>12, <1>13, <1>14, <1>15 DEF ChainInv

LEMMA HandleDuplicateKeeps ==
  ASSUME ChainInv, NEW n \in Node, NEW m \in net, HandleDuplicate(n, m)
  PROVE  ChainInv' /\ Grows
<1>1. UNCHANGED <<prev, len, main, listed, nextPrev>> /\ net' \subseteq net
  BY DEF HandleDuplicate
<1>2. MainIsChain'
  BY <1>1, SMTT(30) DEF ChainInv, MainIsChain, TypeOK, Longest, Known
<1>3. Mined' /\ LenCounts'
  BY <1>1 DEF ChainInv, Mined, LenCounts, Listed
<1>4. ListInOrder'
  BY <1>1 DEF ChainInv, ListInOrder, Listed
<1> QED
  BY <1>1, <1>2, <1>3, <1>4 DEF ChainInv, Grows

LEMMA MineKeeps ==
  ASSUME ChainInv, NEW n \in Node, NEW b \in Block, Mine(n, b)
  PROVE  ChainInv' /\ Grows
<1>1. /\ prev[b] = None /\ UNCHANGED <<len, main, listed, nextPrev>>
      /\ \A c \in Block : c # b => prev'[c] = prev[c]
      /\ prev'[b] = nextPrev[n] /\ prev' \in [Block -> Block \cup {Zero, None}]
      /\ prev'[b] # None /\ TypeOK
  BY DistinctAssumption DEF Mine, ChainInv, MainIsChain, TypeOK
<1>2. net' \subseteq Packet /\ \A p \in net' : p \in net \/ p.block = b
  <2>1. Hops \in 1 .. Hops
    BY HopsAssumption
  <2>2. [src |-> n, dst |-> n, block |-> b, hop |-> Hops] \in Packet
    BY <2>1 DEF Packet
  <2> QED
    BY <1>1, <2>1, <2>2, PacketTypes DEF Mine, TypeOK
<1>3. TypeOK'
  BY <1>1, <1>2 DEF TypeOK
<1>4. /\ \A o \in Node : \A c \in Block : len[o][c] # 0 => c # b
      /\ \A o \in Node : b \notin Listed(o)
  BY <1>1 DEF ChainInv, Mined
<1>5. \A o \in Node : TreeOf(o)'
  <2> SUFFICES ASSUME NEW o \in Node PROVE TreeOf(o)'
    OBVIOUS
  <2>1. TreeOf(o) /\ len'[o] = len[o] /\ main'[o] = main[o] /\ nextPrev'[o] = nextPrev[o]
    BY <1>1, Trees
  <2>2. TreeTypes(o)'
    BY <2>1 DEF TreeOf, TreeTypes
  <2>3. TreeLinks(o)'
    <3>1. \A i \in 1 .. Longest(o) : main[o][i] \in Block /\ len[o][main[o][i]] = i /\ i # 0
      BY <2>1 DEF TreeOf, TreeTypes, TreeLinks, Longest
    <3>2. \A i \in 1 .. Longest(o) : prev'[main[o][i]] = prev[main[o][i]]
      BY <3>1, <1>1, <1>4
    <3> QED
      BY <2>1, <3>2 DEF TreeOf, TreeLinks, Longest, Known
  <2>4. TreeCounts(o)'
    BY <2>1, <1>1, <1>4 DEF TreeOf, TreeCounts, TreeTypes
  <2> QED
    BY <2>2, <2>3, <2>4 DEF TreeOf
<1>6. MainIsChain'
  BY <1>3, <1>5, TreesMakeChainNext DEF AllTrees
<1>7. Mined'
  <2>1. \A c \in Block : prev[c] # None => prev'[c] # None
    BY <1>1
  <2>2. \A o \in Node : \A c \in Listed(o) : c \in Block
    BY <1>1 DEF TypeOK, Listed, Elements
  <2>3. \A o \in Node : \A c \in Block : len'[o][c] # 0 => prev'[c] # None
    BY <1>1, <2>1 DEF ChainInv, Mined
  <2>4. \A o \in Node : \A c \in Listed(o)' : prev'[c] # None
    BY <1>1, <2>1, <2>2 DEF ChainInv, Mined, Listed
  <2>5. \A p \in net' : prev'[p.block] # None
    BY <1>1, <1>2, <2>1 DEF ChainInv, Mined, TypeOK, Packet
  <2> QED
    BY <2>3, <2>4, <2>5 DEF Mined
<1>8. LenCounts'
  <2>1. \A o \in Node : TreeCounts(o)'
    BY <1>5 DEF TreeOf
  <2> QED
    BY <1>1, <2>1 DEF ChainInv, LenCounts, TreeCounts
<1>9. ListInOrder'
  <2> SUFFICES ASSUME NEW o \in Node PROVE ListOf(o)'
    BY <1>3, ListsInOrderNext DEF AllLists
  <2>1. ListOf(o) /\ listed[o] \in Seq(Block)
    BY <1>1, ListsInOrder DEF AllLists, ChainInv, TypeOK
  <2>2. \A i \in 1 .. Len(listed[o]) : listed[o][i] # b /\ listed[o][i] \in Block
    BY <2>1, <1>4 DEF Listed, Elements
  <2>3. \A i \in 1 .. Len(listed[o]) : prev'[listed[o][i]] = prev[listed[o][i]]
    BY <1>1, <2>2
  <2>4. listed' = listed /\ len' = len
    BY <1>1
  <2> QED
    BY <2>1, <2>3, <2>4 DEF ListOf, Listed
<1> QED
  BY <1>1, <1>6, <1>7, <1>8, <1>9 DEF ChainInv, Grows

LEMMA ChainInit == Init => ChainInv
<1> SUFFICES ASSUME Init PROVE ChainInv
  OBVIOUS
<1>1. TypeOK
  BY DEF Init, TypeOK
<1>2. MainIsChain
  BY <1>1 DEF Init, MainIsChain, Longest
<1> QED
  BY <1>2 DEF Init, ChainInv, Mined, LenCounts, ListInOrder, Listed, Elements

LEMMA ChainNext == ChainInv /\ [Next]_vars => ChainInv' /\ Grows
<1> SUFFICES ASSUME ChainInv, [Next]_vars PROVE ChainInv' /\ Grows
  OBVIOUS
<1>1. CASE UNCHANGED vars
  <2>1. UNCHANGED <<prev, len, main, listed, nextPrev, net>>
    BY <1>1 DEF vars
  <2>2. MainIsChain'
    BY <2>1 DEF ChainInv, MainIsChain, TypeOK, Longest, Known
  <2> QED
    BY <2>1, <2>2 DEF ChainInv, Mined, LenCounts, ListInOrder, Listed, Grows
<1>2. CASE Next
  <2> PICK n \in Node : Receive(n) \/ \E b \in Block : Mine(n, b)
    BY <1>2 DEF Next
  <2>1. CASE Receive(n)
    BY <2>1, HandleBlockKeeps, HandleDuplicateKeeps DEF Receive
  <2>2. CASE \E b \in Block : Mine(n, b)
    BY <2>2, MineKeeps
  <2> QED
    BY <2>1, <2>2
<1> QED
  BY <1>1, <1>2

LEMMA ChainAlways == Spec => []ChainInv
<1>1. ChainInv /\ [Next]_vars => ChainInv'
  BY ChainNext
<1> QED
  BY ChainInit, <1>1, PTL DEF Spec

-----------------------------------------------------------------------------
(* Agreement.  What a node knows and its first block give every length.    *)
SameBlocks(n, m) ==
  /\ \A b \in Block : (len[n][b] # 0) = (len[m][b] # 0)
  /\ main[n] # <<>> /\ main[n][1] = main[m][1]

(* The end of a main chain is at its length; its start is the first block. *)
LEMMA MainEnds ==
  ASSUME ChainInv, NEW n \in Node, main[n] # <<>>
  PROVE  /\ Longest(n) \in Nat \ {0}
         /\ main[n][1] \in Block /\ len[n][main[n][1]] = 1
         /\ main[n][Longest(n)] \in Block /\ len[n][main[n][Longest(n)]] = Longest(n)
<1>1. TreeTypes(n) /\ TreeLinks(n)
  BY Trees DEF TreeOf
<1>2. main[n] \in Seq(Block) /\ Longest(n) = Len(main[n]) /\ Longest(n) \in Nat \ {0}
  BY <1>1 DEF TreeTypes, Longest
<1>3. 1 \in 1 .. Longest(n) /\ Longest(n) \in 1 .. Longest(n)
  BY <1>2
<1> QED
  BY <1>1, <1>2, <1>3 DEF TreeLinks

LEMMA LengthsAgree ==
  ASSUME ChainInv, NEW n \in Node, NEW m \in Node, SameBlocks(n, m), main[m] # <<>>
  PROVE  \A b \in Block : len[m][b] = len[n][b]
<1>1. /\ \A b \in Block : len[n][b] \in Nat /\ len[m][b] \in Nat /\ len[n][b] <= Longest(n)
      /\ TreeCounts(n) /\ TreeCounts(m)
  BY Trees DEF TreeOf, TreeTypes, TreeLinks
<1>2. /\ Longest(n) \in Nat \ {0}
      /\ main[n][1] \in Block /\ len[n][main[n][1]] = 1 /\ len[m][main[m][1]] = 1
      /\ main[n][1] = main[m][1]
  BY MainEnds DEF SameBlocks
<1>3. \A b \in Block : len[n][b] = 0 <=> len[m][b] = 0
  BY DEF SameBlocks
<1> DEFINE At(l) == \A b \in Block : len[n][b] = l => len[m][b] = l
           S == {k \in Nat : At(k)}
<1>4. \A k \in 0 .. Longest(n) : k \in S
  <2>1. 0 \in S
    BY <1>3
  <2>2. ASSUME NEW k \in 0 .. Longest(n) - 1, k \in S
        PROVE  k + 1 \in S
    <3>1. At(k) /\ k \in Nat /\ k + 1 \in Nat
      BY <2>2
    <3>2. ASSUME NEW b \in Block, len[n][b] = k + 1
          PROVE  len[m][b] = k + 1
      <4>1. CASE k = 0
        BY <4>1, <3>2, <1>1, <1>2 DEF TreeCounts
      <4>2. CASE k # 0
        <5>1. prev[b] \in Block /\ len[n][prev[b]] = k
          BY <4>2, <3>1, <3>2, <1>1 DEF TreeCounts
        <5>2. len[m][prev[b]] = k
          BY <5>1, <3>1
        <5>3. len[m][b] # 0 /\ len[m][b] # 1
          BY <4>2, <3>1, <3>2, <1>1, <1>2, <1>3 DEF TreeCounts
        <5>4. len[m][b] > 1
          BY <5>3, <1>1
        <5>5. len[m][prev[b]] = len[m][b] - 1
          BY <5>4, <1>1 DEF TreeCounts
        <5> QED
          BY <5>2, <5>5, <1>1, <3>1
      <4> QED
        BY <4>1, <4>2
    <3> QED
      BY <3>1, <3>2
  <2> HIDE DEF S
  <2> QED
    BY <2>1, <2>2, <1>2, RangeInduction
<1> SUFFICES ASSUME NEW b \in Block PROVE len[m][b] = len[n][b]
  OBVIOUS
<1>5. len[n][b] \in 0 .. Longest(n)
  BY <1>1, <1>2
<1>6. len[n][b] \in S
  <2> HIDE DEF S
  <2> QED
    BY <1>4, <1>5
<1> QED
  BY <1>6

LEMMA ChainsAgree == ChainInv => SameBlocksSameLength
<1> SUFFICES ASSUME ChainInv, NEW n \in Node, NEW m \in Node, SameBlocks(n, m)
             PROVE  Longest(n) = Longest(m)
  BY DEF SameBlocksSameLength, SameBlocks
<1>1. main[n] # <<>> /\ Longest(n) \in Nat \ {0}
  BY MainEnds DEF SameBlocks
<1>2. TreeLinks(m) /\ TreeTypes(m) /\ TreeLinks(n)
  BY Trees DEF TreeOf
<1>3. main[m] # <<>>
  <2>1. main[n][1] \in Block /\ len[n][main[n][1]] = 1
    BY <1>1, MainEnds
  <2>2. len[m][main[n][1]] # 0 /\ len[m][main[n][1]] \in Nat
    BY <2>1, <1>2 DEF SameBlocks, TreeTypes
  <2>3. len[m][main[n][1]] <= Longest(m)
    BY <2>1, <1>2 DEF TreeLinks
  <2>4. Longest(m) # 0
    BY <2>2, <2>3
  <2> QED
    BY <2>4 DEF Longest
<1>4. \A b \in Block : len[m][b] = len[n][b]
  BY <1>3, LengthsAgree
<1>5. /\ Longest(m) \in Nat
      /\ main[n][Longest(n)] \in Block /\ len[n][main[n][Longest(n)]] = Longest(n)
      /\ main[m][Longest(m)] \in Block /\ len[m][main[m][Longest(m)]] = Longest(m)
  BY <1>1, <1>3, MainEnds
<1>6. Longest(n) <= Longest(m) /\ Longest(m) <= Longest(n)
  BY <1>2, <1>4, <1>5 DEF TreeLinks
<1> QED
  BY <1>1, <1>5, <1>6

-----------------------------------------------------------------------------
(* The main chain is a chain, of the greatest length any known block has,  *)
(* whatever forks and orphans came and in what order (blockchain.go:206).  *)
THEOREM MainChainsHold == Spec => []MainIsChain
<1>1. ChainInv => MainIsChain
  BY DEF ChainInv
<1> QED
  BY ChainAlways, <1>1, PTL

(* The older list repeats no block, lists parents first and knows all the  *)
(* chain knows (blockchain.go:188, 232).                                   *)
THEOREM ListsStayInOrder == Spec => []ListInOrder
<1>1. ChainInv => ListInOrder
  BY DEF ChainInv
<1> QED
  BY ChainAlways, <1>1, PTL

(* A main chain gives way only to a longer one, and no known block ever    *)
(* gets another length (blockchain.go:301).                                *)
THEOREM MainChainsOnlyGrow == Spec => MainOnlyGrows
<1>1. ChainInv /\ [Next]_vars =>
        [\A n \in Node : /\ main'[n] # main[n] => Len(main'[n]) > Len(main[n])
                         /\ \A b \in Elements(main[n]) : len'[n][b] = len[n][b]]_vars
  BY ChainNext DEF Grows
<1> QED
  BY ChainAlways, <1>1, PTL DEF Spec, MainOnlyGrows

(* Nodes that know the same blocks, and had the same one first, have main  *)
(* chains of one length, whatever order the blocks came in                 *)
(* (blockchain.go:206, 301).                                               *)
THEOREM SameBlocksAgree == Spec => []SameBlocksSameLength
  BY ChainAlways, ChainsAgree, PTL

-----------------------------------------------------------------------------
(***************************************************************************)
(* The file names, whose flood shares no state with the blocks.            *)
(***************************************************************************)
(* No two nodes share a file under one name.                               *)
NamesDiffer == \A s, t \in Shares : s[2] = t[2] => s = t

NamesAssumed == N!ConstantsOK /\ NamesDiffer

NamesIn(q)   == {q[i].name : i \in DOMAIN q}
NoneTwice(q) == \A i, j \in DOMAIN q : q[i].name = q[j].name => i = j

(* A name that was noted and whose append is still to come, ...            *)
Pends(n, x) ==
  \/ \E s \in Shares : s[1] = n /\ s[2] = x /\ pub[s].pc \in {"append", "write"}
  \/ loop[n] # N!Idle /\ loop[n].packet.file.name = x

(* ... and the names whose append is over.                                 *)
Settled(n) == {x \in Name : table[n][x] # None /\ ~Pends(n, x)}

Publisher == [pc : {"new", "append", "write", "send", "done"}, read : Seq(N!File)]

(* What travels has been sent by the goroutine of its share.               *)
Sent(f) == \E s \in Shares : f = N!FileOf(s) /\ pub[s].pc = "done"

Origins ==
  /\ N!TypeOK /\ pub \in [Shares -> Publisher]
  /\ \A m \in names : Sent(m.file)
  /\ \A n \in NameNode : loop[n] # N!Idle => Sent(loop[n].packet.file)
  /\ \A s \in Shares : pub[s].pc = "write" => s[1] \in Racy
  /\ \A n \in NameNode : loop[n] # N!Idle /\ loop[n].pc = "write" => n \in Racy

(* No name is noted before its goroutine does; what pends is noted.        *)
NotesInTime ==
  \A n \in NameNode : \A x \in Name :
    /\ table[n][x] # None => \A s \in Shares : s[2] = x => pub[s].pc # "new"
    /\ Pends(n, x) => table[n][x] # None

Good(n, q) == NamesIn(q) \subseteq Settled(n) /\ NoneTwice(q)

(* What any goroutine read of a next block holds settled names only, once  *)
(* each; where the appends are one after the other, it holds all of them.  *)
ListsSettled ==
  \A n \in NameNode :
    /\ Good(n, txs[n])
    /\ n \notin Racy => NamesIn(txs[n]) = Settled(n)
    /\ loop[n] # N!Idle => Good(n, loop[n].read)
    /\ \A s \in Shares : s[1] = n => Good(n, pub[s].read)

NamesInv == Origins /\ NotesInTime /\ ListsSettled

-----------------------------------------------------------------------------
LEMMA Appended ==
  ASSUME NEW q \in Seq(N!File), NEW f \in N!File
  PROVE  /\ Append(q, f) \in Seq(N!File)
         /\ NamesIn(Append(q, f)) = NamesIn(q) \cup {f.name}
         /\ f.name \notin NamesIn(q) /\ NoneTwice(q) => NoneTwice(Append(q, f))
<1> DEFINE r == Append(q, f)
<1>1. /\ r \in Seq(N!File) /\ DOMAIN r = 1 .. Len(q) + 1 /\ DOMAIN q = 1 .. Len(q)
      /\ r[Len(q) + 1] = f /\ \A i \in 1 .. Len(q) : r[i] = q[i]
      /\ Len(q) \in Nat
  OBVIOUS
<1> HIDE DEF r
<1>2. NamesIn(r) = NamesIn(q) \cup {f.name}
  BY <1>1 DEF NamesIn
<1>3. ASSUME f.name \notin NamesIn(q), NoneTwice(q),
             NEW i \in DOMAIN r, NEW j \in DOMAIN r, r[i].name = r[j].name
      PROVE  i = j
  BY <1>1, <1>3 DEF NamesIn, NoneTwice
<1> QED
  BY <1>1, <1>2, <1>3 DEF r, NoneTwice

LEMMA AppendedTyped ==
  ASSUME NEW q \in Seq(N!File), NEW f \in N!File
  PROVE  Append(q, f) \in Seq(N!File)
  BY Appended

LEMMA EmptyList == NamesIn(<<>>) = {} /\ NoneTwice(<<>>)
  BY DEF NamesIn, NoneTwice

LEMMA InsideFields ==
  ASSUME N!TypeOK, NEW n \in NameNode, loop[n] # N!Idle
  PROVE  /\ loop[n] \in N!Inside
         /\ loop[n].pc \in {"append", "write"} /\ loop[n].read \in Seq(N!File)
         /\ loop[n].packet \in N!Packet /\ loop[n].packet.file \in N!File
         /\ loop[n].packet.file.name \in Name /\ loop[n].packet.file.owner \in NameNode
         /\ loop[n].packet.hop \in 1 .. NameHops
<1>1. PICK k \in N!Inside : k = loop[n]
  BY DEF N!TypeOK
<1>2. /\ k.pc \in {"append", "write"} /\ k.read \in Seq(N!File)
      /\ k.packet \in N!Packet
  BY DEF N!Inside
<1>3. PICK m \in N!Packet : m = k.packet
  BY <1>2
<1>4. m.file \in N!File /\ m.hop \in 1 .. NameHops
  BY DEF N!Packet
<1>5. m.file.name \in Name /\ m.file.owner \in NameNode
  BY <1>4 DEF N!File
<1> QED
  BY <1>1, <1>2, <1>3, <1>4, <1>5

LEMMA PacketFields ==
  ASSUME NEW m \in N!Packet
  PROVE  /\ m.file \in N!File /\ m.hop \in 1 .. NameHops
         /\ m.file.name \in Name /\ m.file.owner \in NameNode
<1>1. m.file \in N!File /\ m.hop \in 1 .. NameHops
  BY DEF N!Packet
<1> QED
  BY <1>1 DEF N!File

LEMMA ShareFields ==
  ASSUME N!ConstantsOK, NEW s \in Shares
  PROVE  /\ s[1] \in NameNode /\ s[2] \in Name
         /\ N!FileOf(s) \in N!File /\ N!FileOf(s).name = s[2] /\ N!FileOf(s).owner = s[1]
  BY DEF N!ConstantsOK, N!FileOf, N!File

LEMMA PublisherFields ==
  ASSUME pub \in [Shares -> Publisher], NEW s \in Shares
  PROVE  /\ pub[s].pc \in {"new", "append", "write", "send", "done"}
         /\ pub[s].read \in Seq(N!File)
<1>1. PICK k \in Publisher : k = pub[s]
  OBVIOUS
<1> QED
  BY <1>1 DEF Publisher

LEMMA PacketsTyped ==
  ASSUME N!ConstantsOK, NEW n \in NameNode, NEW src, NEW f \in N!File, NEW h \in 1 .. NameHops
  PROVE  N!Packets(n, src, f, h) \subseteq N!Packet /\ \A m \in N!Packets(n, src, f, h) : m.file = f
<1>1. \A p \in NamePeers[n] \ {src} : p \in NameNode
  BY DEF N!ConstantsOK
<1> QED
  BY <1>1 DEF N!Packets, N!Packet

(* Where every name comes from, from step to step.                         *)
LEMMA OriginsInit ==
  ASSUME N!ConstantsOK, N!Init
  PROVE  Origins
<1>1. PICK k : k = [pc |-> "new", read |-> <<>>]
  OBVIOUS
<1>2. k.pc = "new" /\ k.read = <<>> /\ k \in Publisher
  BY <1>1 DEF Publisher
<1>3. \A s \in Shares : pub[s] = k
  BY <1>1 DEF N!Init
<1>4. pub \in [Shares -> Publisher]
  BY <1>1, <1>2 DEF N!Init
<1>5. \A n \in NameNode : loop[n] = N!Idle
  BY DEF N!Init
<1>6. /\ table \in [NameNode -> [Name -> NameNode \cup {None}]]
      /\ txs \in [NameNode -> Seq(N!File)]
      /\ loop \in [NameNode -> {N!Idle} \cup N!Inside]
      /\ names = {}
  BY DEF N!Init
<1>7. N!TypeOK
  <2>1. <<>> \in Seq(N!File) /\ k.pc \in {"new", "append", "write", "send", "done"}
    BY <1>2
  <2>2. names \subseteq N!Packet
    BY <1>6
  <2>3. \A s \in Shares : /\ pub[s].pc \in {"new", "append", "write", "send", "done"}
                          /\ pub[s].read \in Seq(N!File)
    BY <1>2, <1>3, <2>1
  <2> QED
    BY <1>6, <2>2, <2>3, Zenon DEF N!TypeOK
<1> QED
  BY <1>2, <1>3, <1>4, <1>5, <1>6, <1>7 DEF Origins

LEMMA OriginsNext ==
  ASSUME N!ConstantsOK, Origins, N!Next
  PROVE  Origins'
<1> USE DEF Origins, N!TypeOK
<1>1. ASSUME NEW s \in Shares, N!PublishNote(s) PROVE Origins'
  <2>1. s[1] \in NameNode /\ s[2] \in Name /\ N!FileOf(s).name = s[2] /\ N!FileOf(s).owner = s[1]
    BY ShareFields
  <2>2. pub' \in [Shares -> Publisher]
    BY <1>1, PublisherFields DEF N!PublishNote, Publisher
  <2>3. \A t \in Shares : /\ pub[t].pc = "done" => pub'[t].pc = "done"
                          /\ pub'[t].pc = "write" => pub[t].pc = "write"
    BY <1>1 DEF N!PublishNote, Publisher
  <2>4. table' \in [NameNode -> [Name -> NameNode \cup {None}]]
    BY <1>1, <2>1 DEF N!PublishNote, N!Note
  <2>5. N!TypeOK'
    BY <1>1, <2>2, <2>4 DEF N!PublishNote, Publisher
  <2>6. (\A f : Sent(f) => Sent(f)')
    BY <2>3 DEF Sent
  <2> QED
    BY <1>1, <2>2, <2>3, <2>5, <2>6 DEF N!PublishNote
<1>2. ASSUME NEW s \in Shares, N!PublishRead(s) PROVE Origins'
  <2>1. s[1] \in NameNode /\ txs[s[1]] \in Seq(N!File)
    BY ShareFields
  <2>2. pub' \in [Shares -> Publisher]
    BY <1>2, <2>1 DEF N!PublishRead, Publisher
  <2>3. \A t \in Shares : /\ pub[t].pc = "done" => pub'[t].pc = "done"
                          /\ pub'[t].pc = "write" => pub[t].pc = "write" \/ t[1] \in Racy
    BY <1>2 DEF N!PublishRead, Publisher
  <2>5. N!TypeOK'
    BY <1>2, <2>2 DEF N!PublishRead, Publisher
  <2>6. (\A f : Sent(f) => Sent(f)')
    BY <2>3 DEF Sent
  <2> QED
    BY <1>2, <2>2, <2>3, <2>5, <2>6 DEF N!PublishRead
<1>3. ASSUME NEW s \in Shares, N!PublishAppend(s) PROVE Origins'
  <2>1. /\ s[1] \in NameNode /\ N!FileOf(s) \in N!File
        /\ pub[s].read \in Seq(N!File) /\ txs[s[1]] \in Seq(N!File)
    BY ShareFields, PublisherFields
  <2>2. pub' \in [Shares -> Publisher]
    BY <1>3 DEF N!PublishAppend, Publisher
  <2>3. \A t \in Shares : /\ pub[t].pc = "done" => pub'[t].pc = "done"
                          /\ pub'[t].pc = "write" => pub[t].pc = "write"
    BY <1>3 DEF N!PublishAppend, Publisher
  <2>4. txs' \in [NameNode -> Seq(N!File)]
    <3>1. /\ Append(pub[s].read, N!FileOf(s)) \in Seq(N!File)
          /\ Append(txs[s[1]], N!FileOf(s)) \in Seq(N!File)
      BY <2>1, AppendedTyped
    <3> QED
      BY <1>3, <2>1, <3>1 DEF N!PublishAppend
  <2>5. N!TypeOK'
    BY <1>3, <2>2, <2>4 DEF N!PublishAppend, Publisher
  <2>6. (\A f : Sent(f) => Sent(f)')
    BY <2>3 DEF Sent
  <2> QED
    BY <1>3, <2>2, <2>3, <2>5, <2>6 DEF N!PublishAppend
<1>4. ASSUME NEW s \in Shares, N!PublishSend(s) PROVE Origins'
  <2>1. s[1] \in NameNode /\ N!FileOf(s) \in N!File /\ NameHops \in 1 .. NameHops
    BY ShareFields DEF N!ConstantsOK
  <2>2. pub' \in [Shares -> Publisher]
    BY <1>4, PublisherFields DEF N!PublishSend, Publisher
  <2>3. \A t \in Shares : /\ pub[t].pc = "done" => pub'[t].pc = "done"
                          /\ pub'[t].pc = "write" => pub[t].pc = "write"
    BY <1>4 DEF N!PublishSend, Publisher
  <2>4. (\A f : Sent(f) => Sent(f)') /\ Sent(N!FileOf(s))'
    BY <1>4, <2>3 DEF Sent, N!PublishSend
  <2>5. names' = names \cup N!Packets(s[1], None, N!FileOf(s), NameHops)
    BY <1>4 DEF N!PublishSend
  <2>6. names' \subseteq N!Packet /\ \A m \in names' : m \in names \/ m.file = N!FileOf(s)
    BY <2>1, <2>5, PacketsTyped
  <2>7. N!TypeOK'
    BY <1>4, <2>2, <2>6 DEF N!PublishSend, Publisher
  <2>8. \A m \in names' : Sent(m.file)'
    BY <2>4, <2>6
  <2> QED
    BY <1>4, <2>2, <2>3, <2>4, <2>7, <2>8 DEF N!PublishSend
<1>5. ASSUME NEW n \in NameNode, NEW m \in names, N!ReceiveKnown(n, m) PROVE Origins'
  <2>1. names' \subseteq names /\ pub' = pub /\ loop' = loop /\ table' = table /\ txs' = txs
    BY <1>5 DEF N!ReceiveKnown
  <2>2. \A f : Sent(f) => Sent(f)'
    BY <2>1 DEF Sent
  <2>3. N!TypeOK'
    BY <2>1
  <2> QED
    BY <2>1, <2>2, <2>3
<1>6. ASSUME NEW n \in NameNode, NEW m \in names, N!ReceiveNew(n, m) PROVE Origins'
  <2>1. m \in N!Packet /\ m.file.name \in Name /\ m.file.owner \in NameNode
    BY PacketFields
  <2>2. names' \subseteq names /\ pub' = pub /\ txs' = txs
    BY <1>6 DEF N!ReceiveNew
  <2>3. \A f : Sent(f) => Sent(f)'
    BY <2>2 DEF Sent
  <2>4. table' \in [NameNode -> [Name -> NameNode \cup {None}]]
    BY <1>6, <2>1 DEF N!ReceiveNew, N!Note
  <2>5. PICK k : k = [pc |-> "append", packet |-> m, read |-> <<>>]
    OBVIOUS
  <2>6. k \in N!Inside /\ k.packet = m /\ k.pc = "append"
    BY <2>1, <2>5 DEF N!Inside
  <2>7. loop' = [loop EXCEPT ![n] = k]
    BY <1>6, <2>5 DEF N!ReceiveNew
  <2>8. loop' \in [NameNode -> {N!Idle} \cup N!Inside]
    BY <2>6, <2>7
  <2>9. N!TypeOK'
    BY <2>2, <2>4, <2>8
  <2>10. \A q \in NameNode : loop'[q] = loop[q] \/ loop'[q] = k
    BY <2>7
  <2> QED
    BY <2>2, <2>3, <2>6, <2>9, <2>10
<1>7. ASSUME NEW n \in NameNode, N!HandleRead(n) PROVE Origins'
  <2>1. loop[n] # N!Idle
    BY <1>7 DEF N!HandleRead, N!Idle
  <2>2. PICK e \in N!Inside : e = loop[n]
    BY <2>1
  <2>3. PICK k : k = [e EXCEPT !.pc = "write", !.read = txs[n]]
    OBVIOUS
  <2>4. k \in N!Inside /\ k.packet = e.packet
    BY <2>3 DEF N!Inside
  <2>5. loop' = [loop EXCEPT ![n] = k]
    BY <1>7, <2>2, <2>3 DEF N!HandleRead, N!Inside
  <2>6. names' = names /\ pub' = pub /\ table' = table /\ txs' = txs /\ n \in Racy
    BY <1>7 DEF N!HandleRead
  <2>7. \A f : Sent(f) => Sent(f)'
    BY <2>6 DEF Sent
  <2>8. loop' \in [NameNode -> {N!Idle} \cup N!Inside]
    BY <2>4, <2>5
  <2>9. N!TypeOK'
    BY <2>6, <2>8
  <2>10. \A q \in NameNode : loop'[q] = loop[q] \/ (q = n /\ loop'[q] = k)
    BY <2>5
  <2> QED
    BY <2>1, <2>2, <2>4, <2>6, <2>7, <2>9, <2>10
<1>8. ASSUME NEW n \in NameNode, N!HandleAppend(n) PROVE Origins'
  <2>1. loop[n] # N!Idle
    BY <1>8 DEF N!HandleAppend, N!Idle
  <2>2. PICK m \in N!Packet : m = loop[n].packet
    BY <2>1, InsideFields
  <2>3. m.file \in N!File /\ loop[n].read \in Seq(N!File) /\ m.hop \in 1 .. NameHops
    BY <2>1, <2>2, InsideFields
  <2>4. txs' \in [NameNode -> Seq(N!File)]
    <3>1. txs[n] \in Seq(N!File)
      OBVIOUS
    <3>2. Append(loop[n].read, m.file) \in Seq(N!File) /\ Append(txs[n], m.file) \in Seq(N!File)
      BY <2>3, <3>1, AppendedTyped
    <3> QED
      BY <1>8, <2>2, <3>2 DEF N!HandleAppend
  <2>5. pub' = pub /\ table' = table /\ loop' = [loop EXCEPT ![n] = N!Idle]
        /\ names' = names \cup N!Forwarded(n, m)
    BY <1>8, <2>2 DEF N!HandleAppend
  <2>6. N!Forwarded(n, m) \subseteq N!Packet /\ \A p \in N!Forwarded(n, m) : p.file = m.file
    <3>1. CASE m.hop = 1
      BY <3>1 DEF N!Forwarded
    <3>2. CASE m.hop # 1
      <4>1. m.hop - 1 \in 1 .. NameHops /\ NameHops \in Nat
        BY <2>3, <3>2 DEF N!ConstantsOK
      <4> QED
        BY <2>3, <3>2, <4>1, PacketsTyped DEF N!Forwarded
    <3> QED
      BY <3>1, <3>2
  <2>7. \A f : Sent(f) => Sent(f)'
    BY <2>5 DEF Sent
  <2>8. \A p \in names' : Sent(p.file)'
    BY <2>1, <2>2, <2>5, <2>6, <2>7
  <2>9. N!TypeOK'
    BY <2>4, <2>5, <2>6
  <2>10. \A q \in NameNode : loop'[q] # N!Idle => loop'[q] = loop[q]
    BY <2>5
  <2> QED
    BY <2>5, <2>7, <2>8, <2>9, <2>10
<1> HIDE DEF Origins, N!TypeOK
<1>9. CASE \E s \in Shares : N!Publish(s)
  BY <1>1, <1>2, <1>3, <1>4, <1>9, Zenon DEF N!Publish
<1>10. CASE \E n \in NameNode : N!Handle(n)
  BY <1>5, <1>6, <1>7, <1>8, <1>10, Zenon DEF N!Handle
<1> QED
  BY <1>9, <1>10 DEF N!Next

(* No action but an append settles a name, and none unsettles one.         *)
SettledSame == \A k \in NameNode : Settled(k)' = Settled(k)

SettledMore(n, x) ==
  /\ Settled(n)' = Settled(n) \cup {x} /\ x \notin Settled(n)
  /\ \A k \in NameNode \ {n} : Settled(k)' = Settled(k)

(* A name is noted that was not: it pends.                                 *)
Marked(n, x) ==
  /\ table[n][x] = None /\ table'[n][x] # None
  /\ \A k \in NameNode : \A y \in Name :
       /\ (k = n /\ y = x) \/ table'[k][y] = table[k][y]
       /\ Pends(k, y)' <=> Pends(k, y) \/ (k = n /\ y = x)
  /\ \A s \in Shares : s[2] = x => pub'[s].pc # "new"
  /\ \A s \in Shares : pub'[s].pc = "new" => pub[s].pc = "new"

LEMMA MarkedSettles ==
  ASSUME NotesInTime, NEW n \in NameNode, NEW x \in Name, Marked(n, x)
  PROVE  SettledSame /\ NotesInTime'
<1>1. ASSUME NEW k \in NameNode, NEW y \in Name
      PROVE  y \in Settled(k)' <=> y \in Settled(k)
  BY DEF Marked, Settled
<1>2. SettledSame
  BY <1>1 DEF SettledSame, Settled
<1>3. ASSUME NEW k \in NameNode, NEW y \in Name
      PROVE  /\ table'[k][y] # None => \A s \in Shares : s[2] = y => pub'[s].pc # "new"
             /\ Pends(k, y)' => table'[k][y] # None
  BY DEF Marked, NotesInTime
<1> QED
  BY <1>2, <1>3 DEF NotesInTime

(* Nothing is noted, nothing begins or ends to pend.                       *)
Same ==
  /\ table' = table
  /\ \A k \in NameNode : \A y \in Name : Pends(k, y)' <=> Pends(k, y)
  /\ \A s \in Shares : pub'[s].pc = "new" => pub[s].pc = "new"

LEMMA SameSettles ==
  ASSUME NotesInTime, Same
  PROVE  SettledSame /\ NotesInTime'
<1>1. ASSUME NEW k \in NameNode, NEW y \in Name
      PROVE  y \in Settled(k)' <=> y \in Settled(k)
  BY DEF Same, Settled
<1>2. SettledSame
  BY <1>1 DEF SettledSame, Settled
<1> QED
  BY <1>2 DEF NotesInTime, Same

(* A name ends to pend.                                                    *)
Over(n, x) ==
  /\ table' = table
  /\ Pends(n, x) /\ ~Pends(n, x)'
  /\ \A k \in NameNode : \A y \in Name : (k = n /\ y = x) \/ (Pends(k, y)' <=> Pends(k, y))
  /\ \A s \in Shares : pub'[s].pc = "new" => pub[s].pc = "new"

LEMMA OverSettles ==
  ASSUME NotesInTime, NEW n \in NameNode, NEW x \in Name, Over(n, x)
  PROVE  SettledMore(n, x) /\ NotesInTime'
<1>1. ASSUME NEW k \in NameNode, NEW y \in Name
      PROVE  y \in Settled(k)' <=> y \in Settled(k) \/ (k = n /\ y = x)
  BY DEF Over, Settled, NotesInTime
<1>2. x \notin Settled(n)
  BY DEF Over, Settled
<1>3. SettledMore(n, x)
  BY <1>1, <1>2 DEF SettledMore, Settled
<1>4. ASSUME NEW k \in NameNode, NEW y \in Name
      PROVE  Pends(k, y)' => table'[k][y] # None
  BY DEF Over, NotesInTime
<1> QED
  BY <1>3, <1>4 DEF NotesInTime, Over

(* The lists after an action that settles nothing and appends nothing, ... *)
LEMMA ListsKept ==
  ASSUME ListsSettled, SettledSame, txs' = txs,
         \A n \in NameNode : loop'[n] # N!Idle =>
           \/ loop'[n].read = <<>> \/ loop'[n].read = txs[n]
           \/ loop[n] # N!Idle /\ loop'[n].read = loop[n].read,
         \A s \in Shares : \/ pub'[s].read = <<>> \/ pub'[s].read = txs[s[1]]
                           \/ pub'[s].read = pub[s].read
  PROVE  ListsSettled'
<1>1. \A n \in NameNode : Settled(n)' = Settled(n)
  BY DEF SettledSame
<1>2. \A n \in NameNode : \A q : Good(n, q) => Good(n, q)'
  BY <1>1 DEF Good
<1>3. \A n \in NameNode : Good(n, <<>>)'
  BY EmptyList DEF Good
<1>4. ASSUME NEW n \in NameNode
      PROVE  /\ Good(n, txs[n])'
             /\ n \notin Racy => NamesIn(txs'[n]) = Settled(n)'
  BY <1>1 DEF ListsSettled, Good
<1>5. ASSUME NEW n \in NameNode, loop'[n] # N!Idle
      PROVE  Good(n, loop[n].read)'
  <2>1. PICK r : r = loop'[n].read
    OBVIOUS
  <2>2. Good(n, r)'
    BY <1>2, <1>3, <1>5, <2>1 DEF ListsSettled
  <2> QED
    BY <2>1, <2>2 DEF Good
<1>6. ASSUME NEW n \in NameNode, NEW s \in Shares, s[1] = n
      PROVE  Good(n, pub[s].read)'
  <2>1. PICK r : r = pub'[s].read
    OBVIOUS
  <2>2. Good(n, r)'
    BY <1>2, <1>3, <1>6, <2>1 DEF ListsSettled
  <2> QED
    BY <2>1, <2>2 DEF Good
<1> QED
  BY <1>4, <1>5, <1>6 DEF ListsSettled

(* ... and after an append, to the list as it is or as it was read.        *)
LEMMA ListsAppended ==
  ASSUME N!TypeOK, ListsSettled, NEW n \in NameNode, NEW f \in N!File, SettledMore(n, f.name),
         NEW q \in Seq(N!File), Good(n, q), n \notin Racy => q = txs[n],
         txs' = [txs EXCEPT ![n] = Append(q, f)],
         \A k \in NameNode : loop'[k] # N!Idle => loop[k] # N!Idle /\ loop'[k].read = loop[k].read,
         \A s \in Shares : pub'[s].read = <<>> \/ pub'[s].read = pub[s].read
  PROVE  ListsSettled'
<1>1. \A k \in NameNode : Settled(k) \subseteq Settled(k)'
  BY DEF SettledMore
<1>2. \A k \in NameNode : \A r : Good(k, r) => Good(k, r)'
  BY <1>1 DEF Good
<1>3. \A k \in NameNode : Good(k, <<>>)'
  BY EmptyList DEF Good
<1>4. PICK r : r = Append(q, f)
  OBVIOUS
<1>5. /\ NamesIn(r) = NamesIn(q) \cup {f.name}
      /\ f.name \notin NamesIn(q) /\ NoneTwice(q) => NoneTwice(r)
  BY <1>4, Appended
<1>6. Settled(n)' = Settled(n) \cup {f.name} /\ f.name \notin Settled(n)
  BY DEF SettledMore
<1>7. Good(n, r)'
  BY <1>5, <1>6 DEF Good
<1>8. n \notin Racy => NamesIn(r) = Settled(n)'
  BY <1>5, <1>6 DEF ListsSettled
<1>9. txs'[n] = r /\ \A k \in NameNode \ {n} : txs'[k] = txs[k]
  BY <1>4 DEF N!TypeOK
<1>10. ASSUME NEW k \in NameNode
       PROVE  /\ Good(k, txs[k])'
              /\ k \notin Racy => NamesIn(txs'[k]) = Settled(k)'
  <2>1. CASE k = n
    BY <1>7, <1>8, <1>9, <2>1 DEF Good
  <2>2. CASE k # n
    BY <1>9, <2>2 DEF Good, SettledMore, ListsSettled
  <2> QED
    BY <2>1, <2>2
<1>11. ASSUME NEW k \in NameNode, loop'[k] # N!Idle
       PROVE  Good(k, loop[k].read)'
  <2>1. PICK p : p = loop'[k].read
    OBVIOUS
  <2>2. Good(k, p)'
    BY <1>2, <1>11, <2>1 DEF ListsSettled
  <2> QED
    BY <2>1, <2>2 DEF Good
<1>12. ASSUME NEW k \in NameNode, NEW s \in Shares, s[1] = k
       PROVE  Good(k, pub[s].read)'
  <2>1. PICK p : p = pub'[s].read
    OBVIOUS
  <2>2. Good(k, p)'
    BY <1>2, <1>3, <1>12, <2>1 DEF ListsSettled
  <2> QED
    BY <2>1, <2>2 DEF Good
<1> QED
  BY <1>10, <1>11, <1>12 DEF ListsSettled

LEMMA NamesInit ==
  ASSUME N!ConstantsOK, N!Init
  PROVE  NamesInv
<1>1. \A s \in Shares : pub[s].pc = "new" /\ pub[s].read = <<>>
  BY DEF N!Init
<1>2. \A n \in NameNode : loop[n] = N!Idle /\ txs[n] = <<>> /\ \A x \in Name : table[n][x] = None
  BY DEF N!Init
<1>3. \A n \in NameNode : \A x \in Name : ~Pends(n, x)
  BY <1>1, <1>2 DEF Pends
<1>4. NotesInTime
  BY <1>2, <1>3 DEF NotesInTime
<1>5. \A n \in NameNode : Settled(n) = {}
  BY <1>2 DEF Settled
<1>6. ListsSettled
  BY <1>1, <1>2, <1>5, EmptyList DEF ListsSettled, Good
<1> QED
  BY <1>4, <1>6, OriginsInit DEF NamesInv

LEMMA NamesNext ==
  ASSUME NamesAssumed, NamesInv, N!Next
  PROVE  NamesInv'
<1>1. N!ConstantsOK /\ NamesDiffer /\ Origins /\ NotesInTime /\ ListsSettled /\ N!TypeOK
      /\ pub \in [Shares -> Publisher]
  BY DEF NamesAssumed, NamesInv, Origins
<1>2. Origins'
  BY <1>1, OriginsNext
<1>3. ASSUME NEW s \in Shares, N!PublishNote(s) PROVE NotesInTime' /\ ListsSettled'
  <2>1. /\ s[1] \in NameNode /\ s[2] \in Name /\ s[1] # None
        /\ N!FileOf(s).name = s[2] /\ N!FileOf(s).owner = s[1]
    BY <1>1, ShareFields DEF N!ConstantsOK
  <2>2. table[s[1]][s[2]] = None
    BY <1>1, <1>3, <2>1 DEF NotesInTime, N!PublishNote
  <2>3. table' = [table EXCEPT ![s[1]][s[2]] = s[1]] /\ loop' = loop /\ txs' = txs
    BY <1>3, <2>1 DEF N!PublishNote, N!Note
  <2>4. table'[s[1]][s[2]] # None /\ \A k \in NameNode : \A y \in Name :
          (k = s[1] /\ y = s[2]) \/ table'[k][y] = table[k][y]
    BY <1>1, <2>1, <2>3 DEF N!TypeOK
  <2>5. /\ pub[s].pc = "new" /\ pub'[s].pc = "append" /\ pub'[s].read = pub[s].read
        /\ \A t \in Shares : t = s \/ pub'[t] = pub[t]
    BY <1>1, <1>3 DEF N!PublishNote, Publisher
  <2>6. ASSUME NEW k \in NameNode, NEW y \in Name
        PROVE  Pends(k, y)' <=> Pends(k, y) \/ (k = s[1] /\ y = s[2])
    BY <2>3, <2>5, <2>6 DEF Pends
  <2>7. \A t \in Shares : t[2] = s[2] => pub'[t].pc # "new"
    BY <1>1, <2>5 DEF NamesDiffer
  <2>8. Marked(s[1], s[2])
    BY <2>2, <2>4, <2>5, <2>6, <2>7 DEF Marked
  <2>9. SettledSame /\ NotesInTime'
    BY <1>1, <2>1, <2>8, MarkedSettles
  <2> QED
    BY <1>1, <2>3, <2>5, <2>9, ListsKept
<1>4. ASSUME NEW s \in Shares, N!PublishRead(s) PROVE NotesInTime' /\ ListsSettled'
  <2>1. table' = table /\ txs' = txs /\ loop' = loop
    BY <1>4 DEF N!PublishRead
  <2>2. /\ pub[s].pc = "append" /\ pub'[s].pc = "write" /\ pub'[s].read = txs[s[1]]
        /\ \A t \in Shares : t = s \/ pub'[t] = pub[t]
    BY <1>1, <1>4 DEF N!PublishRead, Publisher
  <2>3. Same
    BY <2>1, <2>2 DEF Same, Pends
  <2>4. SettledSame /\ NotesInTime'
    BY <1>1, <2>3, SameSettles
  <2> QED
    BY <1>1, <2>1, <2>2, <2>4, ListsKept
<1>5. ASSUME NEW s \in Shares, N!PublishAppend(s) PROVE NotesInTime' /\ ListsSettled'
  <2>1. /\ s[1] \in NameNode /\ s[2] \in Name /\ N!FileOf(s) \in N!File
        /\ N!FileOf(s).name = s[2]
    BY <1>1, ShareFields
  <2>2. table' = table /\ loop' = loop
    BY <1>5 DEF N!PublishAppend
  <2>3. /\ pub[s].pc \in {"append", "write"} /\ pub'[s].pc = "send" /\ pub'[s].read = <<>>
        /\ \A t \in Shares : t = s \/ pub'[t] = pub[t]
    BY <1>1, <1>5 DEF N!PublishAppend, Publisher
  <2>4. \A n \in NameNode : loop[n] # N!Idle => loop[n].packet.file.name # s[2]
    <3> SUFFICES ASSUME NEW n \in NameNode, loop[n] # N!Idle, loop[n].packet.file.name = s[2]
                 PROVE  FALSE
      OBVIOUS
    <3>1. PICK t \in Shares : loop[n].packet.file = N!FileOf(t) /\ pub[t].pc = "done"
      BY <1>1 DEF Origins, Sent
    <3>2. t[2] = s[2]
      BY <1>1, <3>1, ShareFields
    <3> QED
      BY <1>1, <2>3, <3>1, <3>2 DEF NamesDiffer
  <2>5. \A t \in Shares : t[2] = s[2] => t = s
    BY <1>1 DEF NamesDiffer
  <2>6. Pends(s[1], s[2]) /\ ~Pends(s[1], s[2])'
    BY <2>1, <2>2, <2>3, <2>4, <2>5 DEF Pends
  <2>7. ASSUME NEW k \in NameNode, NEW y \in Name
        PROVE  (k = s[1] /\ y = s[2]) \/ (Pends(k, y)' <=> Pends(k, y))
    BY <2>2, <2>3 DEF Pends
  <2>8. Over(s[1], s[2])
    BY <2>2, <2>3, <2>6, <2>7 DEF Over
  <2>9. SettledMore(s[1], s[2]) /\ NotesInTime'
    BY <1>1, <2>1, <2>8, OverSettles
  <2>10. PICK q \in Seq(N!File) : /\ Good(s[1], q) /\ (s[1] \notin Racy => q = txs[s[1]])
                                  /\ txs' = [txs EXCEPT ![s[1]] = Append(q, N!FileOf(s))]
    <3>1. CASE pub[s].pc = "write"
      <4>1. /\ txs' = [txs EXCEPT ![s[1]] = Append(pub[s].read, N!FileOf(s))]
            /\ s[1] \in Racy /\ pub[s].read \in Seq(N!File)
        BY <1>1, <1>5, <3>1, PublisherFields DEF N!PublishAppend, Origins
      <4> QED
        BY <1>1, <2>1, <4>1 DEF ListsSettled
    <3>2. CASE pub[s].pc = "append"
      <4>1. /\ txs' = [txs EXCEPT ![s[1]] = Append(txs[s[1]], N!FileOf(s))]
            /\ txs[s[1]] \in Seq(N!File)
        BY <1>1, <1>5, <2>1, <3>2 DEF N!PublishAppend, N!TypeOK
      <4> QED
        BY <1>1, <2>1, <4>1 DEF ListsSettled
    <3> QED
      BY <2>3, <3>1, <3>2
  <2>11. PICK f \in N!File : f = N!FileOf(s)
    BY <2>1
  <2>12. SettledMore(s[1], f.name)
    BY <2>1, <2>9, <2>11
  <2>13. txs' = [txs EXCEPT ![s[1]] = Append(q, f)]
    BY <2>10, <2>11
  <2>14. ListsSettled'
    BY <1>1, <2>1, <2>2, <2>3, <2>10, <2>12, <2>13, ListsAppended
  <2> QED
    BY <2>9, <2>14
<1>6. ASSUME NEW s \in Shares, N!PublishSend(s) PROVE NotesInTime' /\ ListsSettled'
  <2>1. table' = table /\ txs' = txs /\ loop' = loop
    BY <1>6 DEF N!PublishSend
  <2>2. /\ pub[s].pc = "send" /\ pub'[s].pc = "done" /\ pub'[s].read = pub[s].read
        /\ \A t \in Shares : t = s \/ pub'[t] = pub[t]
    BY <1>1, <1>6 DEF N!PublishSend, Publisher
  <2>3. Same
    BY <2>1, <2>2 DEF Same, Pends
  <2>4. SettledSame /\ NotesInTime'
    BY <1>1, <2>3, SameSettles
  <2> QED
    BY <1>1, <2>1, <2>2, <2>4, ListsKept
<1>7. ASSUME NEW n \in NameNode, NEW m \in names, N!ReceiveKnown(n, m)
      PROVE  NotesInTime' /\ ListsSettled'
  <2>1. table' = table /\ txs' = txs /\ loop' = loop /\ pub' = pub
    BY <1>7 DEF N!ReceiveKnown
  <2>2. Same
    BY <2>1 DEF Same, Pends
  <2>3. SettledSame /\ NotesInTime'
    BY <1>1, <2>2, SameSettles
  <2> QED
    BY <1>1, <2>1, <2>3, ListsKept
<1>8. ASSUME NEW n \in NameNode, NEW m \in names, N!ReceiveNew(n, m)
      PROVE  NotesInTime' /\ ListsSettled'
  <2>1. /\ m.file.name \in Name /\ m.file.owner \in NameNode /\ m.file.owner # None
    BY <1>1, PacketFields DEF N!TypeOK, N!ConstantsOK
  <2>2. PICK x \in Name : x = m.file.name
    BY <2>1
  <2>3. /\ table' = [table EXCEPT ![n][x] = m.file.owner] /\ table[n][x] = None
        /\ txs' = txs /\ pub' = pub /\ loop[n] = N!Idle
    BY <1>8, <2>2 DEF N!ReceiveNew, N!Note, N!Seen
  <2>4. table'[n][x] # None /\ \A k \in NameNode : \A y \in Name :
          (k = n /\ y = x) \/ table'[k][y] = table[k][y]
    BY <1>1, <2>1, <2>3 DEF N!TypeOK
  <2>5. /\ loop'[n] # N!Idle /\ loop'[n].packet = m /\ loop'[n].read = <<>>
        /\ \A k \in NameNode : k = n \/ loop'[k] = loop[k]
    BY <1>1, <1>8 DEF N!ReceiveNew, N!Idle, N!TypeOK
  <2>6. ASSUME NEW k \in NameNode, NEW y \in Name
        PROVE  Pends(k, y)' <=> Pends(k, y) \/ (k = n /\ y = x)
    <3>1. CASE k = n
      BY <2>2, <2>3, <2>5, <3>1 DEF Pends
    <3>2. CASE k # n
      BY <2>3, <2>5, <3>2 DEF Pends
    <3> QED
      BY <3>1, <3>2
  <2>7. \A t \in Shares : t[2] = x => pub'[t].pc # "new"
    <3>1. PICK s \in Shares : m.file = N!FileOf(s) /\ pub[s].pc = "done"
      BY <1>1 DEF Origins, Sent
    <3>2. s[2] = x
      BY <1>1, <2>2, <3>1, ShareFields
    <3> QED
      BY <1>1, <2>3, <3>1, <3>2 DEF NamesDiffer
  <2>8. Marked(n, x)
    BY <2>3, <2>4, <2>6, <2>7 DEF Marked
  <2>9. SettledSame /\ NotesInTime'
    BY <1>1, <2>8, MarkedSettles
  <2>10. ListsSettled'
    BY <1>1, <2>3, <2>5, <2>9, ListsKept
  <2> QED
    BY <2>9, <2>10
<1>9. ASSUME NEW n \in NameNode, N!HandleRead(n) PROVE NotesInTime' /\ ListsSettled'
  <2>1. table' = table /\ txs' = txs /\ pub' = pub
    BY <1>9 DEF N!HandleRead
  <2>2. loop[n] # N!Idle
    BY <1>9 DEF N!HandleRead, N!Idle
  <2>3. PICK e \in N!Inside : e = loop[n]
    BY <1>1, <2>2 DEF N!TypeOK
  <2>4. PICK k : k = [e EXCEPT !.pc = "write", !.read = txs[n]]
    OBVIOUS
  <2>5. k.packet = e.packet /\ k.read = txs[n] /\ k.pc = "write" /\ k # N!Idle
    BY <2>4 DEF N!Inside, N!Idle
  <2>6. loop' = [loop EXCEPT ![n] = k]
    BY <1>9, <2>3, <2>4 DEF N!HandleRead, N!Inside
  <2>7. loop'[n] = k /\ \A j \in NameNode : j = n \/ loop'[j] = loop[j]
    BY <1>1, <2>6 DEF N!TypeOK
  <2>8. \A j \in NameNode : \A y \in Name : Pends(j, y)' <=> Pends(j, y)
    BY <2>1, <2>2, <2>3, <2>5, <2>7 DEF Pends
  <2>9. Same
    BY <2>1, <2>8 DEF Same
  <2>10. SettledSame /\ NotesInTime'
    BY <1>1, <2>9, SameSettles
  <2>11. ListsSettled'
    BY <1>1, <2>1, <2>5, <2>7, <2>10, ListsKept
  <2> QED
    BY <2>10, <2>11
<1>10. ASSUME NEW n \in NameNode, N!HandleAppend(n) PROVE NotesInTime' /\ ListsSettled'
  <2>1. table' = table /\ pub' = pub
    BY <1>10 DEF N!HandleAppend
  <2>2. loop[n] # N!Idle
    BY <1>10 DEF N!HandleAppend, N!Idle
  <2>3. PICK f \in N!File : f = loop[n].packet.file
    BY <1>1, <2>2, InsideFields
  <2>4. f.name \in Name /\ loop[n].read \in Seq(N!File) /\ loop[n].pc \in {"append", "write"}
        /\ txs[n] \in Seq(N!File)
    BY <1>1, <2>2, <2>3, InsideFields DEF N!TypeOK
  <2>5. loop'[n] = N!Idle /\ \A k \in NameNode : k = n \/ loop'[k] = loop[k]
    BY <1>1, <1>10 DEF N!HandleAppend, N!TypeOK
  <2>6. ASSUME NEW t \in Shares, t[2] = f.name
        PROVE  pub[t].pc = "done"
    <3>1. PICK s \in Shares : f = N!FileOf(s) /\ pub[s].pc = "done"
      BY <1>1, <2>2, <2>3 DEF Origins, Sent
    <3>2. s[2] = f.name
      BY <1>1, <3>1, ShareFields
    <3> QED
      BY <1>1, <2>6, <3>1, <3>2 DEF NamesDiffer
  <2>7. Pends(n, f.name) /\ ~Pends(n, f.name)'
    BY <2>1, <2>2, <2>3, <2>5, <2>6 DEF Pends
  <2>8. ASSUME NEW k \in NameNode, NEW y \in Name
        PROVE  (k = n /\ y = f.name) \/ (Pends(k, y)' <=> Pends(k, y))
    BY <2>1, <2>3, <2>5 DEF Pends
  <2>9. Over(n, f.name)
    BY <2>1, <2>7, <2>8 DEF Over
  <2>10. SettledMore(n, f.name) /\ NotesInTime'
    BY <1>1, <2>4, <2>9, OverSettles
  <2>11. PICK q \in Seq(N!File) : /\ Good(n, q) /\ (n \notin Racy => q = txs[n])
                                  /\ txs' = [txs EXCEPT ![n] = Append(q, f)]
    <3>1. CASE loop[n].pc = "write"
      <4>1. txs' = [txs EXCEPT ![n] = Append(loop[n].read, f)] /\ n \in Racy
        BY <1>1, <1>10, <2>2, <2>3, <3>1 DEF N!HandleAppend, Origins
      <4> QED
        BY <1>1, <2>2, <2>4, <4>1 DEF ListsSettled
    <3>2. CASE loop[n].pc = "append"
      <4>1. txs' = [txs EXCEPT ![n] = Append(txs[n], f)]
        BY <1>10, <2>3, <3>2 DEF N!HandleAppend
      <4> QED
        BY <1>1, <2>4, <4>1 DEF ListsSettled
    <3> QED
      BY <2>4, <3>1, <3>2
  <2>12. \A k \in NameNode : loop'[k] # N!Idle => loop[k] # N!Idle /\ loop'[k].read = loop[k].read
    BY <2>5
  <2>13. ListsSettled'
    BY <1>1, <2>1, <2>10, <2>11, <2>12, ListsAppended
  <2> QED
    BY <2>10, <2>13
<1>11. CASE \E s \in Shares : N!Publish(s)
  BY <1>2, <1>3, <1>4, <1>5, <1>6, <1>11, Zenon DEF N!Publish, NamesInv
<1>12. CASE \E n \in NameNode : N!Handle(n)
  BY <1>2, <1>7, <1>8, <1>9, <1>10, <1>12, Zenon DEF N!Handle, NamesInv
<1> QED
  BY <1>11, <1>12 DEF N!Next

LEMMA NamesStay ==
  ASSUME NamesInv, UNCHANGED N!vars
  PROVE  NamesInv'
<1>1. table' = table /\ txs' = txs /\ pub' = pub /\ loop' = loop /\ names' = names
  BY DEF N!vars
<1>2. Same
  BY <1>1 DEF Same, Pends
<1>3. SettledSame /\ NotesInTime'
  BY <1>2, SameSettles DEF NamesInv
<1>4. ListsSettled'
  BY <1>1, <1>3, ListsKept DEF NamesInv
<1>5. Origins'
  BY <1>1 DEF NamesInv, Origins, Sent, N!TypeOK
<1> QED
  BY <1>3, <1>4, <1>5 DEF NamesInv

(* Between two packets nothing pends, and a list names each name once.     *)
LEMMA QuietLists ==
  ASSUME N!ConstantsOK, NamesInv
  PROVE  N!NotedIsListed
<1>1. ASSUME NEW n \in NameNode, N!Quiet(n), NEW x \in Name
      PROVE  /\ \A i, j \in N!Listed(n, x) : i = j
             /\ N!Listed(n, x) # {} => table[n][x] # None
             /\ n \notin Racy /\ table[n][x] # None => N!Listed(n, x) # {}
  <2>1. Good(n, txs[n]) /\ (n \notin Racy => NamesIn(txs[n]) = Settled(n))
    BY DEF NamesInv, ListsSettled
  <2>2. N!Listed(n, x) # {} <=> x \in NamesIn(txs[n])
    BY DEF N!Listed, NamesIn
  <2>3. ~Pends(n, x)
    BY <1>1 DEF N!Quiet, Pends
  <2>4. \A i, j \in N!Listed(n, x) : i = j
    BY <2>1 DEF Good, NoneTwice, N!Listed
  <2> QED
    BY <2>1, <2>2, <2>3, <2>4 DEF Good, Settled
<1> QED
  BY <1>1 DEF N!NotedIsListed, NamesInv, Origins

(* Between two packets a node's next block holds every name it noted, once *)
(* each and nothing else; where two appends may overlap, a name may be     *)
(* missing (blockchain.go:118, 131).                                       *)
THEOREM NotedNamesListed ==
  ASSUME NamesAssumed
  PROVE  N!Spec => []NotedIsListed
<1>1. N!Init => NamesInv
  BY NamesInit DEF NamesAssumed
<1>2. NamesInv /\ [N!Next]_N!vars => NamesInv'
  <2>1. ASSUME NamesInv, N!Next PROVE NamesInv'
    BY <2>1, NamesNext
  <2> QED
    BY <2>1, NamesStay
<1>3. NamesInv => NotedIsListed
  BY QuietLists DEF NamesAssumed, NotedIsListed
<1> QED
  BY <1>1, <1>2, <1>3, PTL DEF N!Spec

-----------------------------------------------------------------------------
(* The name floods a finite connected network whose ways are no longer     *)
(* than the hop limit: HopLimit is 10, for up to 11 nodes.                 *)
NetworkFits ==
  /\ IsFiniteSet(NameNode) /\ Cardinality(NameNode) <= NameHops + 1
  /\ \A S \in SUBSET NameNode : S # {} /\ (\A n \in S : NamePeers[n] \subseteq S) => S = NameNode

Knowing(x) == {n \in NameNode : table[n][x] # None}

(* A name that was noted was shared under that name by its owner, and by   *)
(* its owner first.                                                        *)
Owners ==
  /\ \A n \in NameNode : \A x \in Name : table[n][x] # None =>
       \E s \in Shares : s[2] = x /\ table[n][x] = s[1]
  /\ \A s \in Shares : pub[s].pc # "new" => s[1] \in Knowing(s[2])

(* As many nodes know the name as a packet has hops behind it: the copy    *)
(* that a node passes on was new to it, and to all that passed it on.      *)
HopsCount ==
  /\ \A m \in names : /\ m.src \in Knowing(m.file.name)
                      /\ NameHops - m.hop + 1 <= Cardinality(Knowing(m.file.name))
  /\ \A n \in NameNode : loop[n] # N!Idle =>
       LET m == loop[n].packet
       IN  /\ m.src \in Knowing(m.file.name)
           /\ NameHops - m.hop + 2 <= Cardinality(Knowing(m.file.name))

(* Whoever knows a name has told its peers, or is about to.                *)
Telling(n, x, p) ==
  \/ p \in Knowing(x)
  \/ \E m \in names : m.dst = p /\ m.file.name = x
  \/ \E s \in Shares : s[1] = n /\ s[2] = x /\ pub[s].pc \in {"append", "write", "send"}
  \/ loop[n] # N!Idle /\ loop[n].packet.file.name = x /\ loop[n].packet.src # p

Told == \A x \in Name : \A n \in Knowing(x) : \A p \in NamePeers[n] : Telling(n, x, p)

SpreadInv == Owners /\ HopsCount /\ Told

-----------------------------------------------------------------------------
(* Names are not forgotten.                                                *)
KnowingGrows == \A x \in Name : Knowing(x) \subseteq Knowing(x)'

LEMMA KnowingFinite ==
  ASSUME NetworkFits, NEW x
  PROVE  /\ IsFiniteSet(Knowing(x)) /\ Cardinality(Knowing(x)) \in Nat
         /\ Cardinality(Knowing(x)) <= Cardinality(NameNode) /\ Cardinality(NameNode) \in Nat
         /\ Cardinality(Knowing(x)) = Cardinality(NameNode) => Knowing(x) = NameNode
<1>1. IsFiniteSet(NameNode) /\ Knowing(x) \subseteq NameNode
  BY DEF NetworkFits, Knowing
<1> QED
  BY <1>1, FS_Subset, FS_CardinalityType

LEMMA KnowingCounts ==
  ASSUME NetworkFits, NEW x \in Name, NEW n \in NameNode
  PROVE  /\ KnowingGrows => Cardinality(Knowing(x)) <= Cardinality(Knowing(x)')
         /\ KnowingGrows /\ n \notin Knowing(x) /\ n \in Knowing(x)' =>
              Cardinality(Knowing(x)) + 1 <= Cardinality(Knowing(x)')
         /\ Cardinality(Knowing(x)') \in Nat /\ Cardinality(Knowing(x)) \in Nat
         /\ n \in Knowing(x) => 1 <= Cardinality(Knowing(x))
<1>1. PICK A : A = Knowing(x)
  OBVIOUS
<1>2. PICK B : B = Knowing(x)'
  OBVIOUS
<1>3. A \subseteq NameNode /\ B \subseteq NameNode /\ IsFiniteSet(NameNode)
  BY <1>1, <1>2 DEF Knowing, NetworkFits
<1>4. /\ IsFiniteSet(A) /\ IsFiniteSet(B)
      /\ Cardinality(A) \in Nat /\ Cardinality(B) \in Nat
  BY <1>3, FS_Subset, FS_CardinalityType
<1>5. A \subseteq B => Cardinality(A) <= Cardinality(B)
  BY <1>4, FS_Subset
<1>6. ASSUME A \subseteq B, n \notin A, n \in B
      PROVE  Cardinality(A) + 1 <= Cardinality(B)
  <2>1. A \cup {n} \subseteq B
    BY <1>6
  <2>2. Cardinality(A \cup {n}) = Cardinality(A) + 1
    BY <1>4, <1>6, FS_AddElement
  <2>3. Cardinality(A \cup {n}) <= Cardinality(B)
    BY <1>4, <2>1, FS_Subset
  <2> QED
    BY <2>2, <2>3
<1>7. n \in A => 1 <= Cardinality(A)
  BY <1>4, FS_EmptySet
<1> QED
  BY <1>1, <1>2, <1>4, <1>5, <1>6, <1>7 DEF KnowingGrows

LEMMA SpreadInit ==
  ASSUME N!ConstantsOK, N!Init
  PROVE  SpreadInv
<1>1. /\ \A n \in NameNode : loop[n] = N!Idle /\ \A x \in Name : table[n][x] = None
      /\ names = {} /\ \A s \in Shares : pub[s].pc = "new"
  BY DEF N!Init
<1>2. \A x \in Name : Knowing(x) = {}
  BY <1>1 DEF Knowing
<1> QED
  BY <1>1, <1>2 DEF SpreadInv, Owners, HopsCount, Told

(* What is told stays told when a copy is gone only to a node that knows   *)
(* the name, and the goroutines at work go on or have told.                *)
LEMMA TellingKept ==
  ASSUME KnowingGrows, NEW x \in Name, NEW n \in NameNode, NEW p \in NameNode, Telling(n, x, p),
         \A m \in names : m \in names' \/ m.dst \in Knowing(m.file.name)',
         \A s \in Shares : s[1] = n /\ s[2] = x /\ pub[s].pc \in {"append", "write", "send"} =>
           pub'[s].pc \in {"append", "write", "send"} \/ Telling(n, x, p)',
         loop[n] # N!Idle /\ loop[n].packet.file.name = x /\ loop[n].packet.src # p =>
           (loop'[n] # N!Idle /\ loop'[n].packet = loop[n].packet) \/ Telling(n, x, p)'
  PROVE  Telling(n, x, p)'
<1>1. CASE p \in Knowing(x)
  BY <1>1 DEF KnowingGrows, Telling
<1>2. CASE \E m \in names : m.dst = p /\ m.file.name = x
  BY <1>2 DEF Telling
<1>3. CASE \E s \in Shares : s[1] = n /\ s[2] = x /\ pub[s].pc \in {"append", "write", "send"}
  BY <1>3 DEF Telling
<1>4. CASE loop[n] # N!Idle /\ loop[n].packet.file.name = x /\ loop[n].packet.src # p
  BY <1>4 DEF Telling
<1> QED
  BY <1>1, <1>2, <1>3, <1>4 DEF Telling

(* So do the counts of the packets.                                        *)
Counted(m, k) ==
  /\ m.src \in Knowing(m.file.name)
  /\ NameHops - m.hop + k <= Cardinality(Knowing(m.file.name))

LEMMA CountedKept ==
  ASSUME N!ConstantsOK, NetworkFits, KnowingGrows, NEW m \in N!Packet, NEW k \in Nat, Counted(m, k)
  PROVE  Counted(m, k)'
<1>1. PICK x \in Name : x = m.file.name
  BY PacketFields
<1>2. m.src \in NameNode /\ m.hop \in 1 .. NameHops /\ NameHops \in Nat
  BY DEF N!ConstantsOK, N!Packet
<1>3. /\ Cardinality(Knowing(x)) \in Nat /\ Cardinality(Knowing(x)') \in Nat
      /\ Cardinality(Knowing(x)) <= Cardinality(Knowing(x)')
  BY <1>2, KnowingCounts
<1>4. m.src \in Knowing(x)'
  BY <1>1 DEF Counted, KnowingGrows
<1>5. NameHops - m.hop + k <= Cardinality(Knowing(x)')
  BY <1>1, <1>2, <1>3 DEF Counted
<1> QED
  BY <1>1, <1>4, <1>5 DEF Counted

LEMMA CountedPacketKept ==
  ASSUME N!ConstantsOK, NetworkFits, KnowingGrows, NEW n \in NameNode, loop' = loop,
         loop[n].packet \in N!Packet, Counted(loop[n].packet, 2)
  PROVE  Counted(loop[n].packet, 2)'
<1>1. PICK m \in N!Packet : m = loop[n].packet
  OBVIOUS
<1>2. Counted(m, 2)'
  BY <1>1, CountedKept
<1> QED
  BY <1>1, <1>2 DEF Counted

LEMMA HopsAre ==
  HopsCount <=> /\ \A m \in names : Counted(m, 1)
                /\ \A n \in NameNode : loop[n] # N!Idle => Counted(loop[n].packet, 2)
  BY DEF HopsCount, Counted

(* A step that marks a name, and one that does not.                        *)
Learns(n, x, o) ==
  /\ KnowingGrows /\ n \in Knowing(x)'
  /\ \A k \in NameNode, y \in Name : k \in Knowing(y)' => k \in Knowing(y) \/ (k = n /\ y = x)
  /\ \A k \in NameNode, y \in Name :
       table'[k][y] = table[k][y] \/ (k = n /\ y = x /\ table'[k][y] = o)

LEMMA KnowingMore ==
  ASSUME N!TypeOK, NEW n \in NameNode, NEW x \in Name, NEW o \in NameNode, None \notin NameNode,
         table' = [table EXCEPT ![n][x] = o]
  PROVE  Learns(n, x, o)
<1>1. ASSUME NEW k \in NameNode, NEW y \in Name
      PROVE  table'[k][y] = IF k = n /\ y = x THEN o ELSE table[k][y]
  BY DEF N!TypeOK
<1> QED
  BY <1>1 DEF Knowing, KnowingGrows, Learns

LEMMA KnowingSame ==
  ASSUME table' = table
  PROVE  KnowingGrows /\ \A x : Knowing(x)' = Knowing(x)
  BY DEF Knowing, KnowingGrows

LEMMA OwnersKept ==
  ASSUME Owners, table' = table,
         \A t \in Shares : pub'[t].pc # "new" => pub[t].pc # "new"
  PROVE  Owners'
  BY KnowingSame DEF Owners

LEMMA SpreadNext ==
  ASSUME N!ConstantsOK, NetworkFits, Origins, NotesInTime, SpreadInv, N!Next
  PROVE  SpreadInv'
<1>1. /\ N!TypeOK /\ pub \in [Shares -> Publisher] /\ None \notin NameNode
      /\ Owners /\ HopsCount /\ Told /\ names \subseteq N!Packet
      /\ \A n \in NameNode : \A p \in NamePeers[n] : p \in NameNode
  BY DEF Origins, SpreadInv, N!TypeOK, N!ConstantsOK
<1>2. /\ \A m \in names : Counted(m, 1)
      /\ \A n \in NameNode : loop[n] # N!Idle =>
           Counted(loop[n].packet, 2) /\ loop[n].packet \in N!Packet
  BY <1>1, HopsAre, InsideFields
<1>3. \A x \in Name : \A n \in Knowing(x) : \A p \in NamePeers[n] :
        Telling(n, x, p) /\ p \in NameNode /\ n \in NameNode
  BY <1>1 DEF Told, Knowing
<1>4. ASSUME NEW s \in Shares, N!PublishNote(s) PROVE SpreadInv'
  <2>1. /\ s[1] \in NameNode /\ s[2] \in Name
        /\ N!FileOf(s).name = s[2] /\ N!FileOf(s).owner = s[1]
    BY <1>1, ShareFields
  <2>2. table' = [table EXCEPT ![s[1]][s[2]] = s[1]] /\ loop' = loop /\ names' = names
    BY <1>4, <2>1 DEF N!PublishNote, N!Note
  <2>3. /\ pub[s].pc = "new" /\ pub'[s].pc = "append"
        /\ \A t \in Shares : t = s \/ pub'[t] = pub[t]
    BY <1>1, <1>4 DEF N!PublishNote, Publisher
  <2>4. Learns(s[1], s[2], s[1])
    <3>1. PICK n \in NameNode, x \in Name : n = s[1] /\ x = s[2]
      BY <2>1
    <3>2. table' = [table EXCEPT ![n][x] = n]
      BY <2>2, <3>1
    <3>3. Learns(n, x, n)
      BY <1>1, <3>2, KnowingMore
    <3> QED
      BY <3>1, <3>3
  <2>5. Owners'
    <3>1. ASSUME NEW k \in NameNode, NEW y \in Name, table'[k][y] # None
          PROVE  \E t \in Shares : t[2] = y /\ table'[k][y] = t[1]
      BY <1>1, <2>4, <3>1 DEF Owners, Learns
    <3>2. ASSUME NEW t \in Shares, pub'[t].pc # "new"
          PROVE  t[1] \in Knowing(t[2])'
      <4>1. t[2] \in Name
        BY ShareFields
      <4> QED
        BY <1>1, <2>3, <2>4, <3>2, <4>1 DEF Owners, KnowingGrows, Learns
    <3> QED
      BY <3>1, <3>2 DEF Owners
  <2>6. HopsCount'
    <3>1. \A m \in names : Counted(m, 1)'
      BY <1>1, <1>2, <2>4, CountedKept DEF Learns
    <3>2. \A n \in NameNode : loop[n] # N!Idle => Counted(loop[n].packet, 2)'
      BY <1>2, <2>2, <2>4, CountedPacketKept DEF Learns
    <3> QED
      BY <2>2, <3>1, <3>2 DEF HopsCount, Counted
  <2>7. ASSUME NEW x \in Name, NEW n \in Knowing(x)', NEW p \in NamePeers[n]
        PROVE  Telling(n, x, p)'
    <3>1. n \in NameNode
      BY DEF Knowing
    <3>2. CASE n = s[1] /\ x = s[2]
      BY <2>3, <3>2 DEF Telling
    <3>3. CASE n \in Knowing(x)
      BY <1>3, <2>2, <2>3, <2>4, <3>1, <3>3, TellingKept DEF Learns
    <3> QED
      BY <2>4, <3>1, <3>2, <3>3 DEF Learns
  <2> QED
    BY <2>5, <2>6, <2>7 DEF SpreadInv, Told
<1>5. ASSUME NEW s \in Shares, N!PublishRead(s) \/ N!PublishAppend(s) PROVE SpreadInv'
  <2>1. table' = table /\ loop' = loop /\ names' = names
    BY <1>5 DEF N!PublishRead, N!PublishAppend
  <2>2. /\ pub[s].pc \in {"append", "write"} /\ pub'[s].pc \in {"write", "send"}
        /\ \A t \in Shares : t = s \/ pub'[t] = pub[t]
    BY <1>1, <1>5 DEF N!PublishRead, N!PublishAppend, Publisher
  <2>3. KnowingGrows /\ \A x : Knowing(x)' = Knowing(x)
    BY <2>1, KnowingSame
  <2>4. Owners'
    BY <1>1, <2>1, <2>2, OwnersKept
  <2>5. HopsCount'
    BY <1>1, <2>1, <2>3 DEF HopsCount
  <2>6. ASSUME NEW x \in Name, NEW n \in Knowing(x)', NEW p \in NamePeers[n]
        PROVE  Telling(n, x, p)'
    <3>1. Telling(n, x, p) /\ n \in NameNode /\ p \in NameNode
      BY <1>3, <2>3
    <3>2. \A t \in Shares : pub[t].pc \in {"append", "write", "send"} =>
            pub'[t].pc \in {"append", "write", "send"}
      BY <2>2
    <3> QED
      BY <2>1, <2>3, <3>1, <3>2, TellingKept
  <2> QED
    BY <2>4, <2>5, <2>6 DEF SpreadInv, Told
<1>6. ASSUME NEW s \in Shares, N!PublishSend(s) PROVE SpreadInv'
  <2>1. /\ s[1] \in NameNode /\ s[2] \in Name
        /\ N!FileOf(s) \in N!File /\ N!FileOf(s).name = s[2] /\ NameHops \in Nat
    BY <1>1, ShareFields DEF N!ConstantsOK
  <2>2. table' = table /\ loop' = loop
        /\ names' = names \cup N!Packets(s[1], None, N!FileOf(s), NameHops)
    BY <1>6 DEF N!PublishSend
  <2>3. /\ pub[s].pc = "send" /\ pub'[s].pc = "done"
        /\ \A t \in Shares : t = s \/ pub'[t] = pub[t]
    BY <1>1, <1>6 DEF N!PublishSend, Publisher
  <2>4. KnowingGrows /\ \A x : Knowing(x)' = Knowing(x)
    BY <2>2, KnowingSame
  <2>5. Owners'
    BY <1>1, <2>2, <2>3, OwnersKept
  <2>6. s[1] \in Knowing(s[2]) /\ 1 <= Cardinality(Knowing(s[2]))
    BY <1>1, <2>1, <2>3, KnowingCounts DEF Owners
  <2>7. ASSUME NEW m \in N!Packets(s[1], None, N!FileOf(s), NameHops)
        PROVE  Counted(m, 1)
    <3>1. m.src = s[1] /\ m.file = N!FileOf(s) /\ m.hop = NameHops
      BY DEF N!Packets
    <3>2. NameHops - NameHops + 1 = 1
      BY <2>1
    <3> QED
      BY <2>1, <2>6, <3>1, <3>2 DEF Counted
  <2>8. HopsCount'
    BY <1>1, <1>2, <2>2, <2>4, <2>7 DEF HopsCount, Counted
  <2>9. ASSUME NEW x \in Name, NEW n \in Knowing(x)', NEW p \in NamePeers[n]
        PROVE  Telling(n, x, p)'
    <3>1. Telling(n, x, p) /\ n \in NameNode /\ p \in NameNode
      BY <1>3, <2>4
    <3>2. CASE n = s[1] /\ x = s[2]
      <4>1. PICK m : m = [src |-> n, dst |-> p, file |-> N!FileOf(s), hop |-> NameHops]
        OBVIOUS
      <4>2. m \in N!Packets(s[1], None, N!FileOf(s), NameHops)
        BY <1>1, <3>1, <3>2, <4>1 DEF N!Packets
      <4>3. m \in names' /\ m.dst = p /\ m.file.name = x
        BY <2>1, <2>2, <3>2, <4>1, <4>2
      <4> QED
        BY <4>3 DEF Telling
    <3>3. CASE ~(n = s[1] /\ x = s[2])
      BY <2>2, <2>3, <2>4, <3>1, <3>3, TellingKept
    <3> QED
      BY <3>2, <3>3
  <2> QED
    BY <2>5, <2>8, <2>9 DEF SpreadInv, Told
<1>7. ASSUME NEW n0 \in NameNode, NEW m0 \in names, N!ReceiveKnown(n0, m0) PROVE SpreadInv'
  <2>1. table' = table /\ loop' = loop /\ pub' = pub /\ names' = names \ {m0}
        /\ m0.dst = n0 /\ n0 \in Knowing(m0.file.name)
    BY <1>7 DEF N!ReceiveKnown, N!Seen, Knowing
  <2>2. KnowingGrows /\ \A x : Knowing(x)' = Knowing(x)
    BY <2>1, KnowingSame
  <2>3. Owners'
    BY <1>1, <2>1, OwnersKept
  <2>4. HopsCount'
    BY <1>1, <2>1, <2>2 DEF HopsCount
  <2>5. ASSUME NEW x \in Name, NEW n \in Knowing(x)', NEW p \in NamePeers[n]
        PROVE  Telling(n, x, p)'
    <3>1. Telling(n, x, p) /\ n \in NameNode /\ p \in NameNode
      BY <1>3, <2>2
    <3> QED
      BY <2>1, <2>2, <3>1, TellingKept
  <2> QED
    BY <2>3, <2>4, <2>5 DEF SpreadInv, Told
<1>8. ASSUME NEW n0 \in NameNode, NEW m0 \in names, N!ReceiveNew(n0, m0) PROVE SpreadInv'
  <2>1. /\ m0 \in N!Packet /\ m0.hop \in 1 .. NameHops
        /\ m0.file.name \in Name /\ m0.file.owner \in NameNode
    BY <1>1, PacketFields
  <2>2. PICK x0 \in Name : x0 = m0.file.name
    BY <2>1
  <2>3. /\ table' = [table EXCEPT ![n0][x0] = m0.file.owner] /\ n0 \notin Knowing(x0)
        /\ names' = names \ {m0} /\ m0.dst = n0 /\ pub' = pub /\ loop[n0] = N!Idle
    BY <1>8, <2>2 DEF N!ReceiveNew, N!Note, N!Seen, Knowing
  <2>4. /\ loop'[n0] # N!Idle /\ loop'[n0].packet = m0
        /\ \A k \in NameNode : k = n0 \/ loop'[k] = loop[k]
    BY <1>1, <1>8 DEF N!ReceiveNew, N!Idle, N!TypeOK
  <2>5. Learns(n0, x0, m0.file.owner)
    BY <1>1, <2>1, <2>3, KnowingMore
  <2>6. Owners'
    <3>1. PICK t \in Shares : m0.file = N!FileOf(t)
      BY DEF Origins, Sent
    <3>2. t[2] = x0 /\ m0.file.owner = t[1]
      BY <1>1, <2>2, <3>1, ShareFields
    <3>3. ASSUME NEW k \in NameNode, NEW y \in Name, table'[k][y] # None
          PROVE  \E r \in Shares : r[2] = y /\ table'[k][y] = r[1]
      BY <1>1, <2>5, <3>2, <3>3 DEF Owners, Learns
    <3>4. ASSUME NEW r \in Shares, pub'[r].pc # "new"
          PROVE  r[1] \in Knowing(r[2])'
      <4>1. r[2] \in Name
        BY <1>1, ShareFields
      <4> QED
        BY <1>1, <2>3, <2>5, <3>4, <4>1 DEF Owners, KnowingGrows, Learns
    <3> QED
      BY <3>3, <3>4 DEF Owners
  <2>7. Counted(m0, 2)'
    <3>1. Counted(m0, 1)
      BY <1>2
    <3>2. m0.src \in Knowing(x0)' /\ NameHops - m0.hop + 1 <= Cardinality(Knowing(x0))
      BY <2>2, <2>5, <3>1 DEF Counted, KnowingGrows, Learns
    <3>3. /\ Cardinality(Knowing(x0)) + 1 <= Cardinality(Knowing(x0)')
          /\ Cardinality(Knowing(x0)) \in Nat /\ Cardinality(Knowing(x0)') \in Nat
      BY <2>3, <2>5, KnowingCounts DEF Learns
    <3>4. NameHops - m0.hop + 2 <= Cardinality(Knowing(x0)')
      BY <2>1, <3>2, <3>3 DEF N!ConstantsOK
    <3> QED
      BY <2>2, <3>2, <3>4 DEF Counted
  <2>8. HopsCount'
    <3>1. \A m \in names : Counted(m, 1)'
      BY <1>1, <1>2, <2>5, CountedKept DEF Learns
    <3>2. ASSUME NEW k \in NameNode, loop'[k] # N!Idle
          PROVE  Counted(loop[k].packet, 2)'
      <4>1. CASE k = n0
        BY <2>4, <2>7, <4>1 DEF Counted
      <4>2. CASE k # n0
        <5>1. loop'[k] = loop[k] /\ loop[k] # N!Idle
          BY <2>4, <3>2, <4>2
        <5>2. PICK m \in N!Packet : m = loop[k].packet /\ Counted(m, 2)
          BY <1>2, <5>1
        <5>3. Counted(m, 2)'
          BY <2>5, <5>2, CountedKept DEF Learns
        <5> QED
          BY <5>1, <5>2, <5>3 DEF Counted
      <4> QED
        BY <4>1, <4>2
    <3> QED
      BY <2>3, <3>1, <3>2 DEF HopsCount, Counted
  <2>9. ASSUME NEW x \in Name, NEW n \in Knowing(x)', NEW p \in NamePeers[n]
        PROVE  Telling(n, x, p)'
    <3>1. n \in NameNode /\ p \in NameNode
      BY <1>1 DEF Knowing
    <3>2. CASE n = n0 /\ x = x0
      <4>1. CASE p = m0.src
        BY <2>2, <2>7, <3>2, <4>1 DEF Counted, Telling
      <4>2. CASE p # m0.src
        BY <2>2, <2>4, <3>2, <4>2 DEF Telling
      <4> QED
        BY <4>1, <4>2
    <3>3. CASE n \in Knowing(x)
      <4>1. Telling(n, x, p)
        BY <1>3, <3>3
      <4>2. \A m \in names : m \in names' \/ m.dst \in Knowing(m.file.name)'
        BY <2>2, <2>3, <2>5 DEF Learns
      <4>3. loop[n] # N!Idle => loop'[n] # N!Idle /\ loop'[n].packet = loop[n].packet
        BY <2>3, <2>4, <3>1
      <4> QED
        BY <2>3, <2>5, <3>1, <4>1, <4>2, <4>3, TellingKept DEF Learns
    <3> QED
      BY <2>5, <3>1, <3>2, <3>3 DEF Learns
  <2> QED
    BY <2>6, <2>8, <2>9 DEF SpreadInv, Told
<1>9. ASSUME NEW n0 \in NameNode, N!HandleRead(n0) PROVE SpreadInv'
  <2>1. table' = table /\ pub' = pub /\ names' = names
    BY <1>9 DEF N!HandleRead
  <2>2. loop[n0] # N!Idle
    BY <1>9 DEF N!HandleRead, N!Idle
  <2>3. PICK e \in N!Inside : e = loop[n0]
    BY <1>1, <2>2 DEF N!TypeOK
  <2>4. PICK k : k = [e EXCEPT !.pc = "write", !.read = txs[n0]]
    OBVIOUS
  <2>5. k.packet = e.packet /\ k.pc = "write" /\ k # N!Idle
    BY <2>4 DEF N!Inside, N!Idle
  <2>6. loop' = [loop EXCEPT ![n0] = k]
    BY <1>9, <2>3, <2>4 DEF N!HandleRead, N!Inside
  <2>7. \A j \in NameNode : /\ loop'[j].packet = loop[j].packet
                            /\ loop'[j] # N!Idle <=> loop[j] # N!Idle
    BY <1>1, <2>2, <2>3, <2>5, <2>6 DEF N!TypeOK
  <2>8. KnowingGrows /\ \A x : Knowing(x)' = Knowing(x)
    BY <2>1, KnowingSame
  <2>9. Owners'
    BY <1>1, <2>1, OwnersKept
  <2>10. HopsCount'
    BY <1>1, <2>1, <2>7, <2>8 DEF HopsCount
  <2>11. ASSUME NEW x \in Name, NEW n \in Knowing(x)', NEW p \in NamePeers[n]
         PROVE  Telling(n, x, p)'
    <3>1. Telling(n, x, p) /\ n \in NameNode /\ p \in NameNode
      BY <1>3, <2>8
    <3> QED
      BY <2>1, <2>7, <2>8, <3>1, TellingKept
  <2> QED
    BY <2>9, <2>10, <2>11 DEF SpreadInv, Told
<1>10. ASSUME NEW n0 \in NameNode, N!HandleAppend(n0) PROVE SpreadInv'
  <2>1. loop[n0] # N!Idle
    BY <1>10 DEF N!HandleAppend, N!Idle
  <2>2. PICK m0 \in N!Packet : m0 = loop[n0].packet /\ Counted(m0, 2)
    BY <1>2, <2>1
  <2>3. m0.file \in N!File /\ m0.file.name \in Name /\ m0.hop \in 1 .. NameHops /\ m0.src \in NameNode
        /\ NameHops \in Nat
    BY PacketFields DEF N!Packet, N!ConstantsOK
  <2>4. PICK x0 \in Name : x0 = m0.file.name
    BY <2>3
  <2>5. table' = table /\ pub' = pub /\ loop' = [loop EXCEPT ![n0] = N!Idle]
        /\ names' = names \cup N!Forwarded(n0, m0)
    BY <1>10, <2>2 DEF N!HandleAppend
  <2>6. \A j \in NameNode : (j = n0 /\ loop'[j] = N!Idle) \/ (j # n0 /\ loop'[j] = loop[j])
    BY <1>1, <2>5 DEF N!TypeOK
  <2>7. KnowingGrows /\ \A x : Knowing(x)' = Knowing(x)
    BY <2>5, KnowingSame
  <2>8. Owners'
    BY <1>1, <2>5, OwnersKept
  <2>9. n0 \in Knowing(x0)
    <3>1. Pends(n0, x0)
      BY <2>1, <2>2, <2>4 DEF Pends
    <3> QED
      BY <3>1 DEF NotesInTime, Knowing
  <2>10. ASSUME NEW m \in N!Forwarded(n0, m0)
         PROVE  Counted(m, 1)
    <3>1. m.src = n0 /\ m.file = m0.file /\ m.hop = m0.hop - 1
      BY DEF N!Forwarded, N!Packets
    <3>2. NameHops - m.hop + 1 = NameHops - m0.hop + 2
      BY <2>3, <3>1
    <3> QED
      BY <2>2, <2>4, <2>9, <3>1, <3>2 DEF Counted
  <2>11. HopsCount'
    BY <1>1, <1>2, <2>5, <2>6, <2>7, <2>10 DEF HopsCount, Counted
  <2>12. ASSUME NEW x \in Name, NEW n \in Knowing(x)', NEW p \in NamePeers[n]
         PROVE  Telling(n, x, p)'
    <3>1. Telling(n, x, p) /\ n \in NameNode /\ p \in NameNode
      BY <1>3, <2>7
    <3>2. CASE n = n0 /\ x = x0 /\ p # m0.src
      <4>1. CASE m0.hop = 1
        <5>1. NameHops + 1 <= Cardinality(Knowing(x0))
          BY <2>2, <2>3, <2>4, <4>1 DEF Counted
        <5>2. Knowing(x0) = NameNode
          BY <2>3, <5>1, KnowingFinite DEF NetworkFits
        <5> QED
          BY <2>7, <3>1, <3>2, <5>2 DEF Telling
      <4>2. CASE m0.hop # 1
        <5>1. PICK m : m = [src |-> n0, dst |-> p, file |-> m0.file, hop |-> m0.hop - 1]
          OBVIOUS
        <5>2. m \in N!Forwarded(n0, m0)
          BY <3>2, <4>2, <5>1 DEF N!Forwarded, N!Packets
        <5>3. m \in names' /\ m.dst = p /\ m.file.name = x
          BY <2>4, <2>5, <3>2, <5>1, <5>2
        <5> QED
          BY <5>3 DEF Telling
      <4> QED
        BY <4>1, <4>2
    <3>3. CASE ~(n = n0 /\ x = x0 /\ p # m0.src)
      <4>1. loop[n] # N!Idle /\ loop[n].packet.file.name = x /\ loop[n].packet.src # p =>
              loop'[n] # N!Idle /\ loop'[n].packet = loop[n].packet
        BY <2>2, <2>4, <2>6, <3>1, <3>3
      <4> QED
        BY <2>5, <2>7, <3>1, <4>1, TellingKept
    <3> QED
      BY <3>2, <3>3
  <2> QED
    BY <2>8, <2>11, <2>12 DEF SpreadInv, Told
<1>11. CASE \E s \in Shares : N!Publish(s)
  BY <1>4, <1>5, <1>6, <1>11, Zenon DEF N!Publish
<1>12. CASE \E n \in NameNode : N!Handle(n)
  BY <1>7, <1>8, <1>9, <1>10, <1>12, Zenon DEF N!Handle
<1> QED
  BY <1>11, <1>12 DEF N!Next

(* When nothing is under way, who knows a name has told all its peers, and *)
(* so everyone does; no two nodes share a name, so its owner is the same.  *)
LEMMA SpreadEverywhere ==
  ASSUME NamesAssumed, NetworkFits, SpreadInv
  PROVE  N!NamesSpread
<1> SUFFICES ASSUME \A s \in Shares : pub[s].pc = "done",
                    \A n \in NameNode : loop[n] = N!Idle, names = {},
                    NEW n \in NameNode, NEW s \in Shares
             PROVE  table[n][s[2]] = s[1]
  BY DEF N!NamesSpread
<1>1. s[1] \in NameNode /\ s[2] \in Name /\ s[1] \in Knowing(s[2])
  BY ShareFields DEF NamesAssumed, SpreadInv, Owners
<1>2. ASSUME NEW k \in Knowing(s[2]), NEW p \in NamePeers[k]
      PROVE  p \in Knowing(s[2])
  <2>1. k \in NameNode /\ Telling(k, s[2], p)
    BY <1>1 DEF SpreadInv, Told, Knowing
  <2> QED
    BY <2>1 DEF Telling
<1>3. Knowing(s[2]) = NameNode
  <2>1. Knowing(s[2]) \in SUBSET NameNode
    BY DEF Knowing
  <2> QED
    BY <1>1, <1>2, <2>1 DEF NetworkFits
<1>4. table[n][s[2]] # None
  BY <1>3 DEF Knowing
<1>5. PICK t \in Shares : t[2] = s[2] /\ table[n][s[2]] = t[1]
  BY <1>1, <1>4 DEF SpreadInv, Owners
<1> QED
  BY <1>5 DEF NamesAssumed, NamesDiffer

(* In a connected network of at most one node more than the hop limit,     *)
(* every name is noted by every node with its owner when all is sent and   *)
(* received, over whatever paths its copies came first                     *)
(* (blockchain.go:140).                                                    *)
THEOREM SharedNamesSpread ==
  ASSUME NamesAssumed, NetworkFits
  PROVE  N!Spec => []NamesSpread
<1>1. N!Init => NamesInv /\ SpreadInv
  BY NamesInit, SpreadInit DEF NamesAssumed
<1>2. NamesInv /\ SpreadInv /\ [N!Next]_N!vars => NamesInv' /\ SpreadInv'
  <2>1. ASSUME NamesInv, SpreadInv, N!Next PROVE NamesInv' /\ SpreadInv'
    BY <2>1, NamesNext, SpreadNext DEF NamesAssumed, NamesInv
  <2>2. ASSUME SpreadInv, UNCHANGED N!vars PROVE SpreadInv'
    <3>1. table' = table /\ pub' = pub /\ loop' = loop /\ names' = names
      BY <2>2 DEF N!vars
    <3>2. \A x : Knowing(x)' = Knowing(x)
      BY <3>1, KnowingSame
    <3>3. Owners'
      BY <2>2, <3>1, OwnersKept DEF SpreadInv
    <3>4. HopsCount'
      BY <2>2, <3>1, <3>2 DEF SpreadInv, HopsCount
    <3>5. Told'
      BY <2>2, <3>1, <3>2 DEF SpreadInv, Told, Telling
    <3> QED
      BY <3>3, <3>4, <3>5 DEF SpreadInv
  <2> QED
    BY <2>1, <2>2, NamesStay
<1>3. SpreadInv => NamesSpread
  BY SpreadEverywhere DEF NamesSpread
<1> QED
  BY <1>1, <1>2, <1>3, PTL DEF N!Spec
=============================================================================
