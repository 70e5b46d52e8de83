------------------------------ MODULE SumProofs ------------------------------
(***************************************************************************)
(* What rests on finite sums.                                              *)
(*                                                                         *)
(* What a search costs, on any graph of peers, for any searches, budgets   *)
(* and losses, however often a node handles a request: the requests that   *)
(* are handled and the budgets on their way never add up to more than the  *)
(* budget of the round.                                                    *)
(*                                                                         *)
(* And the arithmetic of training, for matrices of every size: the         *)
(* gradients of the linear model and of the network are derivatives, and   *)
(* the steps on flat weights are those of the layer.                       *)
(***************************************************************************)
EXTENDS SearchFlood, Matrices, Arithmetic, Sequences, FiniteSetTheorems,
        SequenceTheorems, WellFoundedInduction, TLAPS

-----------------------------------------------------------------------------
(* Induction over the subsets of a finite set, for the members of a set.   *)

LEMMA LeastNumber ==
  ASSUME NEW S, S \subseteq Nat, S # {}
  PROVE  \E x \in S : \A y \in S : x <= y
<1>1. PICK x \in S : \A y \in S : ~(<<y, x>> \in OpToRel(<, Nat))
  BY WFMin, NatLessThanWellFounded, Zenon
<1>2. ASSUME NEW y \in S
      PROVE  x <= y
  <2>1. ~(<<y, x>> \in OpToRel(<, Nat)) /\ <<y, x>> \in Nat \X Nat
    BY <1>1
  <2>2. ~(y < x)
    BY <2>1 DEF OpToRel
  <2> QED
    BY <2>2
<1> QED
  BY <1>2

(* What holds of the empty set, and of a subset when it holds of the       *)
(* subset without any one member, holds of all.                            *)
LEMMA SubsetsUp ==
  ASSUME NEW D, IsFiniteSet(D), NEW P, {} \in P,
         \A s \in SUBSET D : s # {} /\ (\A x \in s : s \ {x} \in P) => s \in P
  PROVE  \A s \in SUBSET D : s \in P
<1> DEFINE Bad   == {s \in SUBSET D : s \notin P}
           Sizes == {n \in Nat : \E s \in Bad : Cardinality(s) = n}
<1> SUFFICES ASSUME Bad # {} PROVE FALSE
  OBVIOUS
<1>1. PICK t : t \in Bad
  OBVIOUS
<1>2. Cardinality(t) \in Sizes
  BY <1>1, FS_Subset, FS_CardinalityType
<1>3. PICK n \in Sizes : \A k \in Sizes : n <= k
  <2> HIDE DEF Sizes
  <2>1. Sizes \subseteq Nat
    BY DEF Sizes
  <2> QED
    BY <1>2, <2>1, LeastNumber
<1>4. PICK s \in Bad : Cardinality(s) = n
  OBVIOUS
<1>5. s \in SUBSET D /\ s \notin P /\ s # {} /\ IsFiniteSet(s)
  BY FS_Subset
<1>6. PICK x \in s : s \ {x} \notin P
  BY <1>5
<1>7. IsFiniteSet(s \ {x}) /\ Cardinality(s \ {x}) = n - 1 /\ n \in Nat /\ n - 1 \in Nat
  BY <1>4, <1>5, FS_RemoveElement, FS_CardinalityType, FS_EmptySet
<1>8. n - 1 \in Sizes
  BY <1>5, <1>6, <1>7
<1> QED
  BY <1>3, <1>7, <1>8

-----------------------------------------------------------------------------
(* Sums, as the community modules define them. *)

Choice(s) == CHOOSE x \in s : TRUE

Folded(g, f, D) ==
  g = [s \in SUBSET D |-> IF s = {} THEN 0 ELSE f[Choice(s)] + g[s \ {Choice(s)}]]

(* g sums f over the subsets of D that have at most n members.             *)
Small(D, n) == {s \in SUBSET D : Cardinality(s) <= n}
FoldedTo(g, f, D, n) ==
  g = [s \in Small(D, n) |-> IF s = {} THEN 0 ELSE f[Choice(s)] + g[s \ {Choice(s)}]]

LEMMA ChoiceIn == \A s : s # {} => Choice(s) \in s
BY DEF Choice

LEMMA SmallerSets ==
  ASSUME NEW D, IsFiniteSet(D), NEW n \in Nat, NEW s \in Small(D, n + 1), s # {}
  PROVE  s \ {Choice(s)} \in Small(D, n)
<1>1. Choice(s) \in s /\ s \in SUBSET D /\ IsFiniteSet(s)
  BY ChoiceIn, FS_Subset DEF Small
<1>2. Cardinality(s \ {Choice(s)}) = Cardinality(s) - 1 /\ Cardinality(s) \in Nat
  BY <1>1, FS_RemoveElement, FS_CardinalityType
<1>3. Cardinality(s) <= n + 1
  BY DEF Small
<1>4. Cardinality(s \ {Choice(s)}) <= n
  BY <1>2, <1>3
<1> QED
  BY <1>1, <1>4 DEF Small

LEMMA FoldsOneMore ==
  ASSUME NEW D, IsFiniteSet(D), NEW f, NEW n \in Nat, NEW g, FoldedTo(g, f, D, n)
  PROVE  \E h : FoldedTo(h, f, D, n + 1)
<1> DEFINE h == [s \in Small(D, n + 1) |-> IF s = {} THEN 0 ELSE f[Choice(s)] + g[s \ {Choice(s)}]]
<1>1. \A s \in Small(D, n) : s \in Small(D, n + 1)
  <2>1. \A s \in SUBSET D : Cardinality(s) \in Nat
    BY FS_Subset, FS_CardinalityType
  <2> QED
    BY <2>1 DEF Small
<1>2. \A s \in Small(D, n) : h[s] = g[s]
  BY <1>1, Zenon DEF FoldedTo
<1>3. \A s \in Small(D, n + 1) : s # {} => h[s \ {Choice(s)}] = g[s \ {Choice(s)}]
  BY <1>2, SmallerSets
<1>4. FoldedTo(h, f, D, n + 1)
  <2>1. h = [s \in Small(D, n + 1) |-> IF s = {} THEN 0 ELSE f[Choice(s)] + h[s \ {Choice(s)}]]
    <3> DEFINE k == [s \in Small(D, n + 1) |-> IF s = {} THEN 0 ELSE f[Choice(s)] + h[s \ {Choice(s)}]]
    <3>1. \A s \in Small(D, n + 1) : h[s] = k[s]
      BY <1>3, Zenon
    <3> QED
      BY <3>1, Zenon
  <2> QED
    BY <2>1 DEF FoldedTo
<1> QED
  BY <1>4, Zenon

LEMMA FoldExists ==
  ASSUME NEW D, IsFiniteSet(D), NEW f
  PROVE  \E g : Folded(g, f, D)
<1> DEFINE Fails == {n \in Nat : ~ \E g : FoldedTo(g, f, D, n)}
<1>1. 0 \notin Fails
  <2> DEFINE g == [s \in Small(D, 0) |-> 0]
  <2>1. \A s \in Small(D, 0) : s = {}
    BY FS_Subset, FS_CardinalityType, FS_EmptySet DEF Small
  <2>2. FoldedTo(g, f, D, 0)
    BY <2>1 DEF FoldedTo
  <2> QED
    BY <2>2, Zenon
<1>2. \A n \in Nat : n \notin Fails => n + 1 \notin Fails
  BY FoldsOneMore, Zenon
<1>3. \A n \in Nat : n \notin Fails
  <2> HIDE DEF Fails
  <2> SUFFICES ASSUME Fails \cap Nat # {} PROVE FALSE
    OBVIOUS
  <2>1. PICK n \in Fails \cap Nat : \A k \in Fails \cap Nat : n <= k
    BY LeastNumber
  <2>2. n # 0 /\ n - 1 \in Nat /\ n - 1 \notin Fails
    BY <1>1, <2>1
  <2> QED
    BY <1>2, <2>1, <2>2
<1>4. PICK g : FoldedTo(g, f, D, Cardinality(D))
  BY <1>3, FS_CardinalityType
<1>5. Small(D, Cardinality(D)) = SUBSET D
  BY FS_Subset DEF Small
<1>6. Folded(g, f, D)
  BY <1>4, <1>5, Zenon DEF FoldedTo, Folded
<1> QED
  BY <1>6

(* g gives each subset of D the sum of f over it.                          *)
Sums(g, f, D) ==
  /\ g[{}] = 0
  /\ \A s \in SUBSET D : g[s] \in Int /\ \A x \in s : g[s] = f[x] + g[s \ {x}]

(* The order of a sum does not matter.                                     *)
LEMMA FoldSums ==
  ASSUME NEW D, IsFiniteSet(D), NEW f, \A x \in D : f[x] \in Int, NEW g, Folded(g, f, D)
  PROVE  Sums(g, f, D)
<1>1. g[{}] = 0 /\ \A s \in SUBSET D : s # {} => g[s] = f[Choice(s)] + g[s \ {Choice(s)}]
  BY Zenon DEF Folded
<1>2. \A s \in SUBSET D : g[s] \in Int
  <2> DEFINE P == {s \in SUBSET D : g[s] \in Int}
  <2>1. {} \in P
    BY <1>1
  <2>2. ASSUME NEW s \in SUBSET D, s # {}, \A x \in s : s \ {x} \in P
        PROVE  s \in P
    <3>1. PICK y \in s : y = Choice(s)
      BY <2>2, ChoiceIn
    <3>2. g[s] = f[y] + g[s \ {y}] /\ g[s \ {y}] \in Int /\ f[y] \in Int
      BY <1>1, <2>2, <3>1
    <3> QED
      BY <3>2
  <2>3. \A s \in SUBSET D : s \in P
    <3> HIDE DEF P
    <3> QED
      BY <2>1, <2>2, SubsetsUp
  <2> QED
    BY <2>3
<1> DEFINE P == {s \in SUBSET D : \A x \in s : g[s] = f[x] + g[s \ {x}]}
<1>3. ASSUME NEW s \in SUBSET D, s # {}, \A x \in s : s \ {x} \in P
      PROVE  s \in P
  <2>1. PICK y \in s : y = Choice(s)
    BY <1>3, ChoiceIn
  <2>2. g[s] = f[y] + g[s \ {y}] /\ g[s \ {y}] \in Int /\ f[y] \in Int
    BY <1>1, <1>2, <2>1
  <2>3. ASSUME NEW x \in s, x # y
        PROVE  g[s] = f[x] + g[s \ {x}]
    <3>1. PICK u \in SUBSET D : u = s \ {y}
      OBVIOUS
    <3>2. PICK v \in SUBSET D : v = s \ {x}
      OBVIOUS
    <3>3. PICK t \in SUBSET D : t = u \ {x}
      OBVIOUS
    <3>4. v \ {y} = t /\ x \in u /\ y \in v
      BY <2>3, <3>1, <3>2, <3>3
    <3>5. u \in P /\ v \in P
      BY <1>3, <2>3, <3>1, <3>2
    <3>6. g[u] = f[x] + g[t] /\ g[v] = f[y] + g[t] /\ g[s] = f[y] + g[u]
      BY <2>2, <3>1, <3>3, <3>4, <3>5
    <3>7. g[t] \in Int /\ f[x] \in Int /\ f[y] \in Int
      BY <1>2
    <3>8. g[s] = f[x] + g[v]
      BY <3>6, <3>7
    <3> QED
      BY <3>2, <3>8
  <2> QED
    BY <2>2, <2>3
<1>4. \A s \in SUBSET D : s \in P
  <2>1. {} \in P
    OBVIOUS
  <2> HIDE DEF P
  <2> QED
    BY <1>3, <2>1, SubsetsUp
<1> QED
  BY <1>1, <1>2, <1>4 DEF Sums

LEMMA SumIs ==
  ASSUME NEW D, IsFiniteSet(D), NEW f, \A x \in D : f[x] \in Int
  PROVE  \E g : Sums(g, f, D) /\ SumFunctionOnSet(f, D) = g[D]
<1>1. SumFunctionOnSet(f, D) = (CHOOSE g : Folded(g, f, D))[D]
  BY DEF SumFunctionOnSet, FoldFunctionOnSet, MapThenFoldSet, Folded, Choice
<1>2. Folded(CHOOSE g : Folded(g, f, D), f, D)
  BY FoldExists, Zenon
<1> QED
  BY <1>1, <1>2, FoldSums

(* Sums of equal values are equal, over any part of what they are made for. *)
LEMMA SumsAgree ==
  ASSUME NEW D, IsFiniteSet(D), NEW D1, NEW D2, D \subseteq D1, D \subseteq D2,
         NEW f, NEW h, \A x \in D : f[x] = h[x],
         NEW g, Sums(g, f, D1), NEW k, Sums(k, h, D2)
  PROVE  g[D] = k[D]
<1> DEFINE P == {s \in SUBSET D : g[s] = k[s]}
<1>1. {} \in P
  BY DEF Sums
<1>2. ASSUME NEW s \in SUBSET D, s # {}, \A x \in s : s \ {x} \in P
      PROVE  s \in P
  <2>1. PICK y \in s : TRUE
    BY <1>2
  <2>2. s \in SUBSET D1 /\ s \in SUBSET D2 /\ f[y] = h[y] /\ g[s \ {y}] = k[s \ {y}]
    BY <1>2
  <2>3. g[s] = f[y] + g[s \ {y}] /\ k[s] = h[y] + k[s \ {y}]
    BY <2>2 DEF Sums
  <2> QED
    BY <2>2, <2>3
<1>3. \A s \in SUBSET D : s \in P
  <2> HIDE DEF P
  <2> QED
    BY <1>1, <1>2, SubsetsUp
<1> QED
  BY <1>3

LEMMA SumSame ==
  ASSUME NEW D, IsFiniteSet(D), NEW f, NEW h, \A x \in D : f[x] \in Int /\ h[x] = f[x]
  PROVE  SumFunctionOnSet(h, D) = SumFunctionOnSet(f, D)
<1>1. PICK g : Sums(g, f, D) /\ SumFunctionOnSet(f, D) = g[D]
  BY SumIs
<1>2. PICK k : Sums(k, h, D) /\ SumFunctionOnSet(h, D) = k[D]
  BY SumIs
<1> QED
  BY <1>1, <1>2, SumsAgree

LEMMA SumNone == ASSUME NEW f PROVE SumFunctionOnSet(f, {}) = 0
<1>1. PICK D : D = {}
  OBVIOUS
<1>2. IsFiniteSet(D) /\ \A x \in D : f[x] \in Int
  BY <1>1, FS_EmptySet
<1>3. PICK g : Sums(g, f, D) /\ SumFunctionOnSet(f, D) = g[D]
  BY <1>2, SumIs
<1> QED
  BY <1>1, <1>3 DEF Sums

LEMMA SumInt ==
  ASSUME NEW D, IsFiniteSet(D), NEW f, \A x \in D : f[x] \in Int
  PROVE  SumFunctionOnSet(f, D) \in Int
<1>1. PICK g : Sums(g, f, D) /\ SumFunctionOnSet(f, D) = g[D]
  BY SumIs
<1> QED
  BY <1>1 DEF Sums

LEMMA SumOneOut ==
  ASSUME NEW D, IsFiniteSet(D), NEW f, \A x \in D : f[x] \in Int, NEW x \in D
  PROVE  SumFunctionOnSet(f, D) = f[x] + SumFunctionOnSet(f, D \ {x})
<1>1. PICK g : Sums(g, f, D) /\ SumFunctionOnSet(f, D) = g[D]
  BY SumIs
<1>2. PICK E : E = D \ {x}
  OBVIOUS
<1>3. IsFiniteSet(E) /\ E \subseteq D /\ \A y \in E : f[y] \in Int
  BY <1>2, FS_Subset
<1>4. PICK k : Sums(k, f, E) /\ SumFunctionOnSet(f, E) = k[E]
  BY <1>3, SumIs
<1>5. g[E] = k[E]
  BY <1>1, <1>3, <1>4, SumsAgree
<1>6. g[D] = f[x] + g[E]
  <2>1. D \in SUBSET D
    OBVIOUS
  <2>2. \A y \in D : g[D] = f[y] + g[D \ {y}]
    BY <1>1, <2>1 DEF Sums
  <2> QED
    BY <1>2, <2>2
<1> QED
  BY <1>1, <1>2, <1>4, <1>5, <1>6

LEMMA SumNat ==
  ASSUME NEW D, IsFiniteSet(D), NEW f, \A x \in D : f[x] \in Nat
  PROVE  SumFunctionOnSet(f, D) \in Nat
<1> DEFINE P == {s \in SUBSET D : SumFunctionOnSet(f, s) \in Nat}
<1>1. {} \in P
  BY SumNone
<1>2. ASSUME NEW s \in SUBSET D, s # {}, \A x \in s : s \ {x} \in P
      PROVE  s \in P
  <2>1. PICK y \in s : TRUE
    BY <1>2
  <2>2. PICK r : r = s \ {y}
    OBVIOUS
  <2>3. IsFiniteSet(s) /\ \A x \in s : f[x] \in Int
    BY FS_Subset
  <2>4. SumFunctionOnSet(f, s) = f[y] + SumFunctionOnSet(f, r)
    BY <2>2, <2>3, SumOneOut
  <2>5. f[y] \in Nat /\ SumFunctionOnSet(f, r) \in Nat
    BY <1>2, <2>1, <2>2
  <2> QED
    BY <2>4, <2>5
<1>3. \A s \in SUBSET D : s \in P
  <2> HIDE DEF P
  <2> QED
    BY <1>1, <1>2, SubsetsUp
<1> QED
  BY <1>3

(* What is 0 adds nothing. *)
LEMMA SumWhere ==
  ASSUME NEW D, IsFiniteSet(D), NEW f, \A x \in D : f[x] \in Int,
         NEW E, E \subseteq D, \A x \in D \ E : f[x] = 0
  PROVE  SumFunctionOnSet(f, D) = SumFunctionOnSet(f, E)
<1> DEFINE P == {s \in SUBSET D : SumFunctionOnSet(f, s) = SumFunctionOnSet(f, s \cap E)}
<1>1. {} \in P
  <2>1. PICK e : e = {}
    OBVIOUS
  <2>2. e \in SUBSET D /\ e \cap E = e
    BY <2>1
  <2> QED
    BY <2>1, <2>2
<1>2. ASSUME NEW s \in SUBSET D, s # {}, \A x \in s : s \ {x} \in P
      PROVE  s \in P
  <2>1. PICK y \in s : TRUE
    BY <1>2
  <2>2. PICK r, t, u : r = s \ {y} /\ t = s \cap E /\ u = r \cap E
    OBVIOUS
  <2>3. IsFiniteSet(s) /\ IsFiniteSet(t) /\ t \in SUBSET D /\ IsFiniteSet(u) /\ u \in SUBSET D
    BY <2>2, FS_Subset
  <2>4. SumFunctionOnSet(f, r) = SumFunctionOnSet(f, u)
    BY <1>2, <2>2
  <2>5. SumFunctionOnSet(f, s) = f[y] + SumFunctionOnSet(f, r) /\ SumFunctionOnSet(f, u) \in Int
    BY <2>2, <2>3, SumOneOut, SumInt
  <2>6. SumFunctionOnSet(f, s) = SumFunctionOnSet(f, t)
    <3>1. CASE y \in E
      <4>1. y \in t /\ t \ {y} = u
        BY <2>2, <3>1
      <4>2. SumFunctionOnSet(f, t) = f[y] + SumFunctionOnSet(f, u)
        BY <2>3, <4>1, SumOneOut
      <4> QED
        BY <2>4, <2>5, <4>2
    <3>2. CASE y \notin E
      <4>1. t = u /\ f[y] = 0
        BY <2>2, <3>2
      <4> QED
        BY <2>4, <2>5, <4>1
    <3> QED
      BY <3>1, <3>2
  <2> QED
    BY <2>2, <2>6
<1>3. \A s \in SUBSET D : s \in P
  <2> HIDE DEF P
  <2> QED
    BY <1>1, <1>2, SubsetsUp
<1>4. D \cap E = E
  OBVIOUS
<1> QED
  BY <1>3, <1>4

LEMMA SumPlus ==
  ASSUME NEW D, IsFiniteSet(D), NEW f, NEW e, NEW h,
         \A x \in D : f[x] \in Int /\ e[x] \in Int /\ h[x] = f[x] + e[x]
  PROVE  SumFunctionOnSet(h, D) = SumFunctionOnSet(f, D) + SumFunctionOnSet(e, D)
<1> DEFINE P == {s \in SUBSET D :
                   SumFunctionOnSet(h, s) = SumFunctionOnSet(f, s) + SumFunctionOnSet(e, s)}
<1>1. {} \in P
  BY SumNone
<1>2. ASSUME NEW s \in SUBSET D, s # {}, \A x \in s : s \ {x} \in P
      PROVE  s \in P
  <2>1. PICK y \in s : TRUE
    BY <1>2
  <2>2. PICK r : r = s \ {y}
    OBVIOUS
  <2>3. IsFiniteSet(s) /\ IsFiniteSet(r) /\ r \in SUBSET D
    BY <2>2, FS_Subset
  <2>4. SumFunctionOnSet(h, r) = SumFunctionOnSet(f, r) + SumFunctionOnSet(e, r)
    BY <1>2, <2>2
  <2>5. \A x \in s : h[x] \in Int /\ f[x] \in Int /\ e[x] \in Int
    OBVIOUS
  <2>6. /\ SumFunctionOnSet(f, r) \in Int
        /\ SumFunctionOnSet(e, r) \in Int
    BY <2>2, <2>3, <2>5, SumInt
  <2>7. /\ SumFunctionOnSet(h, s) = h[y] + SumFunctionOnSet(h, r)
        /\ SumFunctionOnSet(f, s) = f[y] + SumFunctionOnSet(f, r)
        /\ SumFunctionOnSet(e, s) = e[y] + SumFunctionOnSet(e, r)
    BY <2>2, <2>3, <2>5, SumOneOut
  <2>8. h[y] = f[y] + e[y] /\ f[y] \in Int /\ e[y] \in Int
    BY <2>1
  <2> QED
    BY <2>4, <2>6, <2>7, <2>8
<1>3. \A s \in SUBSET D : s \in P
  <2> HIDE DEF P
  <2> QED
    BY <1>1, <1>2, SubsetsUp
<1> QED
  BY <1>3

(* One value is different. *)
LEMMA SumChange ==
  ASSUME NEW D, IsFiniteSet(D), NEW f, NEW h, NEW z \in D, NEW c \in Int,
         \A x \in D : f[x] \in Int /\ h[x] \in Int /\ (x # z => h[x] = f[x]), f[z] = h[z] + c
  PROVE  SumFunctionOnSet(f, D) = SumFunctionOnSet(h, D) + c
<1>1. PICK E : E = D \ {z}
  OBVIOUS
<1>2. IsFiniteSet(E) /\ E \subseteq D /\ \A x \in E : f[x] \in Int /\ h[x] = f[x]
  BY <1>1, FS_Subset
<1>3. SumFunctionOnSet(h, E) = SumFunctionOnSet(f, E) /\ SumFunctionOnSet(f, E) \in Int
  BY <1>2, SumSame, SumInt
<1>4. /\ SumFunctionOnSet(f, D) = f[z] + SumFunctionOnSet(f, E)
      /\ SumFunctionOnSet(h, D) = h[z] + SumFunctionOnSet(h, E)
  BY <1>1, SumOneOut
<1> QED
  BY <1>3, <1>4

(* A sum over other names of the same things. *)
Image(to, s) == {to[p] : p \in s}

LEMMA SumImage ==
  ASSUME NEW D, IsFiniteSet(D), NEW to, \A p, q \in D : to[p] = to[q] => p = q,
         NEW f, NEW h, \A p \in D : h[p] \in Nat /\ f[to[p]] = h[p]
  PROVE  IsFiniteSet(Image(to, D)) /\ SumFunctionOnSet(f, Image(to, D)) = SumFunctionOnSet(h, D)
<1> DEFINE P == {s \in SUBSET D : /\ IsFiniteSet(Image(to, s))
                                  /\ SumFunctionOnSet(f, Image(to, s)) = SumFunctionOnSet(h, s)}
<1>1. {} \in P
  <2>1. PICK e : e = {}
    OBVIOUS
  <2>2. Image(to, e) = {} /\ IsFiniteSet(e)
    BY <2>1, FS_EmptySet DEF Image
  <2> QED
    BY <2>1, <2>2, SumNone
<1>2. ASSUME NEW s \in SUBSET D, s # {}, \A x \in s : s \ {x} \in P
      PROVE  s \in P
  <2>1. PICK y \in s : TRUE
    BY <1>2
  <2>2. PICK r, i, j, v : r = s \ {y} /\ i = Image(to, s) /\ j = Image(to, r) /\ v = to[y]
    OBVIOUS
  <2>3. IsFiniteSet(s) /\ \A x \in s : h[x] \in Nat
    BY FS_Subset
  <2>4. IsFiniteSet(j) /\ SumFunctionOnSet(f, j) = SumFunctionOnSet(h, r)
    BY <1>2, <2>2
  <2>5. v \in i /\ i \ {v} = j /\ i = j \cup {v}
    BY <2>2 DEF Image
  <2>6. IsFiniteSet(i)
    BY <2>4, <2>5, FS_AddElement
  <2>7. \A x \in i : f[x] \in Nat
    BY <2>2 DEF Image
  <2>8. SumFunctionOnSet(f, i) = f[v] + SumFunctionOnSet(f, j)
    BY <2>5, <2>6, <2>7, SumOneOut
  <2>9. SumFunctionOnSet(h, s) = h[y] + SumFunctionOnSet(h, r)
    BY <2>2, <2>3, SumOneOut
  <2> QED
    BY <2>2, <2>4, <2>6, <2>8, <2>9
<1>3. \A s \in SUBSET D : s \in P
  <2> HIDE DEF P
  <2> QED
    BY <1>1, <1>2, SubsetsUp
<1> QED
  BY <1>3

(* Equal values, some of them one more. *)
LEMMA SumEven ==
  ASSUME NEW D, IsFiniteSet(D), NEW q \in Nat, NEW more, more \subseteq D,
         NEW h, \A p \in D : h[p] = IF p \in more THEN q + 1 ELSE q
  PROVE  SumFunctionOnSet(h, D) = q * Cardinality(D) + Cardinality(more)
<1> DEFINE P == {s \in SUBSET D :
                   SumFunctionOnSet(h, s) = q * Cardinality(s) + Cardinality(s \cap more)}
<1>1. {} \in P
  <2>1. PICK e : e = {}
    OBVIOUS
  <2>2. e \cap more = e /\ Cardinality(e) = 0 /\ SumFunctionOnSet(h, e) = 0 /\ q * 0 = 0
    BY <2>1, FS_EmptySet, SumNone
  <2> QED
    BY <2>1, <2>2
<1>2. ASSUME NEW s \in SUBSET D, s # {}, \A x \in s : s \ {x} \in P
      PROVE  s \in P
  <2>1. PICK y \in s : TRUE
    BY <1>2
  <2>2. PICK r, t, u : r = s \ {y} /\ t = s \cap more /\ u = r \cap more
    OBVIOUS
  <2>3. IsFiniteSet(s) /\ IsFiniteSet(r) /\ IsFiniteSet(t) /\ IsFiniteSet(u)
    BY <2>2, FS_Subset
  <2>4. PICK c \in Nat, d \in Nat : c = Cardinality(r) /\ d = Cardinality(u)
    BY <2>3, FS_CardinalityType
  <2>5. SumFunctionOnSet(h, r) = q * c + d
    BY <1>2, <2>2, <2>4
  <2>6. Cardinality(s) = c + 1
    <3>1. s = r \cup {y} /\ y \notin r
      BY <2>2
    <3> QED
      BY <2>3, <2>4, <3>1, FS_AddElement
  <2>7. Cardinality(t) = IF y \in more THEN d + 1 ELSE d
    <3>1. CASE y \in more
      <4>1. t = u \cup {y} /\ y \notin u
        BY <2>2, <3>1
      <4> QED
        BY <2>3, <2>4, <3>1, <4>1, FS_AddElement
    <3>2. CASE y \notin more
      <4>1. t = u
        BY <2>2, <3>2
      <4> QED
        BY <2>4, <3>2, <4>1
    <3> QED
      BY <3>1, <3>2
  <2>8. SumFunctionOnSet(h, s) = h[y] + SumFunctionOnSet(h, r)
    <3>1. \A x \in s : h[x] \in Nat
      OBVIOUS
    <3> QED
      BY <2>2, <2>3, <3>1, SumOneOut
  <2>9. q * (c + 1) = q * c + q /\ q * c \in Nat
    OBVIOUS
  <2>10. h[y] = IF y \in more THEN q + 1 ELSE q
    BY <2>1
  <2>11. SumFunctionOnSet(h, s) = q * Cardinality(s) + Cardinality(t)
    <3>1. CASE y \in more
      BY <2>5, <2>6, <2>7, <2>8, <2>9, <2>10, <3>1
    <3>2. CASE y \notin more
      BY <2>5, <2>6, <2>7, <2>8, <2>9, <2>10, <3>2
    <3> QED
      BY <3>1, <3>2
  <2> QED
    BY <2>2, <2>11
<1>3. \A s \in SUBSET D : s \in P
  <2> HIDE DEF P
  <2> QED
    BY <1>1, <1>2, SubsetsUp
<1>4. D \cap more = more
  OBVIOUS
<1> QED
  BY <1>3, <1>4

-----------------------------------------------------------------------------
(* Budgets in a bag of requests. *)

RequestBag(bag) ==
  /\ IsFiniteSet(DOMAIN bag) /\ DOMAIN bag \subseteq Request
  /\ \A m \in DOMAIN bag : bag[m] \in Nat \ {0}

OfRound(bag, r) == {m \in BagToSet(bag) : m.round = r}
Flying(bag, r)  == SumFunction([m \in OfRound(bag, r) |-> m.budget * bag[m]])

(* What the requests of a round cost, over any set that has them all.      *)
Costs(bag, r, D) == [m \in D |-> IF m \in OfRound(bag, r) THEN m.budget * bag[m] ELSE 0]

LEMMA CostsType ==
  ASSUME NEW bag, RequestBag(bag), NEW r, NEW D
  PROVE  \A m \in D : Costs(bag, r, D)[m] \in Nat
<1>1. \A m \in OfRound(bag, r) : m.budget \in Nat /\ bag[m] \in Nat
  BY DEF RequestBag, OfRound, BagToSet, Request
<1>2. \A b, c \in Nat : b * c \in Nat
  OBVIOUS
<1>3. \A m \in OfRound(bag, r) : m.budget * bag[m] \in Nat
  BY <1>1, <1>2
<1> QED
  BY <1>3 DEF Costs

LEMMA FlyingOver ==
  ASSUME NEW bag, RequestBag(bag), NEW r, NEW D, IsFiniteSet(D), DOMAIN bag \subseteq D
  PROVE  Flying(bag, r) = SumFunctionOnSet(Costs(bag, r, D), D) /\ Flying(bag, r) \in Nat
<1> DEFINE h == [m \in OfRound(bag, r) |-> m.budget * bag[m]]
<1>1. PICK E : E = OfRound(bag, r)
  OBVIOUS
<1>2. PICK f : f = Costs(bag, r, D)
  OBVIOUS
<1>3. E \subseteq D /\ IsFiniteSet(E)
  BY <1>1, FS_Subset DEF OfRound, BagToSet
<1>4. \A m \in D : f[m] \in Nat
  BY <1>2, CostsType
<1>5. (\A m \in D \ E : f[m] = 0) /\ (\A m \in E : h[m] = f[m])
  BY <1>1, <1>2, <1>3 DEF Costs
<1>6. SumFunctionOnSet(f, D) = SumFunctionOnSet(f, E)
  BY <1>3, <1>4, <1>5, SumWhere
<1>7. SumFunctionOnSet(h, E) = SumFunctionOnSet(f, E)
  <2> HIDE DEF h
  <2>1. \A m \in E : f[m] \in Nat /\ h[m] = f[m]
    BY <1>3, <1>4, <1>5
  <2> QED
    BY <1>3, <2>1, SumSame
<1>8. SumFunctionOnSet(f, E) \in Nat
  BY <1>3, <1>4, SumNat
<1>9. Flying(bag, r) = SumFunctionOnSet(h, E)
  BY <1>1 DEF Flying, SumFunction
<1> QED
  BY <1>2, <1>6, <1>7, <1>8, <1>9

(* The request m was taken from the bag.                                   *)
Taken(bag, after, m, r) ==
  /\ RequestBag(after) /\ DOMAIN after \subseteq DOMAIN bag
  /\ Flying(after, r) \in Nat /\ Flying(bag, r) \in Nat
  /\ m.round = r => Flying(bag, r) = Flying(after, r) + m.budget
  /\ m.round # r => Flying(after, r) = Flying(bag, r)

LEMMA RequestLeaves ==
  ASSUME NEW bag, RequestBag(bag), NEW m \in DOMAIN bag, NEW after, after = bag (-) SetToBag({m}),
         NEW r
  PROVE  Taken(bag, after, m, r)
<1> SUFFICES
         /\ RequestBag(after) /\ DOMAIN after \subseteq DOMAIN bag
         /\ Flying(after, r) \in Nat /\ Flying(bag, r) \in Nat
         /\ m.round = r => Flying(bag, r) = Flying(after, r) + m.budget
         /\ m.round # r => Flying(after, r) = Flying(bag, r)
  BY Zenon DEF Taken
<1>1. /\ DOMAIN after \subseteq DOMAIN bag
      /\ \A x \in DOMAIN bag : x # m => x \in DOMAIN after /\ after[x] = bag[x]
      /\ IF bag[m] - 1 > 0 THEN m \in DOMAIN after /\ after[m] = bag[m] - 1 ELSE m \notin DOMAIN after
  BY DEF (-), SetToBag, RequestBag
<1>2. RequestBag(after)
  <2>1. IsFiniteSet(DOMAIN after) /\ DOMAIN after \subseteq Request
    BY <1>1, FS_Subset DEF RequestBag
  <2>2. \A x \in DOMAIN after : after[x] \in Nat \ {0}
    <3>1. \A x \in DOMAIN bag : bag[x] \in Nat \ {0}
      BY DEF RequestBag
    <3>2. \A x \in DOMAIN after : x # m => after[x] = bag[x]
      BY <1>1
    <3>3. m \in DOMAIN after => after[m] \in Nat \ {0}
      BY <1>1, <3>1
    <3> QED
      BY <1>1, <3>1, <3>2, <3>3
  <2> QED
    BY <2>1, <2>2 DEF RequestBag
<1>3. PICK D : D = DOMAIN bag
  OBVIOUS
<1>4. PICK f, h : f = Costs(bag, r, D) /\ h = Costs(after, r, D)
  OBVIOUS
<1>5. /\ IsFiniteSet(D) /\ m \in D
      /\ Flying(bag, r) = SumFunctionOnSet(f, D) /\ Flying(bag, r) \in Nat
      /\ Flying(after, r) = SumFunctionOnSet(h, D) /\ Flying(after, r) \in Nat
  BY <1>1, <1>2, <1>3, <1>4, FlyingOver DEF RequestBag
<1>6. \A x \in D : f[x] \in Nat /\ h[x] \in Nat
  BY <1>2, <1>4, CostsType
<1>7. \A x \in D : x # m => h[x] = f[x]
  BY <1>1, <1>3, <1>4 DEF Costs, OfRound, BagToSet
<1>8. CASE m.round = r
  <2>1. PICK b \in Nat, c \in Nat \ {0} : b = m.budget /\ c = bag[m]
    BY DEF RequestBag, Request
  <2>2. f[m] = b * c
    BY <1>3, <1>4, <1>8, <2>1 DEF Costs, OfRound, BagToSet
  <2>3. h[m] = b * (c - 1)
    <3>1. CASE c - 1 > 0
      BY <1>1, <1>3, <1>4, <1>8, <2>1, <3>1 DEF Costs, OfRound, BagToSet
    <3>2. CASE ~(c - 1 > 0)
      <4>1. c - 1 = 0 /\ b * 0 = 0
        BY <2>1, <3>2
      <4>2. h[m] = 0
        BY <1>1, <1>3, <1>4, <2>1, <3>2 DEF Costs, OfRound, BagToSet
      <4> QED
        BY <4>1, <4>2
    <3> QED
      BY <3>1, <3>2
  <2>4. b * c = b * (c - 1) + b
    BY <2>1
  <2>5. SumFunctionOnSet(f, D) = SumFunctionOnSet(h, D) + b
    <3>1. f[m] = h[m] + b
      BY <2>2, <2>3, <2>4, SMTT(30)
    <3>2. IsFiniteSet(D) /\ m \in D
      BY <1>5
    <3>3. \A x \in D : f[x] \in Nat /\ h[x] \in Nat /\ (x # m => h[x] = f[x])
      BY <1>6, <1>7, Zenon
    <3> QED
      BY <3>1, <3>2, <3>3, SumChange, SMTT(30)
  <2> QED
    BY <1>1, <1>2, <1>5, <1>8, <2>1, <2>5
<1>9. CASE m.round # r
  <2>1. h[m] = f[m]
    BY <1>3, <1>4, <1>9 DEF Costs, OfRound, BagToSet
  <2>2. SumFunctionOnSet(h, D) = SumFunctionOnSet(f, D)
    BY <1>5, <1>6, <1>7, <2>1, SumSame
  <2> QED
    BY <1>1, <1>2, <1>5, <1>9, <2>2
<1> QED
  BY <1>8, <1>9

(* The requests R of round r, of the budgets f, were added to the bag.      *)
Joined(bag, after, R, r, f, any) ==
  /\ RequestBag(after) /\ DOMAIN after = DOMAIN bag \cup R
  /\ Flying(after, any) \in Nat /\ Flying(bag, any) \in Nat
  /\ any = r => Flying(after, any) = Flying(bag, any) + SumFunctionOnSet(f, R)
  /\ any # r => Flying(after, any) = Flying(bag, any)

LEMMA RequestsJoin ==
  ASSUME NEW bag, RequestBag(bag), NEW R, IsFiniteSet(R), R \subseteq Request,
         NEW r, \A m \in R : m.round = r, NEW f, \A m \in R : f[m] = m.budget,
         NEW after, after = bag (+) SetToBag(R), NEW any
  PROVE  Joined(bag, after, R, r, f, any)
<1> SUFFICES
         /\ RequestBag(after) /\ DOMAIN after = DOMAIN bag \cup R
         /\ Flying(after, any) \in Nat /\ Flying(bag, any) \in Nat
         /\ any = r => Flying(after, any) = Flying(bag, any) + SumFunctionOnSet(f, R)
         /\ any # r => Flying(after, any) = Flying(bag, any)
  BY Zenon DEF Joined
<1>1. /\ DOMAIN after = DOMAIN bag \cup R
      /\ \A x \in DOMAIN after : after[x] = (IF x \in DOMAIN bag THEN bag[x] ELSE 0) + (IF x \in R THEN 1 ELSE 0)
  BY DEF (+), SetToBag
<1>2. RequestBag(after)
  <2>1. IsFiniteSet(DOMAIN after) /\ DOMAIN after \subseteq Request
    <3>1. PICK S : S = DOMAIN bag
      OBVIOUS
    <3>2. IsFiniteSet(S) /\ S \subseteq Request
      BY <3>1 DEF RequestBag
    <3>3. IsFiniteSet(S \cup R)
      BY <3>2, FS_Union
    <3> QED
      BY <1>1, <3>1, <3>2, <3>3
  <2>2. \A x \in DOMAIN after : after[x] \in Nat \ {0}
    BY <1>1 DEF RequestBag
  <2> QED
    BY <2>1, <2>2 DEF RequestBag
<1>3. PICK D : D = DOMAIN after
  OBVIOUS
<1>4. PICK g, h, e : /\ g = Costs(bag, any, D) /\ h = Costs(after, any, D)
                     /\ e = [x \in D |-> IF x \in R /\ any = r THEN x.budget ELSE 0]
  OBVIOUS
<1>5. /\ IsFiniteSet(D)
      /\ Flying(bag, any) = SumFunctionOnSet(g, D) /\ Flying(bag, any) \in Nat
      /\ Flying(after, any) = SumFunctionOnSet(h, D) /\ Flying(after, any) \in Nat
  BY <1>1, <1>2, <1>3, <1>4, FlyingOver DEF RequestBag
<1>6. \A x \in D : g[x] \in Nat /\ h[x] \in Nat /\ e[x] \in Nat
  <2>1. \A x \in D : e[x] \in Nat
    BY <1>4 DEF Request
  <2> QED
    BY <1>2, <1>4, <2>1, CostsType
<1>7. ASSUME NEW x \in D
      PROVE  h[x] = g[x] + e[x]
  <2>1. PICK b \in Nat : b = x.budget
    BY <1>1, <1>3 DEF RequestBag, Request
  <2>2. CASE x.round # any
    BY <1>4, <1>6, <2>2 DEF Costs, OfRound, BagToSet
  <2>3. CASE x.round = any /\ x \in DOMAIN bag
    <3>1. PICK c \in Nat : c = bag[x]
      BY <2>3 DEF RequestBag
    <3>2. g[x] = b * c
      BY <1>4, <2>1, <2>3, <3>1 DEF Costs, OfRound, BagToSet
    <3>3. CASE x \in R
      <4>1. after[x] = c + 1 /\ any = r
        BY <1>1, <1>3, <2>3, <3>1, <3>3
      <4>2. h[x] = b * (c + 1) /\ e[x] = b
        BY <1>3, <1>4, <2>1, <2>3, <3>3, <4>1 DEF Costs, OfRound, BagToSet
      <4>3. b * (c + 1) = b * c + b
        OBVIOUS
      <4> QED
        BY <3>2, <4>2, <4>3
    <3>4. CASE x \notin R
      <4>1. after[x] = c
        BY <1>1, <1>3, <2>3, <3>1, <3>4
      <4>2. h[x] = b * c /\ e[x] = 0
        BY <1>3, <1>4, <2>1, <2>3, <3>4, <4>1 DEF Costs, OfRound, BagToSet
      <4>3. b * c \in Nat
        OBVIOUS
      <4> QED
        BY <3>2, <4>2, <4>3
    <3> QED
      BY <3>3, <3>4
  <2>4. CASE x.round = any /\ x \notin DOMAIN bag
    <3>1. after[x] = 1 /\ x \in R /\ any = r
      BY <1>1, <1>3, <2>4
    <3>2. h[x] = b * 1 /\ e[x] = b /\ g[x] = 0
      BY <1>3, <1>4, <2>1, <2>4, <3>1 DEF Costs, OfRound, BagToSet
    <3> QED
      BY <3>2
  <2> QED
    BY <2>2, <2>3, <2>4
<1>8. SumFunctionOnSet(h, D) = SumFunctionOnSet(g, D) + SumFunctionOnSet(e, D)
  BY <1>5, <1>6, <1>7, SumPlus
<1>9. SumFunctionOnSet(e, D) = SumFunctionOnSet(e, R)
  <2>1. R \subseteq D /\ \A x \in D \ R : e[x] = 0
    BY <1>1, <1>3, <1>4
  <2> QED
    BY <1>5, <1>6, <2>1, SumWhere
<1>10. CASE any = r
  <2>1. \A x \in R : e[x] \in Nat /\ f[x] = e[x]
    BY <1>1, <1>3, <1>4, <1>6, <1>10
  <2>2. SumFunctionOnSet(f, R) = SumFunctionOnSet(e, R)
    BY <2>1, SumSame
  <2> QED
    BY <1>1, <1>2, <1>5, <1>8, <1>9, <1>10, <2>2
<1>11. CASE any # r
  <2>1. \A x \in D : h[x] = g[x]
    BY <1>4, <1>6, <1>7, <1>11
  <2>2. SumFunctionOnSet(h, D) = SumFunctionOnSet(g, D)
    BY <1>5, <1>6, <2>1, SumSame
  <2> QED
    BY <1>1, <1>2, <1>5, <1>11, <2>2
<1> QED
  BY <1>10, <1>11

-----------------------------------------------------------------------------
(* A node passes on no more than the budget less 1. *)

LEMMA ShareSum ==
  ASSUME NEW n \in Node, NEW relaySender, NEW budget \in Nat \ {0},
         NEW share \in Shares(n, relaySender, budget)
  PROVE  /\ IsFiniteSet(DOMAIN share) /\ DOMAIN share \subseteq Node
         /\ \A p \in DOMAIN share : share[p] \in Nat
         /\ SumFunctionOnSet(share, DOMAIN share) <= budget - 1
<1>1. PICK to : to = Receivers(n, relaySender)
  OBVIOUS
<1>2. PICK left \in Nat, tmp \in Nat : left = budget - 1 /\ tmp = Cardinality(to)
  BY <1>1, PeersAssumption, FS_Subset, FS_CardinalityType DEF Receivers
<1>3. IsFiniteSet(to) /\ to \subseteq Node
  BY <1>1, PeersAssumption, FS_Subset DEF Receivers
<1>4. CASE left = 0 \/ tmp = 0
  <2>1. share = [p \in to |-> 0]
    BY <1>1, <1>2, <1>4 DEF Shares
  <2>2. PICK more : more = {}
    OBVIOUS
  <2>3. DOMAIN share = to /\ (\A p \in to : share[p] = 0) /\ more \subseteq to /\ Cardinality(more) = 0
    BY <2>1, <2>2, FS_EmptySet
  <2>4. PICK q \in Nat : q = 0
    OBVIOUS
  <2>5. \A p \in to : share[p] = IF p \in more THEN q + 1 ELSE q
    BY <2>2, <2>3, <2>4
  <2>6. SumFunctionOnSet(share, to) = q * Cardinality(to) + Cardinality(more)
    BY <1>3, <2>3, <2>5, SumEven
  <2>7. SumFunctionOnSet(share, to) = 0
    BY <1>2, <2>3, <2>4, <2>6
  <2> QED
    BY <1>2, <1>3, <2>3, <2>7
<1>5. CASE left # 0 /\ tmp # 0
  <2>0. left \in Nat /\ tmp \in Nat \ {0}
    BY <1>2, <1>5
  <2>1. PICK q \in Nat, rest \in 0 .. tmp - 1 :
          left = q * tmp + rest /\ q = left \div tmp /\ rest = left % tmp
    BY <2>0
  <2>2. PICK more \in SUBSET to :
          Cardinality(more) = rest /\ share = [p \in to |-> IF p \in more THEN q + 1 ELSE q]
    <3>1. share \in {[p \in to |-> IF p \in more THEN left \div tmp + 1 ELSE left \div tmp] :
                       more \in {S \in SUBSET to : Cardinality(S) = left % tmp}}
      <4>1. /\ budget - 1 = left /\ Receivers(n, relaySender) = to /\ Cardinality(to) = tmp
            /\ ~(left = 0 \/ tmp = 0)
        BY <1>1, <1>2, <1>5
      <4>2. share \in IF left = 0 \/ tmp = 0 THEN {[p \in to |-> 0]}
                     ELSE {[p \in to |-> IF p \in more THEN left \div tmp + 1 ELSE left \div tmp] :
                             more \in {S \in SUBSET to : Cardinality(S) = left % tmp}}
        BY <4>1 DEF Shares
      <4> QED
        BY <4>1, <4>2, Zenon
    <3> QED
      BY <2>1, <3>1
  <2>3. DOMAIN share = to /\ \A p \in to : share[p] = IF p \in more THEN q + 1 ELSE q
    BY <2>2
  <2>4. SumFunctionOnSet(share, to) = q * Cardinality(to) + Cardinality(more)
    BY <1>3, <2>2, <2>3, SumEven
  <2>5. SumFunctionOnSet(share, to) = left
    BY <1>2, <2>1, <2>2, <2>4
  <2> QED
    BY <1>2, <1>3, <2>3, <2>5
<1> QED
  BY <1>4, <1>5

LEMMA SharesSent ==
  ASSUME NEW n \in Node, NEW relaySender, NEW budget \in Nat \ {0},
         NEW share \in Shares(n, relaySender, budget), NEW org \in Node, NEW r \in Round,
         NEW bag, RequestBag(bag), NEW after, after = bag (+) Requests(n, share, org, r)
  PROVE  /\ RequestBag(after)
         /\ \A m \in DOMAIN after : m \in DOMAIN bag \/ m.round = r
         /\ Flying(after, r) \in Nat /\ Flying(bag, r) \in Nat
         /\ Flying(after, r) <= Flying(bag, r) + (budget - 1)
         /\ \A any : any # r => Flying(after, any) = Flying(bag, any)
<1>1. PICK D, to, R, A :
        /\ A = DOMAIN share
        /\ D = {p \in A : share[p] # 0}
        /\ to = [p \in D |-> [src |-> n, dst |-> p, org |-> org, budget |-> share[p], round |-> r]]
        /\ R = Image(to, D)
  OBVIOUS
<1>2. /\ IsFiniteSet(A) /\ A \subseteq Node
      /\ \A p \in A : share[p] \in Nat
      /\ SumFunctionOnSet(share, A) <= budget - 1
  BY <1>1, ShareSum
<1>3. D \subseteq A /\ IsFiniteSet(D) /\ \A p \in D : share[p] \in Nat \ {0}
  BY <1>1, <1>2, FS_Subset
<1>4. PICK f : f = [m \in R |-> m.budget]
  OBVIOUS
<1>5. \A p \in D : to[p] \in R /\ to[p].budget = share[p] /\ to[p].dst = p /\ to[p].round = r /\ to[p] \in Request
  BY <1>1, <1>2, <1>3 DEF Image, Request
<1>6. (\A p, q \in D : to[p] = to[q] => p = q) /\ \A p \in D : share[p] \in Nat /\ f[to[p]] = share[p]
  BY <1>3, <1>4, <1>5
<1>7. IsFiniteSet(R) /\ SumFunctionOnSet(f, R) = SumFunctionOnSet(share, D)
  <2>1. R = Image(to, D)
    BY <1>1
  <2> QED
    BY <1>3, <1>6, <2>1, SumImage
<1>8. SumFunctionOnSet(share, A) = SumFunctionOnSet(share, D) /\ SumFunctionOnSet(share, D) \in Nat
  BY <1>1, <1>2, <1>3, SumWhere, SumNat
<1>9. R \subseteq Request /\ (\A m \in R : m.round = r) /\ \A m \in R : f[m] = m.budget
  <2>1. \A m \in R : \E p \in D : m = to[p]
    <3>1. R = Image(to, D)
      BY <1>1
    <3> QED
      BY <3>1, Zenon DEF Image
  <2> QED
    BY <1>4, <1>5, <2>1
<1>10. Requests(n, share, org, r) = SetToBag(R)
  <2>1. R = {[src |-> n, dst |-> p, org |-> org, budget |-> share[p], round |-> r] :
               p \in {p \in DOMAIN share : share[p] # 0}}
    BY <1>1 DEF Image
  <2> QED
    BY <2>1 DEF Requests
<1>11. ASSUME NEW any
       PROVE  /\ RequestBag(after) /\ DOMAIN after = DOMAIN bag \cup R
              /\ Flying(after, any) \in Nat /\ Flying(bag, any) \in Nat
              /\ any = r => Flying(after, any) = Flying(bag, any) + SumFunctionOnSet(f, R)
              /\ any # r => Flying(after, any) = Flying(bag, any)
  <2>1. after = bag (+) SetToBag(R)
    BY <1>10
  <2> QED
    <3>1. Joined(bag, after, R, r, f, any)
      BY <1>7, <1>9, <2>1, RequestsJoin, Zenon
    <3> QED
      BY <3>1, Zenon DEF Joined
<1> QED
  BY <1>2, <1>7, <1>8, <1>9, <1>11

-----------------------------------------------------------------------------
(* The inductive invariant of BudgetKept: a round that was not sent out    *)
(* has nothing under way, so that its whole budget is still to come.       *)

FloodTypes ==
  /\ alive \in [Node -> BOOLEAN] /\ started \subseteq Round
  /\ seen \in [Node -> SUBSET Node]
  /\ spawned \in [Node -> [Node -> Nat]] /\ timers \in [Node -> [Node -> Nat]]
  /\ answered \in [Round -> SUBSET Node] /\ spent \in [Round -> Nat]

Unsent(r)   == spent[r] = 0 /\ \A m \in DOMAIN net : m.round # r
UnsentRounds == \A r \in Round : r \notin started => Unsent(r)

Kept(r)     == spent[r] + Flying(net, r) <= Budget[r]
RoundsKept  == \A r \in Round : Kept(r)

FloodInv == FloodTypes /\ RequestBag(net) /\ UnsentRounds /\ RoundsKept

LEMMA NothingFlies ==
  ASSUME NEW bag, RequestBag(bag), NEW r, \A m \in DOMAIN bag : m.round # r
  PROVE  Flying(bag, r) = 0
<1>1. PICK D, E, f : D = DOMAIN bag /\ E = {} /\ f = Costs(bag, r, D)
  OBVIOUS
<1>2. IsFiniteSet(D) /\ E \subseteq D /\ Flying(bag, r) = SumFunctionOnSet(f, D)
  BY <1>1, FlyingOver DEF RequestBag
<1>3. \A m \in D : f[m] \in Nat /\ f[m] = 0
  BY <1>1 DEF Costs, OfRound, BagToSet
<1>4. SumFunctionOnSet(f, D) = SumFunctionOnSet(f, E)
  BY <1>2, <1>3, SumWhere
<1> QED
  BY <1>1, <1>2, <1>4, SumNone

LEMMA FloodInit == Init => FloodInv
<1> SUFFICES ASSUME Init PROVE FloodInv
  OBVIOUS
<1>1. FloodTypes
  BY DEF Init, FloodTypes
<1>2. DOMAIN net = {}
  BY DEF Init, EmptyBag, SetToBag
<1>3. RequestBag(net)
  BY <1>2, FS_EmptySet DEF RequestBag
<1>4. \A r \in Round : spent[r] = 0 /\ Flying(net, r) = 0
  BY <1>2, <1>3, NothingFlies DEF Init
<1>5. UnsentRounds
  BY <1>2, <1>4 DEF UnsentRounds, Unsent
<1>6. RoundsKept
  BY <1>4, RoundAssumption DEF RoundsKept, Kept
<1> QED
  BY <1>1, <1>3, <1>5, <1>6 DEF FloodInv

LEMMA StartKeeps ==
  ASSUME FloodInv, NEW r \in Round, Start(r)
  PROVE  FloodInv'
<1>1. FloodTypes'
  BY DEF FloodInv, FloodTypes, Start
<1>2. PICK b \in Nat \ {0}, n \in Node : b = Budget[r] + 1 /\ n = Org[r] /\ b - 1 = Budget[r]
  BY RoundAssumption
<1>3. PICK share \in Shares(n, None, b) : net' = net (+) Requests(n, share, n, r)
  BY <1>2 DEF Start
<1>4. /\ RequestBag(net')
      /\ \A m \in DOMAIN net' : m \in DOMAIN net \/ m.round = r
      /\ Flying(net', r) \in Nat /\ Flying(net, r) \in Nat
      /\ Flying(net', r) <= Flying(net, r) + (b - 1)
      /\ \A any : any # r => Flying(net', any) = Flying(net, any)
  BY <1>3, SharesSent DEF FloodInv
<1>5. spent[r] = 0 /\ \A m \in DOMAIN net : m.round # r
  BY DEF FloodInv, UnsentRounds, Unsent, Start
<1>6. Flying(net, r) = 0
  BY <1>5, NothingFlies DEF FloodInv
<1>7. spent' = spent /\ started' = started \cup {r}
  BY DEF Start
<1>8. UnsentRounds'
  BY <1>4, <1>7 DEF FloodInv, UnsentRounds, Unsent
<1>9. ASSUME NEW any \in Round
      PROVE  spent'[any] + Flying(net', any) <= Budget[any]
  <2>1. CASE any = r
    BY <1>2, <1>4, <1>5, <1>6, <1>7, <2>1, RoundAssumption
  <2>2. CASE any # r
    BY <1>4, <1>7, <2>2 DEF FloodInv, RoundsKept, Kept
  <2> QED
    BY <2>1, <2>2
<1> QED
  BY <1>1, <1>4, <1>8, <1>9 DEF FloodInv, RoundsKept, Kept

(* A request is taken from the network, and another bag of its round, of   *)
(* less budget than its own, put in its place; it is handled at most once. *)
LEMMA TakingKeeps ==
  ASSUME FloodInv, FloodTypes', NEW m \in DOMAIN net, NEW mid, mid = net (-) SetToBag({m}),
         started' = started, RequestBag(net'), NEW more \in Nat,
         \A x \in DOMAIN net' : x \in DOMAIN mid \/ x.round = m.round,
         Flying(net', m.round) \in Nat, Flying(net', m.round) <= Flying(mid, m.round) + more,
         \A any : any # m.round => Flying(net', any) = Flying(mid, any),
         spent'[m.round] + more <= spent[m.round] + m.budget,
         \A r \in Round : r # m.round => spent'[r] = spent[r]
  PROVE  FloodInv'
<1>1. \A r : Taken(net, mid, m, r)
  BY RequestLeaves, Zenon DEF FloodInv
<1>2. m.round \in Round /\ m.budget \in Nat \ {0} /\ m.round \in started
  BY DEF FloodInv, RequestBag, Request, UnsentRounds, Unsent
<1>3. UnsentRounds'
  <2>1. DOMAIN mid \subseteq DOMAIN net
    BY <1>1 DEF Taken
  <2> QED
    BY <1>2, <2>1 DEF FloodInv, UnsentRounds, Unsent
<1>4. ASSUME NEW r \in Round
      PROVE  spent'[r] + Flying(net', r) <= Budget[r]
  <2>1. spent[r] + Flying(net, r) <= Budget[r] /\ spent[r] \in Nat /\ spent'[r] \in Nat /\ Budget[r] \in Nat
    BY RoundAssumption DEF FloodInv, FloodTypes, RoundsKept, Kept
  <2>2. CASE r = m.round
    <3>1. /\ Flying(net, r) = Flying(mid, r) + m.budget /\ Flying(mid, r) \in Nat
          /\ Flying(net', r) \in Nat /\ Flying(net', r) <= Flying(mid, r) + more
          /\ spent'[r] + more <= spent[r] + m.budget
      BY <1>1, <2>2 DEF Taken
    <3> QED
      BY <1>2, <2>1, <3>1
  <2>3. CASE r # m.round
    <3>1. Flying(net', r) = Flying(net, r) /\ spent'[r] = spent[r]
      BY <1>1, <2>3 DEF Taken
    <3> QED
      BY <2>1, <3>1
  <2> QED
    BY <2>2, <2>3
<1> QED
  BY <1>3, <1>4 DEF FloodInv, RoundsKept, Kept

(* Nothing is put in its place.                                            *)
LEMMA LeavingKeeps ==
  ASSUME FloodInv, FloodTypes', NEW m \in DOMAIN net, net' = net (-) SetToBag({m}), started' = started,
         spent'[m.round] <= spent[m.round] + 1,
         \A r \in Round : r # m.round => spent'[r] = spent[r]
  PROVE  FloodInv'
<1>1. PICK mid : mid = net (-) SetToBag({m})
  OBVIOUS
<1>2. net' = mid
  BY <1>1
<1>3. Taken(net, mid, m, m.round)
  BY <1>1, RequestLeaves, Zenon DEF FloodInv
<1>4. m.round \in Round /\ m.budget \in Nat \ {0}
  BY DEF FloodInv, RequestBag, Request
<1>5. PICK more \in Nat : more = 0
  OBVIOUS
<1>6. /\ spent'[m.round] + more <= spent[m.round] + m.budget
      /\ Flying(net', m.round) \in Nat /\ Flying(net', m.round) <= Flying(mid, m.round) + more
  <2>1. spent[m.round] \in Nat /\ spent'[m.round] \in Nat
    BY <1>4 DEF FloodInv, FloodTypes
  <2> QED
    BY <1>2, <1>3, <1>4, <1>5, <2>1 DEF Taken
<1>7. RequestBag(net')
  BY <1>2, <1>3 DEF Taken
<1> QED
  BY <1>1, <1>2, <1>6, <1>7, TakingKeeps

LEMMA IgnoreKeeps ==
  ASSUME FloodInv, NEW n \in Node, NEW m \in DOMAIN net, Ignore(n, m)
  PROVE  FloodInv'
<1>1. m.round \in Round /\ m.org \in Node
  BY DEF FloodInv, RequestBag, Request
<1>2. FloodTypes' /\ net' = net (-) SetToBag({m}) /\ started' = started /\ spent' = spent
  BY DEF FloodInv, FloodTypes, Ignore
<1>3. spent[m.round] \in Nat
  BY <1>1 DEF FloodInv, FloodTypes
<1>4. spent'[m.round] <= spent[m.round] + 1
  BY <1>2, <1>3
<1> QED
  BY <1>2, <1>4, LeavingKeeps

LEMMA LoseKeeps == ASSUME FloodInv, Lose PROVE FloodInv'
<1>1. PICK m \in DOMAIN net : net' = net (-) SetToBag({m})
  BY DEF Lose, BagToSet
<1>2. FloodTypes' /\ started' = started /\ spent' = spent
  BY DEF FloodInv, FloodTypes, Lose
<1>3. spent[m.round] \in Nat
  BY DEF FloodInv, FloodTypes, RequestBag, Request
<1>4. spent'[m.round] <= spent[m.round] + 1
  BY <1>2, <1>3
<1> QED
  BY <1>1, <1>2, <1>4, LeavingKeeps

LEMMA HandleKeeps ==
  ASSUME FloodInv, NEW n \in Node, NEW m \in DOMAIN net, Handle(n, m)
  PROVE  FloodInv'
<1>1. /\ m.round \in Round /\ m.org \in Node /\ m.budget \in Nat \ {0} /\ m.src \in Node
      /\ spent[m.round] \in Nat
  BY DEF FloodInv, FloodTypes, RequestBag, Request
<1>2. started' = started /\ spent' = [spent EXCEPT ![m.round] = IF @ > Budget[m.round] THEN @ ELSE @ + 1]
  BY DEF Handle
<1>3. FloodTypes'
  <2>1. spawned' \in [Node -> [Node -> Nat]]
    BY <1>1 DEF FloodInv, FloodTypes, Handle
  <2>2. spent' \in [Round -> Nat]
    BY <1>1, <1>2 DEF FloodInv, FloodTypes
  <2>3. alive' \in [Node -> BOOLEAN]
    BY DEF FloodInv, FloodTypes, Handle
  <2>4. answered' \in [Round -> SUBSET Node]
    <3>1. answered \in [Round -> SUBSET Node] /\ answered[m.round] \in SUBSET Node
      BY <1>1 DEF FloodInv, FloodTypes
    <3>2. PICK A \in SUBSET Node :
            A = IF n \in Holders THEN answered[m.round] \cup {n} ELSE answered[m.round]
      BY <3>1
    <3>3. answered' = answered \/ answered' = [answered EXCEPT ![m.round] = A]
      BY <3>2 DEF Handle
    <3> QED
      BY <3>1, <3>3
  <2> QED
    BY <2>1, <2>2, <2>3, <2>4 DEF FloodInv, FloodTypes, Handle
<1>4. spent'[m.round] <= spent[m.round] + 1 /\ \A r \in Round : r # m.round => spent'[r] = spent[r]
  BY <1>1, <1>2 DEF FloodInv, FloodTypes
<1>5. CASE net' = net (-) SetToBag({m})
  BY <1>2, <1>3, <1>4, <1>5, LeavingKeeps
<1>6. CASE \E share \in Shares(n, m.src, m.budget) :
             net' = (net (-) SetToBag({m})) (+) Requests(n, share, m.org, m.round)
  <2>1. PICK mid : mid = net (-) SetToBag({m})
    OBVIOUS
  <2>2. PICK share \in Shares(n, m.src, m.budget) : net' = mid (+) Requests(n, share, m.org, m.round)
    BY <1>6, <2>1
  <2>3. RequestBag(mid)
    <3>1. Taken(net, mid, m, m.round)
      BY <2>1, RequestLeaves, Zenon DEF FloodInv
    <3> QED
      BY <3>1 DEF Taken
  <2>4. PICK r \in Round, org \in Node, b \in Nat \ {0}, src \in Node :
          r = m.round /\ org = m.org /\ b = m.budget /\ src = m.src
    BY <1>1
  <2>5. share \in Shares(n, src, b) /\ net' = mid (+) Requests(n, share, org, r)
    BY <2>2, <2>4
  <2>6. /\ RequestBag(net')
        /\ \A x \in DOMAIN net' : x \in DOMAIN mid \/ x.round = r
        /\ Flying(net', r) \in Nat /\ Flying(mid, r) \in Nat
        /\ Flying(net', r) <= Flying(mid, r) + (b - 1)
        /\ \A any : any # r => Flying(net', any) = Flying(mid, any)
    BY <2>3, <2>5, SharesSent
  <2>7. PICK more \in Nat : more = b - 1
    OBVIOUS
  <2>8. spent'[m.round] + more <= spent[m.round] + m.budget
    <3>1. spent'[m.round] \in Nat
      BY <1>1, <1>3 DEF FloodTypes
    <3> QED
      BY <1>1, <1>4, <2>4, <2>7, <3>1
  <2> QED
    BY <1>2, <1>3, <1>4, <2>1, <2>4, <2>6, <2>7, <2>8, TakingKeeps
<1> QED
  BY <1>5, <1>6 DEF Handle

LEMMA TimerKeeps ==
  ASSUME FloodInv, NEW n \in Node, NEW o \in Node, Register(n, o) \/ Expire(n, o)
  PROVE  FloodInv'
<1>1. net' = net /\ started' = started /\ spent' = spent /\ answered' = answered /\ alive' = alive
  BY DEF Register, Expire
<1>2. spawned[n][o] \in Nat /\ timers[n][o] \in Nat
  BY DEF FloodInv, FloodTypes
<1>3. FloodTypes'
  <2>1. CASE Register(n, o)
    <3>1. spawned' \in [Node -> [Node -> Nat]] /\ timers' \in [Node -> [Node -> Nat]]
      BY <1>2, <2>1 DEF FloodInv, FloodTypes, Register
    <3>2. seen' \in [Node -> SUBSET Node]
      BY <2>1 DEF FloodInv, FloodTypes, Register
    <3> QED
      BY <1>1, <3>1, <3>2 DEF FloodInv, FloodTypes
  <2>2. CASE Expire(n, o)
    <3>1. spawned' \in [Node -> [Node -> Nat]] /\ timers' \in [Node -> [Node -> Nat]]
      BY <1>2, <2>2 DEF FloodInv, FloodTypes, Expire
    <3>2. seen' \in [Node -> SUBSET Node]
      BY <2>2 DEF FloodInv, FloodTypes, Expire
    <3> QED
      BY <1>1, <3>1, <3>2 DEF FloodInv, FloodTypes
  <2> QED
    BY <2>1, <2>2
<1> QED
  BY <1>1, <1>3 DEF FloodInv, UnsentRounds, Unsent, RoundsKept, Kept

LEMMA FloodStep == FloodInv /\ [Next]_vars => FloodInv'
<1> SUFFICES ASSUME FloodInv, [Next]_vars PROVE FloodInv'
  OBVIOUS
<1>1. CASE \E r \in Round : Start(r)
  BY <1>1, StartKeeps
<1>2. CASE \E n \in Node : Receive(n)
  <2>1. PICK n \in Node, m \in DOMAIN net : Ignore(n, m) \/ Handle(n, m)
    BY <1>2 DEF Receive, BagToSet
  <2> QED
    BY <2>1, IgnoreKeeps, HandleKeeps
<1>3. CASE \E n \in Node : \E o \in Node : Register(n, o) \/ Expire(n, o)
  BY <1>3, TimerKeeps
<1>4. CASE Lose
  BY <1>4, LoseKeeps
<1>5. CASE UNCHANGED vars
  BY <1>5 DEF vars, FloodInv, FloodTypes, UnsentRounds, Unsent, RoundsKept, Kept
<1> QED
  BY <1>1, <1>2, <1>3, <1>4, <1>5, Zenon DEF Next

LEMMA FloodKeeps == FloodInv => BudgetKept
<1> SUFFICES ASSUME FloodInv PROVE BudgetKept
  OBVIOUS
<1>1. TypeOK
  BY DEF FloodInv, FloodTypes, TypeOK, RequestBag, BagToSet
<1>2. ASSUME NEW r \in Round
      PROVE  spent[r] + InFlight(r) <= Budget[r]
  <2>1. spent[r] + Flying(net, r) <= Budget[r]
    BY DEF FloodInv, RoundsKept, Kept
  <2>2. InFlight(r) = Flying(net, r)
    BY Zenon DEF InFlight, Flying, OfRound
  <2> QED
    BY <2>1, <2>2
<1> QED
  BY <1>1, <1>2 DEF BudgetKept

(* No round of a search costs more than the budget it was sent out with:   *)
(* handleSearchRequest and distributeSearch (file_search.go:54-158) pass   *)
(* on less than they got, on every graph, with every loss and repetition.  *)
THEOREM BudgetsHold == Spec => []BudgetKept
<1>1. Spec => []FloodInv
  BY FloodInit, FloodStep, PTL DEF Spec
<1> QED
  BY <1>1, FloodKeeps, PTL

-----------------------------------------------------------------------------
(* More about sums of integers. *)

LEMMA SumScale ==
  ASSUME NEW D, IsFiniteSet(D), NEW f, NEW h, NEW c \in Int,
         \A x \in D : f[x] \in Int /\ h[x] = c * f[x]
  PROVE  SumFunctionOnSet(h, D) = c * SumFunctionOnSet(f, D)
<1> DEFINE P == {s \in SUBSET D : SumFunctionOnSet(h, s) = c * SumFunctionOnSet(f, s)}
<1>1. {} \in P
  <2>1. c * 0 = 0
    OBVIOUS
  <2> QED
    BY <2>1, SumNone
<1>2. ASSUME NEW s \in SUBSET D, s # {}, \A x \in s : s \ {x} \in P
      PROVE  s \in P
  <2>1. PICK y \in s : TRUE
    BY <1>2
  <2>2. PICK r : r = s \ {y}
    OBVIOUS
  <2>3. IsFiniteSet(s) /\ IsFiniteSet(r) /\ r \in SUBSET D
    BY <2>2, FS_Subset
  <2>4. \A x \in s : f[x] \in Int /\ h[x] \in Int
    OBVIOUS
  <2>5. PICK i \in Int, j \in Int : i = SumFunctionOnSet(f, r) /\ j = f[y]
    BY <2>2, <2>3, <2>4, SumInt
  <2>6. SumFunctionOnSet(h, s) = h[y] + SumFunctionOnSet(h, r) /\ SumFunctionOnSet(f, s) = j + i
    BY <2>2, <2>3, <2>4, <2>5, SumOneOut
  <2>7. SumFunctionOnSet(h, r) = c * i /\ h[y] = c * j
    BY <1>2, <2>1, <2>2, <2>5
  <2>8. c * j + c * i = c * (j + i)
    OBVIOUS
  <2> QED
    BY <2>6, <2>7, <2>8
<1>3. \A s \in SUBSET D : s \in P
  <2> HIDE DEF P
  <2> QED
    BY <1>1, <1>2, SubsetsUp
<1> QED
  BY <1>3

(* Only one value is not 0. *)
LEMMA SumSingle ==
  ASSUME NEW D, IsFiniteSet(D), NEW f, NEW z \in D, f[z] \in Int, \A x \in D : x # z => f[x] = 0
  PROVE  SumFunctionOnSet(f, D) = f[z]
<1>1. PICK E : E = {z}
  OBVIOUS
<1>2. E \subseteq D /\ IsFiniteSet(E) /\ E \ {z} = {}
  BY <1>1, FS_Subset
<1>3. \A x \in D : f[x] \in Int
  OBVIOUS
<1>4. SumFunctionOnSet(f, D) = SumFunctionOnSet(f, E)
  BY <1>1, <1>2, <1>3, SumWhere
<1>5. SumFunctionOnSet(f, E) = f[z] + SumFunctionOnSet(f, E \ {z})
  BY <1>1, <1>2, <1>3, SumOneOut
<1>6. SumFunctionOnSet(f, E \ {z}) = 0
  BY <1>2, SumNone
<1>7. f[z] + 0 = f[z]
  OBVIOUS
<1> QED
  BY <1>4, <1>5, <1>6, <1>7

-----------------------------------------------------------------------------
(* Matrices with r rows and c columns, by their entries. *)

Vec(n) == [1 .. n -> Int]
Mat(m, r, c) == r \in Nat \ {0} /\ c \in Nat \ {0} /\ m \in [1 .. r -> Vec(c)]

LEMMA MatSize ==
  ASSUME NEW m, NEW r \in Nat, NEW c \in Nat, Mat(m, r, c)
  PROVE  Rows(m) = r /\ Cols(m) = c /\ \A i \in 1 .. r, j \in 1 .. c : m[i][j] \in Int
<1>1. m \in [1 .. r -> Vec(c)] /\ r \in Nat \ {0} /\ c \in Nat \ {0} /\ m[1] \in Vec(c)
  BY DEF Mat
<1>2. Len(m) = r
  BY <1>1
<1>3. Len(m[1]) = c
  BY <1>1 DEF Vec
<1> QED
  BY <1>1, <1>2, <1>3 DEF Rows, Cols, Vec

LEMMA MatIs ==
  ASSUME NEW m, IsMatrix(m)
  PROVE  Mat(m, Rows(m), Cols(m))
BY DEF IsMatrix, Mat, Vec

LEMMA Fin == \A n \in Nat : IsFiniteSet(1 .. n)
BY FS_Interval

(* The product of two vectors, entry by entry. *)
Products(u, v, n) == [i \in 1 .. n |-> u[i] * v[i]]
Dot(u, v, n) == SumFunctionOnSet(Products(u, v, n), 1 .. n)

LEMMA InnerIs ==
  ASSUME NEW n, NEW u, DOMAIN u = 1 .. n, NEW v
  PROVE  InnerProduct(u, v) = Dot(u, v, n)
BY DEF InnerProduct, Dot, Products, SumFunction

LEMMA DotInt ==
  ASSUME NEW n \in Nat, NEW u, NEW v, \A i \in 1 .. n : u[i] \in Int /\ v[i] \in Int
  PROVE  Dot(u, v, n) \in Int
<1>1. PICK p : p = Products(u, v, n)
  OBVIOUS
<1>2. \A i \in 1 .. n : p[i] \in Int
  BY <1>1 DEF Products
<1> QED
  BY <1>1, <1>2, Fin, SumInt DEF Dot

LEMMA ColIs ==
  ASSUME NEW m, NEW r \in Nat, NEW c \in Nat, Mat(m, r, c), NEW j \in 1 .. c
  PROVE  ColAt(m, j) \in Vec(r) /\ \A i \in 1 .. r : ColAt(m, j)[i] = m[i][j]
BY MatSize DEF ColAt, Vec

LEMMA MulIs ==
  ASSUME NEW a, NEW b, NEW r \in Nat, NEW k \in Nat, NEW c \in Nat, Mat(a, r, k), Mat(b, k, c)
  PROVE  /\ Mat(Mul(a, b), r, c)
         /\ \A i \in 1 .. r, j \in 1 .. c : Mul(a, b)[i][j] = Dot(a[i], ColAt(b, j), k)
<1>1. Rows(a) = r /\ Cols(b) = c
  BY MatSize
<1>2. ASSUME NEW i \in 1 .. r, NEW j \in 1 .. c
      PROVE  /\ InnerProduct(RowAt(a, i), ColAt(b, j)) = Dot(a[i], ColAt(b, j), k)
             /\ Dot(a[i], ColAt(b, j), k) \in Int
  <2>1. PICK u \in Vec(k), v \in Vec(k) : u = a[i] /\ v = ColAt(b, j)
    BY ColIs DEF Mat
  <2>2. InnerProduct(u, v) = Dot(u, v, k) /\ Dot(u, v, k) \in Int
    BY <2>1, InnerIs, DotInt DEF Vec, Mat
  <2> QED
    BY <2>1, <2>2 DEF RowAt
<1> QED
  BY <1>1, <1>2, ZenonT(40) DEF Mul, Mat, Vec

LEMMA AddIs ==
  ASSUME NEW a, NEW b, NEW r \in Nat, NEW c \in Nat, Mat(a, r, c), Mat(b, r, c)
  PROVE  Mat(Add(a, b), r, c) /\ \A i \in 1 .. r, j \in 1 .. c : Add(a, b)[i][j] = a[i][j] + b[i][j]
<1>1. Rows(a) = r /\ Cols(a) = c /\ \A i \in 1 .. r, j \in 1 .. c : a[i][j] \in Int /\ b[i][j] \in Int
  BY MatSize
<1>2. Add(a, b) = [i \in 1 .. r |-> [j \in 1 .. c |-> a[i][j] + b[i][j]]]
  BY <1>1 DEF Add, EachEntry
<1>3. \A i \in 1 .. r, j \in 1 .. c : a[i][j] + b[i][j] \in Int
  BY <1>1
<1> QED
  BY <1>2, <1>3 DEF Mat, Vec

LEMMA SubIs ==
  ASSUME NEW a, NEW b, NEW r \in Nat, NEW c \in Nat, Mat(a, r, c), Mat(b, r, c)
  PROVE  Mat(Sub(a, b), r, c) /\ \A i \in 1 .. r, j \in 1 .. c : Sub(a, b)[i][j] = a[i][j] - b[i][j]
<1>1. Rows(a) = r /\ Cols(a) = c /\ \A i \in 1 .. r, j \in 1 .. c : a[i][j] \in Int /\ b[i][j] \in Int
  BY MatSize
<1>2. Sub(a, b) = [i \in 1 .. r |-> [j \in 1 .. c |-> a[i][j] - b[i][j]]]
  BY <1>1 DEF Sub, EachEntry
<1>3. \A i \in 1 .. r, j \in 1 .. c : a[i][j] - b[i][j] \in Int
  BY <1>1
<1> QED
  BY <1>2, <1>3 DEF Mat, Vec

LEMMA ScaledIs ==
  ASSUME NEW a, NEW r \in Nat, NEW c \in Nat, Mat(a, r, c), NEW k \in Int
  PROVE  Mat(MulConstant(a, k), r, c) /\ \A i \in 1 .. r, j \in 1 .. c : MulConstant(a, k)[i][j] = k * a[i][j]
<1>1. Rows(a) = r /\ Cols(a) = c /\ \A i \in 1 .. r, j \in 1 .. c : a[i][j] \in Int /\ k * a[i][j] \in Int
  BY MatSize
<1> QED
  BY <1>1 DEF MulConstant, EachEntry, Mat, Vec

LEMMA TransposeIs ==
  ASSUME NEW a, NEW r \in Nat, NEW c \in Nat, Mat(a, r, c)
  PROVE  /\ Mat(Transpose(a), c, r)
         /\ \A i \in 1 .. r, j \in 1 .. c : Transpose(a)[j][i] = a[i][j]
         /\ \A j \in 1 .. c : Transpose(a)[j] = ColAt(a, j)
<1>1. Cols(a) = c
  BY MatSize
<1>2. Transpose(a) = [j \in 1 .. c |-> ColAt(a, j)]
  BY <1>1 DEF Transpose
<1>3. \A j \in 1 .. c : ColAt(a, j) \in Vec(r) /\ \A i \in 1 .. r : ColAt(a, j)[i] = a[i][j]
  BY ColIs
<1>4. r \in Nat \ {0} /\ c \in Nat \ {0}
  BY DEF Mat
<1> QED
  BY <1>2, <1>3, <1>4 DEF Mat

LEMMA SliceIs ==
  ASSUME NEW n \in Nat \ {0}, NEW v \in Vec(n)
  PROVE  /\ Mat(SliceToMat(v), n, 1)
         /\ \A i \in 1 .. n : SliceToMat(v)[i][1] = v[i]
         /\ ColAt(SliceToMat(v), 1) = v
<1>1. SliceToMat(v) = [i \in 1 .. n |-> <<v[i]>>] /\ \A i \in 1 .. n : v[i] \in Int
  BY DEF SliceToMat, Vec
<1>2. \A x \in Int : <<x>> \in Vec(1) /\ <<x>>[1] = x
  BY DEF Vec
<1>3. Mat(SliceToMat(v), n, 1) /\ \A i \in 1 .. n : SliceToMat(v)[i][1] = v[i]
  BY <1>1, <1>2 DEF Mat
<1>4. ColAt(SliceToMat(v), 1) = v
  <2>1. PICK m : m = SliceToMat(v)
    OBVIOUS
  <2>2. ColAt(m, 1) \in Vec(n) /\ \A i \in 1 .. n : ColAt(m, 1)[i] = v[i]
    BY <1>3, <2>1, ColIs
  <2> QED
    BY <2>1, <2>2 DEF Vec
<1> QED
  BY <1>3, <1>4

-----------------------------------------------------------------------------
(* Products of vectors of n integers. *)

LEMMA DotType ==
  ASSUME NEW n \in Nat, NEW u \in Vec(n), NEW v \in Vec(n)
  PROVE  Dot(u, v, n) \in Int
BY DotInt DEF Vec

LEMMA DotSame ==
  ASSUME NEW n \in Nat, NEW u \in Vec(n), NEW v \in Vec(n)
  PROVE  Dot(u, v, n) = Dot(v, u, n)
<1>1. \A i \in 1 .. n : u[i] * v[i] = v[i] * u[i]
  BY DEF Vec
<1>2. Products(u, v, n) = Products(v, u, n)
  BY <1>1 DEF Products
<1> QED
  BY <1>2 DEF Dot

LEMMA DotPlus ==
  ASSUME NEW n \in Nat, NEW u \in Vec(n), NEW v \in Vec(n), NEW e \in Vec(n), NEW h \in Vec(n),
         \A i \in 1 .. n : h[i] = v[i] + e[i]
  PROVE  Dot(u, h, n) = Dot(u, v, n) + Dot(u, e, n)
<1>1. PICK f, g, k : f = Products(u, v, n) /\ g = Products(u, e, n) /\ k = Products(u, h, n)
  OBVIOUS
<1>2. \A a, b, c \in Int : a * (b + c) = a * b + a * c /\ a * b \in Int /\ a * c \in Int
  OBVIOUS
<1>3. \A i \in 1 .. n : f[i] \in Int /\ g[i] \in Int /\ k[i] = f[i] + g[i]
  BY <1>1, <1>2 DEF Products, Vec
<1> QED
  BY <1>1, <1>3, Fin, SumPlus DEF Dot

(* One entry is different. *)
Moved(h, v, z, c, n) == h[z] = v[z] + c /\ \A i \in 1 .. n : i # z => h[i] = v[i]

LEMMA DotChange ==
  ASSUME NEW n \in Nat, NEW u \in Vec(n), NEW v \in Vec(n), NEW h \in Vec(n), NEW z \in 1 .. n, NEW c \in Int,
         Moved(h, v, z, c, n)
  PROVE  Dot(u, h, n) = Dot(u, v, n) + u[z] * c
<1>1. PICK f, k : f = Products(u, v, n) /\ k = Products(u, h, n)
  OBVIOUS
<1>2. \A a, b, d \in Int : a * (b + d) = a * b + a * d /\ a * b \in Int /\ a * d \in Int
  OBVIOUS
<1>3. \A i \in 1 .. n : f[i] \in Int /\ k[i] \in Int /\ (i # z => f[i] = k[i])
  BY <1>1, <1>2 DEF Products, Vec, Moved
<1>4. PICK d \in Int : d = u[z] * c
  BY DEF Vec
<1>5. k[z] = f[z] + d
  BY <1>1, <1>2, <1>4 DEF Products, Vec, Moved
<1>6. SumFunctionOnSet(k, 1 .. n) = SumFunctionOnSet(f, 1 .. n) + d
  <2>1. PICK D : D = 1 .. n
    OBVIOUS
  <2>2. IsFiniteSet(D) /\ d \in Int
    BY <1>4, <2>1, Fin
  <2>3. PICK y \in D : y = z
    BY <2>1
  <2>4. k[y] = f[y] + d /\ \A i \in D : k[i] \in Int /\ f[i] \in Int /\ (i # y => f[i] = k[i])
    BY <1>3, <1>5, <2>1, <2>3
  <2>5. SumFunctionOnSet(k, D) = SumFunctionOnSet(f, D) + d
    <3>1. y \in D
      BY <2>3
    <3> QED
      BY <2>2, <2>4, <3>1, SumChange
  <2> QED
    BY <2>1, <2>5
<1> QED
  BY <1>1, <1>4, <1>6 DEF Dot

(* |v - e|^2 = |v|^2 - 2 v e + |e|^2                                       *)
LEMMA SquareLess ==
  ASSUME NEW n \in Nat, NEW v \in Vec(n), NEW e \in Vec(n), NEW h \in Vec(n),
         \A i \in 1 .. n : h[i] = v[i] - e[i]
  PROVE  Dot(h, h, n) = Dot(v, v, n) - 2 * Dot(v, e, n) + Dot(e, e, n)
<1>1. \A i \in 1 .. n : v[i] = h[i] + e[i]
  BY DEF Vec
<1>2. Dot(h, v, n) = Dot(h, h, n) + Dot(h, e, n)
  BY <1>1, DotPlus
<1>3. Dot(v, v, n) = Dot(v, h, n) + Dot(v, e, n)
  BY <1>1, DotPlus
<1>4. Dot(e, v, n) = Dot(e, h, n) + Dot(e, e, n)
  BY <1>1, DotPlus
<1>5. Dot(e, v, n) = Dot(v, e, n) /\ Dot(e, h, n) = Dot(h, e, n) /\ Dot(v, h, n) = Dot(h, v, n)
  BY DotSame
<1>6. Dot(h, h, n) \in Int /\ Dot(h, e, n) \in Int /\ Dot(e, e, n) \in Int /\ Dot(v, e, n) \in Int
  BY DotType
<1> QED
  BY <1>2, <1>3, <1>4, <1>5, <1>6

(* |v + e|^2 - |v - e|^2 = 4 e v                                           *)
LEMMA SquaresApart ==
  ASSUME NEW n \in Nat, NEW v \in Vec(n), NEW e \in Vec(n), NEW p \in Vec(n), NEW m \in Vec(n),
         \A i \in 1 .. n : p[i] = v[i] + e[i] /\ m[i] = v[i] - e[i]
  PROVE  Dot(p, p, n) - Dot(m, m, n) = 4 * Dot(e, v, n)
<1>1. Dot(m, m, n) = Dot(v, v, n) - 2 * Dot(v, e, n) + Dot(e, e, n)
  BY SquareLess
<1>2. \A i \in 1 .. n : v[i] = p[i] - e[i]
  BY DEF Vec
<1>3. Dot(v, v, n) = Dot(p, p, n) - 2 * Dot(p, e, n) + Dot(e, e, n)
  BY <1>2, SquareLess
<1>4. Dot(e, p, n) = Dot(e, v, n) + Dot(e, e, n)
  BY DotPlus
<1>5. Dot(e, p, n) = Dot(p, e, n) /\ Dot(v, e, n) = Dot(e, v, n)
  BY DotSame
<1>6. Dot(p, p, n) \in Int /\ Dot(e, v, n) \in Int /\ Dot(e, e, n) \in Int /\ Dot(v, v, n) \in Int
  BY DotType
<1> QED
  BY <1>1, <1>3, <1>4, <1>5, <1>6

(* m^T v                                                                   *)
Backwards(m, v, r, k) == [j \in 1 .. k |-> Dot(ColAt(m, j), v, r)]

LEMMA BackwardsIs ==
  ASSUME NEW m, NEW r \in Nat, NEW k \in Nat, Mat(m, r, k), NEW v \in Vec(r)
  PROVE  Backwards(m, v, r, k) \in Vec(k)
<1>1. \A j \in 1 .. k : Dot(ColAt(m, j), v, r) \in Int
  BY ColIs, DotType DEF Mat
<1> QED
  BY <1>1 DEF Backwards, Vec

-----------------------------------------------------------------------------
(* The linear model. *)

(* The instances of LinearModel and Layers take matrices.go as it is.      *)
LEMMA LinearOps ==
  /\ \A f, s : Linear!SumFunctionOnSet(f, s) = SumFunctionOnSet(f, s)
  /\ \A f : Linear!SumFunction(f) = SumFunction(f)
  /\ \A u, v : Linear!InnerProduct(u, v) = InnerProduct(u, v)
  /\ \A m : Linear!Rows(m) = Rows(m) /\ Linear!Cols(m) = Cols(m) /\ Linear!Transpose(m) = Transpose(m)
  /\ \A m : Linear!IsMatrix(m) <=> IsMatrix(m)
  /\ \A m, j : Linear!ColAt(m, j) = ColAt(m, j)
  /\ \A a, b : Linear!Mul(a, b) = Mul(a, b) /\ Linear!Sub(a, b) = Sub(a, b) /\ Linear!Add(a, b) = Add(a, b)
  /\ \A m, k : Linear!MulConstant(m, k) = MulConstant(m, k)
  /\ \A v : Linear!SliceToMat(v) = SliceToMat(v)
<1>1. \A f, s : Linear!SumFunctionOnSet(f, s) = SumFunctionOnSet(f, s)
  BY DEF Linear!SumFunctionOnSet, Linear!FoldFunctionOnSet, Linear!MapThenFoldSet,
         SumFunctionOnSet, FoldFunctionOnSet, MapThenFoldSet
<1>2. \A f : Linear!SumFunction(f) = SumFunction(f)
  BY <1>1 DEF Linear!SumFunction, SumFunction
<1>3. \A u, v : Linear!InnerProduct(u, v) = InnerProduct(u, v)
  BY <1>2 DEF Linear!InnerProduct, InnerProduct
<1>4. \A m : Linear!Rows(m) = Rows(m) /\ Linear!Cols(m) = Cols(m)
  BY DEF Linear!Rows, Rows, Linear!Cols, Cols
<1>5. \A m : Linear!IsMatrix(m) <=> IsMatrix(m)
  BY <1>4 DEF Linear!IsMatrix, IsMatrix
<1>6. \A m, j : Linear!ColAt(m, j) = ColAt(m, j)
  BY <1>4 DEF Linear!ColAt, ColAt
<1>7. \A m : Linear!Transpose(m) = Transpose(m)
  BY <1>4, <1>6 DEF Linear!Transpose, Transpose
<1>8. \A a, b : Linear!Mul(a, b) = Mul(a, b)
  BY <1>3, <1>4, <1>6 DEF Linear!Mul, Mul, Linear!RowAt, RowAt
<1>9. \A a, b : Linear!Sub(a, b) = Sub(a, b)
  BY <1>4 DEF Linear!Sub, Sub, Linear!EachEntry, EachEntry
<1>10. \A a, b : Linear!Add(a, b) = Add(a, b)
  BY <1>4 DEF Linear!Add, Add, Linear!EachEntry, EachEntry
<1>11. \A m, k : Linear!MulConstant(m, k) = MulConstant(m, k)
  BY <1>4 DEF Linear!MulConstant, MulConstant, Linear!EachEntry, EachEntry
<1>12. \A v : Linear!SliceToMat(v) = SliceToMat(v)
  BY DEF Linear!SliceToMat, SliceToMat
<1> QED
  BY <1>1, <1>2, <1>3, <1>4, <1>5, <1>6, <1>7, <1>8, <1>9, <1>10, <1>11, <1>12, Zenon

(* Everything fits, and the weights are bounded.                           *)
Bounded == -MaxWeight .. MaxWeight

LinearInv ==
  /\ samples \in Features
  /\ outputs \in [1 .. Rows(samples) -> Value]
  /\ weights \in [1 .. Cols(samples) -> Bounded]
  /\ reg \in Regularization /\ lambda \in Lambda

LEMMA LinearFacts ==
  ASSUME Linear!ConstantsOK, LinearInv
  PROVE  /\ Mat(samples, Rows(samples), Cols(samples))
         /\ Rows(samples) \in Nat \ {0} /\ Cols(samples) \in Nat \ {0}
         /\ outputs \in Vec(Rows(samples)) /\ weights \in Vec(Cols(samples))
         /\ lambda \in Nat /\ MaxWeight \in Nat
<1>1. IsMatrix(samples)
  BY LinearOps, Zenon DEF LinearInv, Linear!ConstantsOK
<1>2. Value \subseteq Int /\ Bounded \subseteq Int /\ lambda \in Nat /\ MaxWeight \in Nat
  BY DEF LinearInv, Linear!ConstantsOK, Bounded
<1>3. outputs \in Vec(Rows(samples)) /\ weights \in Vec(Cols(samples))
  BY <1>2 DEF LinearInv, Vec
<1> QED
  BY <1>1, <1>2, <1>3, MatIs DEF IsMatrix

(* x v - y, for the data set.                                              *)
Misses(v) == [i \in 1 .. Rows(samples) |-> Dot(samples[i], v, Cols(samples)) - outputs[i]]

LEMMA MissesAre ==
  ASSUME Linear!ConstantsOK, LinearInv, NEW v \in Vec(Cols(samples))
  PROVE  /\ Misses(v) \in Vec(Rows(samples))
         /\ Linear!Residual(v) = SliceToMat(Misses(v))
<1>1. PICK n, d : n = Rows(samples) /\ d = Cols(samples)
  OBVIOUS
<1>2. Mat(samples, n, d) /\ n \in Nat \ {0} /\ d \in Nat \ {0} /\ outputs \in Vec(n) /\ v \in Vec(d)
  BY <1>1, LinearFacts
<1>3. PICK a, o : a = SliceToMat(v) /\ o = SliceToMat(outputs)
  OBVIOUS
<1>4. Mat(a, d, 1) /\ ColAt(a, 1) = v /\ Mat(o, n, 1) /\ \A i \in 1 .. n : o[i][1] = outputs[i]
  BY <1>2, <1>3, SliceIs
<1>5. PICK p : p = Mul(samples, a)
  OBVIOUS
<1>6. Mat(p, n, 1) /\ \A i \in 1 .. n : p[i][1] = Dot(samples[i], v, d)
  BY <1>2, <1>4, <1>5, MulIs
<1>7. PICK r : r = Sub(p, o)
  OBVIOUS
<1>8. Mat(r, n, 1) /\ \A i \in 1 .. n : r[i][1] = Dot(samples[i], v, d) - outputs[i]
  BY <1>2, <1>4, <1>6, <1>7, SubIs
<1>9. \A i \in 1 .. n : samples[i] \in Vec(d) /\ outputs[i] \in Int /\ Dot(samples[i], v, d) \in Int
  BY <1>2, DotType DEF Mat, Vec
<1>10. PICK m : m = Misses(v)
  OBVIOUS
<1>11. m \in Vec(n) /\ \A i \in 1 .. n : m[i] = Dot(samples[i], v, d) - outputs[i]
  BY <1>1, <1>9, <1>10 DEF Misses, Vec
<1>12. r = SliceToMat(m)
  <2>1. \A i \in 1 .. n : r[i] \in Vec(1) /\ r[i][1] = m[i]
    BY <1>8, <1>11 DEF Mat
  <2>2. \A i \in 1 .. n : r[i] = <<m[i]>>
    <3>1. \A w \in Vec(1) : w = <<w[1]>>
      BY DEF Vec
    <3> QED
      BY <2>1, <3>1
  <2>3. r = [i \in 1 .. n |-> r[i]] /\ DOMAIN m = 1 .. n
    BY <1>8, <1>11 DEF Mat, Vec
  <2> QED
    BY <2>2, <2>3 DEF SliceToMat
<1>13. Linear!Residual(v) = r
  BY <1>3, <1>5, <1>7, LinearOps, Zenon DEF Linear!Residual
<1> QED
  BY <1>1, <1>10, <1>11, <1>12, <1>13

(* r^T r of a column r                                                     *)
LEMMA SquareOf ==
  ASSUME NEW n \in Nat \ {0}, NEW v \in Vec(n)
  PROVE  Mul(Transpose(SliceToMat(v)), SliceToMat(v))[1][1] = Dot(v, v, n)
<1>1. PICK a, t : a = SliceToMat(v) /\ t = Transpose(a)
  OBVIOUS
<1>2. Mat(a, n, 1) /\ ColAt(a, 1) = v
  BY <1>1, SliceIs
<1>3. Mat(t, 1, n) /\ t[1] = v
  BY <1>1, <1>2, TransposeIs
<1>4. Mul(t, a)[1][1] = Dot(t[1], ColAt(a, 1), n)
  <2>1. 1 \in Nat /\ n \in Nat /\ 1 \in 1 .. 1
    OBVIOUS
  <2>2. ASSUME NEW i \in 1 .. 1, NEW j \in 1 .. 1
        PROVE  Mul(t, a)[i][j] = Dot(t[i], ColAt(a, j), n)
    BY <1>2, <1>3, <2>1, MulIs
  <2> QED
    BY <2>1, <2>2
<1> QED
  BY <1>1, <1>2, <1>3, <1>4

(* The loss and the gradient, in products of vectors.                      *)
Sizes(v) == [j \in DOMAIN v |-> Linear!Abs(v[j])]

LEMMA LossIs ==
  ASSUME Linear!ConstantsOK, LinearInv, NEW v \in Vec(Cols(samples))
  PROVE  /\ reg = "lasso" => Linear!MseLoss(v) = Dot(Misses(v), Misses(v), Rows(samples))
                             + 2 * Rows(samples) * lambda * SumFunctionOnSet(Sizes(v), 1 .. Cols(samples))
         /\ reg \notin {"ridge", "lasso"} => Linear!MseLoss(v) = Dot(Misses(v), Misses(v), Rows(samples))
<1>1. PICK n : n = Rows(samples)
  OBVIOUS
<1>2. PICK r : r = Misses(v)
  OBVIOUS
<1>3. n \in Nat \ {0} /\ r \in Vec(n) /\ Linear!Residual(v) = SliceToMat(r) /\ lambda \in Nat
  BY <1>1, <1>2, MissesAre, LinearFacts
<1>4. PICK s : s = Dot(r, r, n)
  OBVIOUS
<1>5. s \in Int /\ Mul(Transpose(SliceToMat(r)), SliceToMat(r))[1][1] = s
  BY <1>3, <1>4, SquareOf, DotType
<1>6. Linear!N = n
  BY <1>1, LinearOps DEF Linear!N
<1>7. Linear!MseLoss(v) = s + 2 * n * lambda * Linear!Penalty(v)
  BY <1>3, <1>5, <1>6, LinearOps, Zenon DEF Linear!MseLoss
<1>8. CASE reg = "lasso"
  <2>1. Linear!Penalty(v) = SumFunctionOnSet(Sizes(v), 1 .. Cols(samples))
    <3>1. DOMAIN v = 1 .. Cols(samples)
      BY DEF Vec
    <3>2. Linear!Penalty(v) = SumFunction(Sizes(v))
      BY <1>8, LinearOps DEF Linear!Penalty, Sizes
    <3> QED
      BY <3>1, <3>2 DEF SumFunction, Sizes
  <2> QED
    BY <1>1, <1>2, <1>4, <1>7, <1>8, <2>1
<1>9. CASE reg \notin {"ridge", "lasso"}
  <2>1. Linear!Penalty(v) = 0
    BY <1>9 DEF Linear!Penalty
  <2>2. \A a, b \in Int : 2 * a * b * 0 = 0
    OBVIOUS
  <2>3. 2 * n * lambda * Linear!Penalty(v) = 0
    BY <1>3, <2>1, <2>2
  <2>4. Linear!MseLoss(v) = s
    BY <1>5, <1>7, <2>3
  <2> QED
    BY <1>1, <1>2, <1>4, <1>9, <2>4
<1> QED
  BY <1>8, <1>9

(* The gradient. *)
Slopes(v) == Backwards(samples, Misses(v), Rows(samples), Cols(samples))

LEMMA SlopeIs ==
  ASSUME Linear!ConstantsOK, LinearInv, NEW v \in Vec(Cols(samples))
  PROVE  /\ Slopes(v) \in Vec(Cols(samples))
         /\ Mat(Linear!Slope(v), Cols(samples), 1)
         /\ \A j \in 1 .. Cols(samples) : Linear!Slope(v)[j][1] = Slopes(v)[j]
<1>1. PICK n, d, r : n = Rows(samples) /\ d = Cols(samples) /\ r = Misses(v)
  OBVIOUS
<1>2. Mat(samples, n, d) /\ n \in Nat \ {0} /\ d \in Nat \ {0} /\ v \in Vec(d)
  BY <1>1, LinearFacts
<1>3. r \in Vec(n) /\ Linear!Residual(v) = SliceToMat(r)
  BY <1>1, MissesAre
<1>4. PICK a, t : a = SliceToMat(r) /\ t = Transpose(samples)
  OBVIOUS
<1>5. Mat(a, n, 1) /\ ColAt(a, 1) = r
  BY <1>2, <1>3, <1>4, SliceIs
<1>6. Mat(t, d, n) /\ \A j \in 1 .. d : t[j] = ColAt(samples, j)
  BY <1>2, <1>4, TransposeIs
<1>7. Linear!Slope(v) = Mul(t, a)
  BY <1>3, <1>4, LinearOps, Zenon DEF Linear!Slope
<1>8. Mat(Mul(t, a), d, 1) /\ \A j \in 1 .. d : Mul(t, a)[j][1] = Dot(t[j], ColAt(a, 1), n)
  BY <1>2, <1>5, <1>6, MulIs
<1>9. Slopes(v) \in Vec(d) /\ \A j \in 1 .. d : Slopes(v)[j] = Dot(ColAt(samples, j), r, n)
  <2>1. Slopes(v) = Backwards(samples, r, n, d)
    BY <1>1 DEF Slopes
  <2> QED
    BY <1>2, <1>3, <2>1, BackwardsIs DEF Backwards
<1> QED
  BY <1>1, <1>5, <1>6, <1>7, <1>8, <1>9

LEMMA GradIs ==
  ASSUME Linear!ConstantsOK, LinearInv, NEW v \in Vec(Cols(samples))
  PROVE  /\ reg = "lasso" => \A j \in 1 .. Cols(samples) :
              Linear!GradMse(v)[j] = Slopes(v)[j] + (Rows(samples) * lambda) * Linear!Sign(v[j])
         /\ reg \notin {"ridge", "lasso"} => Linear!GradMse(v) = Slopes(v)
<1>1. PICK n, d, s, m, k : /\ n = Rows(samples) /\ d = Cols(samples) /\ s = Linear!Slope(v)
                           /\ m = SliceToMat(v) /\ k = n * lambda
  OBVIOUS
<1>2. n \in Nat \ {0} /\ d \in Nat \ {0} /\ v \in Vec(d) /\ lambda \in Nat
  BY <1>1, LinearFacts
<1>3. k \in Int /\ DOMAIN v = 1 .. d
  BY <1>1, <1>2 DEF Vec
<1>4. Mat(s, d, 1) /\ Slopes(v) \in Vec(d) /\ \A j \in 1 .. d : s[j][1] = Slopes(v)[j]
  BY <1>1, SlopeIs
<1>5. Mat(m, d, 1) /\ \A j \in 1 .. d : m[j][1] = v[j]
  BY <1>1, <1>2, SliceIs
<1>6. Linear!N = n
  BY <1>1, LinearOps DEF Linear!N
<1>7. CASE reg = "lasso"
  <2>1. PICK u : u = [j \in 1 .. d |-> Linear!Sign(v[j])]
    OBVIOUS
  <2>2. u \in Vec(d) /\ \A j \in 1 .. d : u[j] = Linear!Sign(v[j])
    BY <2>1 DEF Linear!Sign, Vec
  <2>3. PICK e, c, g : e = SliceToMat(u) /\ c = MulConstant(e, k) /\ g = Add(s, c)
    OBVIOUS
  <2>4. Mat(e, d, 1) /\ \A j \in 1 .. d : e[j][1] = u[j]
    BY <1>2, <2>2, <2>3, SliceIs
  <2>5. Mat(c, d, 1) /\ \A j \in 1 .. d : c[j][1] = k * e[j][1]
    BY <1>2, <1>3, <2>3, <2>4, ScaledIs
  <2>6. \A j \in 1 .. d : g[j][1] = s[j][1] + c[j][1]
    BY <1>2, <1>4, <2>3, <2>5, AddIs
  <2>7. Linear!GradMse(v) = [j \in DOMAIN v |-> g[j][1]]
    <3>1. Linear!GradMse(v)
          = [j \in DOMAIN v |-> Linear!Add(s, Linear!MulConstant(Linear!SliceToMat(
               [i \in DOMAIN v |-> Linear!Sign(v[i])]), Linear!N * lambda))[j][1]]
      BY <1>1, <1>7 DEF Linear!GradMse
    <3>2. Linear!Add(s, Linear!MulConstant(Linear!SliceToMat(u), Linear!N * lambda)) = g
      BY <1>1, <1>6, <2>3, LinearOps, Zenon
    <3>3. u = [i \in DOMAIN v |-> Linear!Sign(v[i])]
      BY <1>3, <2>1
    <3> QED
      BY <3>1, <3>2, <3>3, Zenon
  <2> QED
    BY <1>1, <1>3, <1>4, <1>7, <2>2, <2>4, <2>5, <2>6, <2>7
<1>8. CASE reg \notin {"ridge", "lasso"}
  <2>1. Linear!GradMse(v) = [j \in DOMAIN v |-> s[j][1]]
    BY <1>1, <1>8 DEF Linear!GradMse
  <2> QED
    BY <1>3, <1>4, <1>8, <2>1 DEF Vec
<1> QED
  BY <1>7, <1>8

-----------------------------------------------------------------------------
(* The gradient is the slope of the loss. *)

(* One weight more or less moves the misses by a column of the features.   *)
LEMMA MissesMove ==
  ASSUME Linear!ConstantsOK, LinearInv, NEW v \in Vec(Cols(samples)), NEW h \in Vec(Cols(samples)),
         NEW z \in 1 .. Cols(samples), NEW c \in Int, Moved(h, v, z, c, Cols(samples))
  PROVE  \A i \in 1 .. Rows(samples) : Misses(h)[i] = Misses(v)[i] + samples[i][z] * c
<1>1. PICK n, d : n = Rows(samples) /\ d = Cols(samples)
  OBVIOUS
<1>2. Mat(samples, n, d) /\ n \in Nat \ {0} /\ d \in Nat \ {0} /\ v \in Vec(d) /\ h \in Vec(d) /\ outputs \in Vec(n)
  BY <1>1, LinearFacts
<1>3. ASSUME NEW i \in 1 .. n
      PROVE  Misses(h)[i] = Misses(v)[i] + samples[i][z] * c
  <2>1. samples[i] \in Vec(d)
    BY <1>2 DEF Mat
  <2>2. Dot(samples[i], h, d) = Dot(samples[i], v, d) + samples[i][z] * c
    BY <1>1, <1>2, <2>1, DotChange
  <2>3. PICK a \in Int, b \in Int, o \in Int :
          a = Dot(samples[i], v, d) /\ b = samples[i][z] * c /\ o = outputs[i]
    <3>1. samples[i][z] \in Int
      BY <1>1, <2>1 DEF Vec
    <3>2. \A p \in Int : p * c \in Int
      OBVIOUS
    <3> QED
      BY <1>2, <2>1, <3>1, <3>2, DotType DEF Vec
  <2>4. Misses(v)[i] = a - o /\ Misses(h)[i] = (a + b) - o
    BY <1>1, <2>2, <2>3 DEF Misses
  <2> QED
    BY <2>3, <2>4
<1> QED
  BY <1>1, <1>3

(* The weights with one of them moved by c.                                *)
Shifted(z, c) == [weights EXCEPT ![z] = @ + c]

LEMMA ShiftedIs ==
  ASSUME Linear!ConstantsOK, LinearInv, NEW z \in 1 .. Cols(samples), NEW c \in Int
  PROVE  /\ Shifted(z, c) \in Vec(Cols(samples))
         /\ Moved(Shifted(z, c), weights, z, c, Cols(samples))
BY LinearFacts DEF Shifted, Vec, Moved

LEMMA SquaresMove ==
  ASSUME Linear!ConstantsOK, LinearInv, NEW z \in 1 .. Cols(samples)
  PROVE  Dot(Misses(Shifted(z, 1)), Misses(Shifted(z, 1)), Rows(samples))
         - Dot(Misses(Shifted(z, -1)), Misses(Shifted(z, -1)), Rows(samples)) = 4 * Slopes(weights)[z]
<1>1. PICK n, d : n = Rows(samples) /\ d = Cols(samples)
  OBVIOUS
<1>2. Mat(samples, n, d) /\ n \in Nat \ {0} /\ d \in Nat \ {0} /\ weights \in Vec(d) /\ z \in 1 .. d
  BY <1>1, LinearFacts
<1>3. PICK v, p, m, e : /\ v = Misses(weights) /\ p = Misses(Shifted(z, 1)) /\ m = Misses(Shifted(z, -1))
                        /\ e = ColAt(samples, z)
  OBVIOUS
<1>4. v \in Vec(n) /\ p \in Vec(n) /\ m \in Vec(n)
  <2>1. Shifted(z, 1) \in Vec(d) /\ Shifted(z, -1) \in Vec(d)
    BY <1>1, ShiftedIs
  <2> QED
    BY <1>1, <1>2, <1>3, <2>1, MissesAre
<1>5. e \in Vec(n) /\ \A i \in 1 .. n : e[i] = samples[i][z]
  BY <1>2, <1>3, ColIs
<1>6. ASSUME NEW i \in 1 .. n
      PROVE  p[i] = v[i] + e[i] /\ m[i] = v[i] - e[i]
  <2>1. p[i] = v[i] + e[i] * 1
    BY <1>1, <1>2, <1>3, <1>5, ShiftedIs, MissesMove
  <2>2. m[i] = v[i] + e[i] * (-1)
    BY <1>1, <1>2, <1>3, <1>5, ShiftedIs, MissesMove
  <2>3. v[i] \in Int /\ e[i] \in Int
    BY <1>4, <1>5 DEF Vec
  <2> QED
    BY <2>1, <2>2, <2>3
<1>7. Dot(p, p, n) - Dot(m, m, n) = 4 * Dot(e, v, n)
  BY <1>2, <1>4, <1>5, <1>6, SquaresApart
<1>8. Slopes(weights)[z] = Dot(e, v, n)
  BY <1>1, <1>2, <1>3 DEF Slopes, Backwards
<1> QED
  BY <1>1, <1>3, <1>7, <1>8

LEMMA SizesMove ==
  ASSUME Linear!ConstantsOK, LinearInv, NEW z \in 1 .. Cols(samples), weights[z] # 0
  PROVE  SumFunctionOnSet(Sizes(Shifted(z, 1)), 1 .. Cols(samples))
         = SumFunctionOnSet(Sizes(Shifted(z, -1)), 1 .. Cols(samples)) + 2 * Linear!Sign(weights[z])
<1>1. PICK d : d = Cols(samples)
  OBVIOUS
<1>2. d \in Nat \ {0} /\ weights \in Vec(d) /\ z \in 1 .. d
  BY <1>1, LinearFacts
<1>3. PICK D : D = 1 .. d
  OBVIOUS
<1>4. PICK f, h, c : f = Sizes(Shifted(z, 1)) /\ h = Sizes(Shifted(z, -1)) /\ c = 2 * Linear!Sign(weights[z])
  OBVIOUS
<1>5. \A j \in 1 .. d : weights[j] \in Int
  BY <1>2 DEF Vec
<1>6. \A j \in 1 .. d : /\ f[j] = Linear!Abs(IF j = z THEN weights[j] + 1 ELSE weights[j])
                        /\ h[j] = Linear!Abs(IF j = z THEN weights[j] - 1 ELSE weights[j])
  <2>1. DOMAIN weights = 1 .. d /\ DOMAIN Shifted(z, 1) = 1 .. d /\ DOMAIN Shifted(z, -1) = 1 .. d
    BY <1>2 DEF Vec, Shifted
  <2>2. \A j \in 1 .. d : /\ Shifted(z, 1)[j] = IF j = z THEN weights[j] + 1 ELSE weights[j]
                          /\ Shifted(z, -1)[j] = IF j = z THEN weights[j] - 1 ELSE weights[j]
    BY <1>5, <2>1 DEF Shifted
  <2>3. \A j \in 1 .. d : f[j] = Linear!Abs(Shifted(z, 1)[j]) /\ h[j] = Linear!Abs(Shifted(z, -1)[j])
    BY <1>4, <2>1 DEF Sizes
  <2> QED
    BY <2>2, <2>3
<1>7. \A j \in 1 .. d : f[j] \in Int /\ h[j] \in Int /\ (j # z => h[j] = f[j])
  BY <1>5, <1>6 DEF Linear!Abs
<1>8. f[z] = h[z] + c /\ c \in Int
  BY <1>2, <1>4, <1>5, <1>6 DEF Linear!Abs, Linear!Sign
<1>9. PICK y : y = z
  OBVIOUS
<1>10. y \in D /\ c \in Int /\ IsFiniteSet(D)
  BY <1>2, <1>3, <1>8, <1>9, Fin
<1>11. f[y] = h[y] + c /\ \A j \in D : f[j] \in Int /\ h[j] \in Int /\ (j # y => h[j] = f[j])
  BY <1>3, <1>7, <1>8, <1>9
<1>12. SumFunctionOnSet(f, D) = SumFunctionOnSet(h, D) + c
  BY <1>10, <1>11, SumChange
<1> QED
  BY <1>1, <1>3, <1>4, <1>12

LEMMA LinearSlope ==
  ASSUME Linear!ConstantsOK, LinearInv
  PROVE  Linear!GradientIsSlope
<1> SUFFICES ASSUME NEW z \in DOMAIN weights, Linear!Smooth(z)
             PROVE  Linear!Difference(Linear!MseLoss, z) = 4 * Linear!GradMse(weights)[z]
  BY DEF Linear!GradientIsSlope
<1>1. PICK n, d : n = Rows(samples) /\ d = Cols(samples)
  OBVIOUS
<1>2. n \in Nat \ {0} /\ d \in Nat \ {0} /\ weights \in Vec(d) /\ z \in 1 .. d /\ lambda \in Nat
  BY <1>1, LinearFacts DEF Vec
<1>3. PICK p, m, w : p = Shifted(z, 1) /\ m = Shifted(z, -1) /\ w = weights
  OBVIOUS
<1>4. p \in Vec(d) /\ m \in Vec(d)
  BY <1>1, <1>2, <1>3, ShiftedIs
<1>5. Linear!Difference(Linear!MseLoss, z) = Linear!MseLoss(p) - Linear!MseLoss(m)
  <2>1. weights[z] - 1 = weights[z] + (-1)
    BY <1>2 DEF Vec
  <2>2. m = [weights EXCEPT ![z] = @ - 1]
    BY <1>3, <2>1 DEF Shifted
  <2>3. p = [weights EXCEPT ![z] = @ + 1]
    BY <1>3 DEF Shifted
  <2> QED
    BY <2>2, <2>3 DEF Linear!Difference
<1>6. PICK a, b : a = Dot(Misses(p), Misses(p), n) /\ b = Dot(Misses(m), Misses(m), n)
  OBVIOUS
<1>7. a \in Int /\ b \in Int
  BY <1>1, <1>2, <1>4, <1>6, MissesAre, DotType
<1>8. Slopes(weights) \in Vec(d) /\ a - b = 4 * Slopes(weights)[z]
  BY <1>1, <1>2, <1>3, <1>6, SquaresMove, SlopeIs
<1>9. PICK s \in Int : s = Slopes(weights)[z]
  BY <1>2, <1>8 DEF Vec
<1>10. CASE reg = "lasso"
  <2>1. weights[z] # 0
    BY <1>10 DEF Linear!Smooth
  <2>2. PICK e, g : e = SumFunctionOnSet(Sizes(p), 1 .. d) /\ g = SumFunctionOnSet(Sizes(m), 1 .. d)
    OBVIOUS
  <2>3. PICK k \in {-1, 1} : k = Linear!Sign(weights[z])
    BY DEF Linear!Sign
  <2>4. e = g + 2 * k
    BY <1>1, <1>2, <1>3, <2>1, <2>2, <2>3, SizesMove
  <2>5. g \in Int
    <3>1. PICK f : f = Sizes(m)
      OBVIOUS
    <3>2. \A j \in 1 .. d : f[j] \in Int
      BY <1>4, <3>1 DEF Sizes, Vec, Linear!Abs
    <3> QED
      BY <1>2, <2>2, <3>1, <3>2, Fin, SumInt
  <2>6. Linear!MseLoss(p) = a + 2 * n * lambda * e /\ Linear!MseLoss(m) = b + 2 * n * lambda * g
    BY <1>1, <1>4, <1>6, <1>10, <2>2, LossIs
  <2>7. Linear!GradMse(weights)[z] = s + (n * lambda) * k
    BY <1>1, <1>2, <1>9, <1>10, <2>3, GradIs
  <2>8. PICK c \in Int : c = n * lambda
    BY <1>2
  <2>9. 2 * n * lambda * e = 2 * (c * g) + 4 * (c * k) /\ 2 * n * lambda * g = 2 * (c * g)
    <3>1. \A x \in Int : 2 * n * lambda * x = 2 * (c * x)
      BY <1>2, <2>8
    <3>2. c * (g + 2 * k) = c * g + 2 * (c * k)
      BY <2>3, <2>5, <2>8
    <3>3. c * g \in Int /\ c * k \in Int /\ e \in Int
      BY <2>3, <2>4, <2>5, <2>8
    <3>4. c * e = c * g + 2 * (c * k)
      BY <2>4, <3>2
    <3> QED
      BY <2>5, <3>1, <3>3, <3>4
  <2>10. PICK u \in Int, t \in Int : u = c * g /\ t = c * k
    BY <2>3, <2>5, <2>8
  <2>11. Linear!MseLoss(p) = a + (2 * u + 4 * t) /\ Linear!MseLoss(m) = b + 2 * u
    BY <2>6, <2>9, <2>10
  <2>12. a - b = 4 * s
    BY <1>8, <1>9
  <2>13. Linear!GradMse(weights)[z] = s + t
    BY <2>7, <2>8, <2>10
  <2>14. (a + (2 * u + 4 * t)) - (b + 2 * u) = 4 * (s + t)
    BY <1>7, <2>12
  <2> QED
    BY <1>5, <2>11, <2>13, <2>14
<1>11. CASE reg \notin {"ridge", "lasso"}
  <2>1. Linear!MseLoss(p) = a /\ Linear!MseLoss(m) = b /\ Linear!GradMse(weights) = Slopes(weights)
    BY <1>1, <1>2, <1>4, <1>6, <1>11, LossIs, GradIs
  <2> QED
    BY <1>5, <1>8, <1>9, <2>1
<1> QED
  BY <1>10, <1>11 DEF Linear!Smooth

-----------------------------------------------------------------------------
(* A round. *)

LEMMA LinearFits ==
  ASSUME Linear!ConstantsOK, LinearInv
  PROVE  Linear!TypeOK
<1>1. PICK n, d : n = Rows(samples) /\ d = Cols(samples)
  OBVIOUS
<1>2. Mat(samples, n, d) /\ n \in Nat \ {0} /\ d \in Nat \ {0} /\ weights \in Vec(d) /\ outputs \in Vec(n)
  BY <1>1, LinearFacts
<1>3. PICK w, o, p : w = SliceToMat(weights) /\ o = SliceToMat(outputs) /\ p = Mul(samples, w)
  OBVIOUS
<1>4. Mat(w, d, 1) /\ Mat(o, n, 1)
  BY <1>2, <1>3, SliceIs
<1>5. Mat(p, n, 1)
  BY <1>2, <1>3, <1>4, MulIs
<1>6. Rows(w) = d /\ Rows(o) = n /\ Cols(o) = 1 /\ Rows(p) = n /\ Cols(p) = 1
  BY <1>2, <1>4, <1>5, MatSize
<1>7. Linear!FitsMul(samples, Linear!SliceToMat(weights))
  BY <1>1, <1>3, <1>6, LinearOps DEF Linear!FitsMul
<1>8. Linear!SameShape(Linear!Mul(samples, Linear!SliceToMat(weights)), Linear!SliceToMat(outputs))
  BY <1>3, <1>6, LinearOps DEF Linear!SameShape
<1> QED
  BY <1>7, <1>8, LinearOps DEF Linear!TypeOK, LinearInv, Bounded

LEMMA LinearInit == Linear!ConstantsOK /\ Linear!Init => LinearInv
<1> SUFFICES ASSUME Linear!ConstantsOK, Linear!Init PROVE LinearInv
  OBVIOUS
<1>1. Linear!N = Rows(samples) /\ Linear!Cols(samples) = Cols(samples)
  BY LinearOps DEF Linear!N
<1>2. Value \subseteq Bounded
  BY DEF Linear!ConstantsOK, Bounded
<1> QED
  BY <1>1, <1>2 DEF Linear!Init, LinearInv

LEMMA LinearStep == Linear!ConstantsOK /\ LinearInv /\ [Linear!Next]_(Linear!vars) => LinearInv'
<1> SUFFICES ASSUME Linear!ConstantsOK, LinearInv, [Linear!Next]_(Linear!vars) PROVE LinearInv'
  OBVIOUS
<1>1. CASE Linear!Round
  <2>1. PICK v : /\ v = Linear!Updated(weights, Linear!GradMse(weights)) /\ weights' = v
                 /\ \A j \in DOMAIN v : v[j] \in Bounded
    BY <1>1 DEF Linear!Round, Bounded
  <2>2. v \in [1 .. Cols(samples) -> Bounded]
    BY <2>1 DEF Linear!Updated, LinearInv
  <2> QED
    BY <1>1, <2>1, <2>2 DEF Linear!Round, LinearInv
<1>2. CASE UNCHANGED Linear!vars
  BY <1>2 DEF Linear!vars, LinearInv, Bounded
<1> QED
  BY <1>1, <1>2 DEF Linear!Next

-----------------------------------------------------------------------------
(* The layer. *)

LEMMA NetOps ==
  /\ \A f, s : Net!SumFunctionOnSet(f, s) = SumFunctionOnSet(f, s)
  /\ \A f : Net!SumFunction(f) = SumFunction(f)
  /\ \A u, v : Net!InnerProduct(u, v) = InnerProduct(u, v)
  /\ \A m : Net!Rows(m) = Rows(m) /\ Net!Cols(m) = Cols(m) /\ Net!Transpose(m) = Transpose(m)
  /\ \A m : Net!IsMatrix(m) <=> IsMatrix(m)
  /\ \A m, j : Net!ColAt(m, j) = ColAt(m, j)
  /\ \A a, b : Net!Mul(a, b) = Mul(a, b) /\ Net!Sub(a, b) = Sub(a, b) /\ Net!Add(a, b) = Add(a, b)
  /\ \A m, k : Net!MulConstant(m, k) = MulConstant(m, k)
  /\ \A v : Net!SliceToMat(v) = SliceToMat(v) /\ Net!DiagMatrix(v) = DiagMatrix(v)
  /\ \A r, c : Net!GetZeroMat(r, c) = GetZeroMat(r, c)
<1>1. \A f, s : Net!SumFunctionOnSet(f, s) = SumFunctionOnSet(f, s)
  BY DEF Net!SumFunctionOnSet, Net!FoldFunctionOnSet, Net!MapThenFoldSet,
         SumFunctionOnSet, FoldFunctionOnSet, MapThenFoldSet
<1>2. \A f : Net!SumFunction(f) = SumFunction(f)
  BY <1>1 DEF Net!SumFunction, SumFunction
<1>3. \A u, v : Net!InnerProduct(u, v) = InnerProduct(u, v)
  BY <1>2 DEF Net!InnerProduct, InnerProduct
<1>4. \A m : Net!Rows(m) = Rows(m) /\ Net!Cols(m) = Cols(m)
  BY DEF Net!Rows, Rows, Net!Cols, Cols
<1>5. \A m : Net!IsMatrix(m) <=> IsMatrix(m)
  BY <1>4 DEF Net!IsMatrix, IsMatrix
<1>6. \A m, j : Net!ColAt(m, j) = ColAt(m, j)
  BY <1>4 DEF Net!ColAt, ColAt
<1>7. \A m : Net!Transpose(m) = Transpose(m)
  BY <1>4, <1>6 DEF Net!Transpose, Transpose
<1>8. \A a, b : Net!Mul(a, b) = Mul(a, b)
  BY <1>3, <1>4, <1>6 DEF Net!Mul, Mul, Net!RowAt, RowAt
<1>9. \A a, b : Net!Sub(a, b) = Sub(a, b)
  BY <1>4 DEF Net!Sub, Sub, Net!EachEntry, EachEntry
<1>10. \A a, b : Net!Add(a, b) = Add(a, b)
  BY <1>4 DEF Net!Add, Add, Net!EachEntry, EachEntry
<1>11. \A m, k : Net!MulConstant(m, k) = MulConstant(m, k)
  BY <1>4 DEF Net!MulConstant, MulConstant, Net!EachEntry, EachEntry
<1>12. \A v : Net!SliceToMat(v) = SliceToMat(v) /\ Net!DiagMatrix(v) = DiagMatrix(v)
  BY DEF Net!SliceToMat, SliceToMat, Net!DiagMatrix, DiagMatrix
<1>13. \A r, c : Net!GetZeroMat(r, c) = GetZeroMat(r, c)
  BY DEF Net!GetZeroMat, GetZeroMat
<1> QED
  BY <1>1, <1>2, <1>3, <1>4, <1>5, <1>6, <1>7, <1>8, <1>9, <1>10, <1>11, <1>12, <1>13, Zenon

LEMMA RowIs ==
  ASSUME NEW m, NEW r \in Nat, NEW c \in Nat, Mat(m, r, c)
  PROVE  \A i \in 1 .. r : m[i] \in Vec(c) /\ \A j \in 1 .. c : m[i][j] \in Int
<1>1. \A i \in 1 .. r : m[i] \in Vec(c)
  BY DEF Mat
<1> QED
  BY <1>1 DEF Vec

LEMMA OneColumn ==
  ASSUME NEW m, NEW r \in Nat, Mat(m, r, 1)
  PROVE  \A i \in 1 .. r : m[i] \in Vec(1) /\ m[i][1] \in Int
<1>1. 1 \in Nat /\ 1 \in 1 .. 1
  OBVIOUS
<1> QED
  BY <1>1, RowIs

(* One entry more.                                                         *)
Raised(m, i, j) == [m EXCEPT ![i][j] = @ + 1]

LEMMA OneMore ==
  ASSUME NEW m, NEW r \in Nat, NEW c \in Nat, Mat(m, r, c), NEW i \in 1 .. r, NEW j \in 1 .. c,
         NEW v, v = Raised(m, i, j)
  PROVE  Mat(v, r, c) /\ (\A u \in 1 .. r : u # i => v[u] = m[u]) /\ Moved(v[i], m[i], j, 1, c)
<1>1. m \in [1 .. r -> Vec(c)] /\ m[i] \in Vec(c) /\ m[i][j] \in Int
  BY RowIs DEF Mat
<1>2. PICK e : e = [m[i] EXCEPT ![j] = @ + 1]
  OBVIOUS
<1>3. e \in Vec(c) /\ Moved(e, m[i], j, 1, c)
  BY <1>1, <1>2 DEF Vec, Moved
<1>4. v = [m EXCEPT ![i] = e]
  BY <1>2 DEF Raised
<1>5. v \in [1 .. r -> Vec(c)] /\ v[i] = e /\ \A u \in 1 .. r : u # i => v[u] = m[u]
  BY <1>1, <1>3, <1>4
<1> QED
  BY <1>3, <1>5 DEF Mat

(* The outputs of the layer for one sample.                                *)
Outs(w, b, row) == [u \in 1 .. Units |-> Dot(row, w[u], Inputs) + b[u][1]]

LEMMA OutsAre ==
  ASSUME Units \in Nat, Inputs \in Nat, NEW w, NEW b, Mat(w, Units, Inputs), Mat(b, Units, 1),
         NEW row \in Vec(Inputs)
  PROVE  Outs(w, b, row) \in Vec(Units)
<1>1. \A u \in 1 .. Units : w[u] \in Vec(Inputs) /\ b[u][1] \in Int
  BY RowIs, OneColumn
<1>2. \A u \in 1 .. Units : Dot(row, w[u], Inputs) \in Int
  BY <1>1, DotType
<1> QED
  BY <1>1, <1>2 DEF Outs, Vec

LEMMA AffineIs ==
  ASSUME Units \in Nat, Inputs \in Nat, NEW n \in Nat, NEW w, NEW b, NEW x,
         Mat(w, Units, Inputs), Mat(b, Units, 1), Mat(x, n, Inputs)
  PROVE  Net!Affine(w, b, x) = [i \in 1 .. n |-> Outs(w, b, x[i])]
<1>1. PICK t, z : t = Transpose(w) /\ z = Mul(x, t)
  OBVIOUS
<1>2. Mat(t, Inputs, Units) /\ \A u \in 1 .. Units, j \in 1 .. Inputs : t[j][u] = w[u][j]
  BY <1>1, TransposeIs
<1>3. \A u \in 1 .. Units : ColAt(t, u) = w[u]
  <2>1. ASSUME NEW u \in 1 .. Units
        PROVE  ColAt(t, u) = w[u]
    <3>1. ColAt(t, u) \in Vec(Inputs) /\ \A j \in 1 .. Inputs : ColAt(t, u)[j] = w[u][j]
      BY <1>2, ColIs
    <3>2. w[u] \in Vec(Inputs)
      BY DEF Mat
    <3> QED
      BY <3>1, <3>2 DEF Vec
  <2> QED
    BY <2>1
<1>4. Mat(z, n, Units) /\ \A i \in 1 .. n, u \in 1 .. Units : z[i][u] = Dot(x[i], w[u], Inputs)
  BY <1>1, <1>2, <1>3, MulIs
<1>5. Net!Rows(z) = n /\ Net!Cols(z) = Units
  BY <1>4, NetOps, MatSize
<1>6. Net!Affine(w, b, x) = [i \in 1 .. n |-> [u \in 1 .. Units |-> z[i][u] + b[u][1]]]
  BY <1>1, <1>5, NetOps DEF Net!Affine, Net!EachEntry
<1> QED
  BY <1>4, <1>6 DEF Outs

(* The outputs of a batch, weighted with dz.                               *)
Part(w, b, x, dz, n) == [i \in 1 .. n |-> Dot(dz[i], Outs(w, b, x[i]), Units)]

LEMMA WeightedIs ==
  ASSUME Units \in Nat, Inputs \in Nat, NEW n \in Nat, NEW w, NEW b, NEW x, NEW dz,
         Mat(w, Units, Inputs), Mat(b, Units, 1), Mat(x, n, Inputs), Mat(dz, n, Units)
  PROVE  /\ Net!Weighted(w, b, x, dz) = SumFunctionOnSet(Part(w, b, x, dz, n), 1 .. n)
         /\ \A i \in 1 .. n : Part(w, b, x, dz, n)[i] = Dot(dz[i], Outs(w, b, x[i]), Units)
         /\ \A i \in 1 .. n : Part(w, b, x, dz, n)[i] \in Int
<1>1. PICK z : z = Net!Affine(w, b, x)
  OBVIOUS
<1>2. z = [i \in 1 .. n |-> Outs(w, b, x[i])]
  BY <1>1, AffineIs
<1>3. \A i \in 1 .. n : x[i] \in Vec(Inputs) /\ dz[i] \in Vec(Units)
  BY DEF Mat
<1>4. \A i \in 1 .. n : z[i] = Outs(w, b, x[i]) /\ z[i] \in Vec(Units)
  BY <1>2, <1>3, OutsAre
<1>5. \A i \in 1 .. n : Net!InnerProduct(dz[i], z[i]) = Dot(dz[i], z[i], Units)
  BY <1>3, NetOps, InnerIs DEF Vec
<1>6. \A i \in 1 .. n : Dot(dz[i], z[i], Units) \in Int
  BY <1>3, <1>4, DotType
<1>7. DOMAIN z = 1 .. n
  BY <1>2
<1>8. [i \in DOMAIN z |-> Net!InnerProduct(dz[i], z[i])] = Part(w, b, x, dz, n)
  BY <1>4, <1>5, <1>7 DEF Part
<1>9. Net!Weighted(w, b, x, dz) = SumFunction(Part(w, b, x, dz, n))
  BY <1>1, <1>8, NetOps, Zenon DEF Net!Weighted
<1> QED
  BY <1>4, <1>6, <1>9 DEF SumFunction, Part

-----------------------------------------------------------------------------
(* Slopes of the weighted outputs. *)

(* One weight more.                                                        *)
LEMMA WeightSlope ==
  ASSUME Units \in Nat, Inputs \in Nat, NEW n \in Nat, NEW w, NEW b, NEW x, NEW dz,
         Mat(w, Units, Inputs), Mat(b, Units, 1), Mat(x, n, Inputs), Mat(dz, n, Units),
         NEW i \in 1 .. Units, NEW j \in 1 .. Inputs
  PROVE  Net!Weighted(Raised(w, i, j), b, x, dz)
         = Net!Weighted(w, b, x, dz) + Dot(ColAt(dz, i), ColAt(x, j), n)
<1>1. PICK v : v = Raised(w, i, j)
  OBVIOUS
<1>2. w[i] \in Vec(Inputs) /\ w[i][j] \in Int
  BY RowIs
<1>3. Mat(v, Units, Inputs) /\ Moved(v[i], w[i], j, 1, Inputs)
  BY <1>1, OneMore
<1>4. \A u \in 1 .. Units : u # i => v[u] = w[u]
  BY <1>1, OneMore
<1>5. PICK p, q, e : /\ p = Part(v, b, x, dz, n) /\ q = Part(w, b, x, dz, n)
                     /\ e = Products(ColAt(dz, i), ColAt(x, j), n)
  OBVIOUS
<1>6. /\ Net!Weighted(v, b, x, dz) = SumFunctionOnSet(p, 1 .. n)
      /\ Net!Weighted(w, b, x, dz) = SumFunctionOnSet(q, 1 .. n)
  BY <1>3, <1>4, <1>5, WeightedIs
<1>7. ASSUME NEW m \in 1 .. n
      PROVE  q[m] \in Int /\ e[m] \in Int /\ p[m] = q[m] + e[m]
  <2>1. x[m] \in Vec(Inputs) /\ dz[m] \in Vec(Units) /\ x[m][j] \in Int /\ dz[m][i] \in Int
    BY RowIs
  <2>2. PICK o, h : o = Outs(w, b, x[m]) /\ h = Outs(v, b, x[m])
    OBVIOUS
  <2>3. o \in Vec(Units) /\ h \in Vec(Units)
    BY <1>3, <1>4, <2>1, <2>2, OutsAre
  <2>4. Dot(x[m], v[i], Inputs) = Dot(x[m], w[i], Inputs) + x[m][j] * 1
    <3>1. v[i] \in Vec(Inputs)
      BY <1>3, RowIs
    <3> QED
      BY <1>2, <1>3, <1>4, <2>1, <3>1, DotChange
  <2>5. \A u \in 1 .. Units : /\ o[u] = Dot(x[m], w[u], Inputs) + b[u][1]
                              /\ h[u] = Dot(x[m], v[u], Inputs) + b[u][1]
    BY <2>2 DEF Outs
  <2>6. Moved(h, o, i, x[m][j], Units)
    <3>1. \A u \in 1 .. Units : u # i => h[u] = o[u]
      BY <1>3, <1>4, <2>5
    <3>2. PICK a \in Int, c \in Int, y \in Int : a = Dot(x[m], w[i], Inputs) /\ c = b[i][1] /\ y = x[m][j]
      BY <1>2, <2>1, DotType, OneColumn
    <3>3. h[i] = (a + y) + c /\ o[i] = a + c
      BY <2>4, <2>5, <3>2
    <3>4. h[i] = o[i] + x[m][j]
      BY <3>2, <3>3
    <3> QED
      BY <3>1, <3>4 DEF Moved
  <2>7. Dot(dz[m], h, Units) = Dot(dz[m], o, Units) + dz[m][i] * x[m][j]
    BY <2>1, <2>3, <2>6, DotChange
  <2>8. e[m] = dz[m][i] * x[m][j]
    BY <1>5, ColIs DEF Products
  <2>9. q[m] = Dot(dz[m], o, Units) /\ p[m] = Dot(dz[m], h, Units) /\ q[m] \in Int
    BY <1>3, <1>4, <1>5, <2>2, WeightedIs
  <2>10. e[m] \in Int
    BY <2>1, <2>8
  <2> QED
    BY <2>7, <2>8, <2>9, <2>10
<1>8. SumFunctionOnSet(p, 1 .. n) = SumFunctionOnSet(q, 1 .. n) + SumFunctionOnSet(e, 1 .. n)
  BY <1>7, Fin, SumPlus
<1> QED
  BY <1>1, <1>5, <1>6, <1>8 DEF Dot

(* One bias more.                                                          *)
LEMMA BiasSlope ==
  ASSUME Units \in Nat, Inputs \in Nat, NEW n \in Nat, NEW w, NEW b, NEW x, NEW dz,
         Mat(w, Units, Inputs), Mat(b, Units, 1), Mat(x, n, Inputs), Mat(dz, n, Units),
         NEW i \in 1 .. Units
  PROVE  Net!Weighted(w, Raised(b, i, 1), x, dz)
         = Net!Weighted(w, b, x, dz) + SumFunctionOnSet(ColAt(dz, i), 1 .. n)
<1>1. PICK c : c = Raised(b, i, 1)
  OBVIOUS
<1>2. \A u \in 1 .. Units : b[u][1] \in Int
  BY OneColumn
<1>3. 1 \in Nat /\ 1 \in 1 .. 1
  OBVIOUS
<1>4. Mat(c, Units, 1) /\ (\A u \in 1 .. Units : u # i => c[u] = b[u]) /\ Moved(c[i], b[i], 1, 1, 1)
  BY <1>1, <1>3, OneMore
<1>5. PICK p, q, e : p = Part(w, c, x, dz, n) /\ q = Part(w, b, x, dz, n) /\ e = ColAt(dz, i)
  OBVIOUS
<1>6. /\ Net!Weighted(w, c, x, dz) = SumFunctionOnSet(p, 1 .. n)
      /\ Net!Weighted(w, b, x, dz) = SumFunctionOnSet(q, 1 .. n)
  BY <1>4, <1>5, WeightedIs
<1>7. ASSUME NEW m \in 1 .. n
      PROVE  q[m] \in Int /\ e[m] \in Int /\ p[m] = q[m] + e[m]
  <2>1. x[m] \in Vec(Inputs) /\ dz[m] \in Vec(Units) /\ dz[m][i] \in Int
    BY RowIs
  <2>2. PICK o, h : o = Outs(w, b, x[m]) /\ h = Outs(w, c, x[m])
    OBVIOUS
  <2>3. o \in Vec(Units) /\ h \in Vec(Units)
    BY <1>4, <2>1, <2>2, OutsAre
  <2>4. \A u \in 1 .. Units : /\ o[u] = Dot(x[m], w[u], Inputs) + b[u][1]
                              /\ h[u] = Dot(x[m], w[u], Inputs) + c[u][1]
    BY <2>2 DEF Outs
  <2>5. Moved(h, o, i, 1, Units)
    <3>1. \A u \in 1 .. Units : u # i => h[u] = o[u]
      BY <1>4, <2>4
    <3>2. w[i] \in Vec(Inputs)
      BY DEF Mat
    <3>3. PICK a \in Int, d \in Int : a = Dot(x[m], w[i], Inputs) /\ d = b[i][1]
      BY <1>2, <2>1, <3>2, DotType
    <3>4. h[i] = a + (d + 1) /\ o[i] = a + d
      BY <1>3, <1>4, <2>4, <3>3 DEF Moved
    <3>5. h[i] = o[i] + 1
      BY <3>3, <3>4
    <3> QED
      BY <3>1, <3>5 DEF Moved
  <2>6. Dot(dz[m], h, Units) = Dot(dz[m], o, Units) + dz[m][i] * 1
    BY <2>1, <2>3, <2>5, DotChange
  <2>7. e[m] = dz[m][i]
    BY <1>5, ColIs
  <2>8. q[m] = Dot(dz[m], o, Units) /\ p[m] = Dot(dz[m], h, Units) /\ q[m] \in Int
    BY <1>4, <1>5, <2>2, WeightedIs
  <2> QED
    BY <2>1, <2>6, <2>7, <2>8
<1>8. SumFunctionOnSet(p, 1 .. n) = SumFunctionOnSet(q, 1 .. n) + SumFunctionOnSet(e, 1 .. n)
  BY <1>7, Fin, SumPlus
<1> QED
  BY <1>1, <1>5, <1>6, <1>8

(* One input more.                                                         *)
LEMMA InputSlope ==
  ASSUME Units \in Nat, Inputs \in Nat, NEW n \in Nat, NEW w, NEW b, NEW x, NEW dz,
         Mat(w, Units, Inputs), Mat(b, Units, 1), Mat(x, n, Inputs), Mat(dz, n, Units),
         NEW k \in 1 .. n, NEW j \in 1 .. Inputs
  PROVE  Net!Weighted(w, b, Raised(x, k, j), dz)
         = Net!Weighted(w, b, x, dz) + Mul(dz, w)[k][j]
<1>1. PICK y : y = Raised(x, k, j)
  OBVIOUS
<1>2. x[k] \in Vec(Inputs) /\ x[k][j] \in Int
  BY RowIs
<1>4. Mat(y, n, Inputs) /\ (\A m \in 1 .. n : m # k => y[m] = x[m]) /\ Moved(y[k], x[k], j, 1, Inputs)
  BY <1>1, OneMore
<1>5. PICK p, q, e : p = Part(w, b, y, dz, n) /\ q = Part(w, b, x, dz, n) /\ e = ColAt(w, j)
  OBVIOUS
<1>6. /\ Net!Weighted(w, b, y, dz) = SumFunctionOnSet(p, 1 .. n)
      /\ Net!Weighted(w, b, x, dz) = SumFunctionOnSet(q, 1 .. n)
  BY <1>4, <1>5, WeightedIs
<1>7. \A m \in 1 .. n : /\ p[m] = Dot(dz[m], Outs(w, b, y[m]), Units) /\ p[m] \in Int
                        /\ q[m] = Dot(dz[m], Outs(w, b, x[m]), Units) /\ q[m] \in Int
  BY <1>4, <1>5, WeightedIs
<1>8. e \in Vec(Units) /\ \A u \in 1 .. Units : e[u] = w[u][j]
  BY <1>5, ColIs
<1>9. Mul(dz, w)[k][j] = Dot(dz[k], e, Units)
  BY <1>5, MulIs
<1>10. PICK g \in Int : g = Dot(dz[k], e, Units)
  BY <1>8, RowIs, DotType
<1>11. p[k] = q[k] + g
  <2>1. PICK o, h : o = Outs(w, b, x[k]) /\ h = Outs(w, b, y[k])
    OBVIOUS
  <2>2. y[k] \in Vec(Inputs) /\ dz[k] \in Vec(Units)
    BY <1>4, RowIs
  <2>3. o \in Vec(Units) /\ h \in Vec(Units)
    BY <1>2, <2>1, <2>2, OutsAre
  <2>4. ASSUME NEW u \in 1 .. Units
        PROVE  h[u] = o[u] + e[u]
    <3>1. w[u] \in Vec(Inputs) /\ w[u][j] \in Int /\ b[u][1] \in Int
      BY RowIs, OneColumn
    <3>2. Dot(w[u], y[k], Inputs) = Dot(w[u], x[k], Inputs) + w[u][j] * 1
      BY <1>2, <1>4, <2>2, <3>1, DotChange
    <3>3. Dot(w[u], y[k], Inputs) = Dot(y[k], w[u], Inputs) /\ Dot(w[u], x[k], Inputs) = Dot(x[k], w[u], Inputs)
      BY <1>2, <2>2, <3>1, DotSame
    <3>4. PICK a \in Int, c \in Int, f \in Int : a = Dot(x[k], w[u], Inputs) /\ c = b[u][1] /\ f = w[u][j]
      BY <1>2, <3>1, DotType
    <3>5. Dot(y[k], w[u], Inputs) = a + f
      BY <3>2, <3>3, <3>4
    <3>6. h[u] = (a + f) + c /\ o[u] = a + c
      BY <2>1, <3>4, <3>5 DEF Outs
    <3> QED
      BY <1>8, <3>4, <3>6
  <2>5. Dot(dz[k], h, Units) = Dot(dz[k], o, Units) + Dot(dz[k], e, Units)
    BY <1>8, <2>2, <2>3, <2>4, DotPlus
  <2> QED
    BY <1>7, <1>10, <2>1, <2>5
<1>12. SumFunctionOnSet(p, 1 .. n) = SumFunctionOnSet(q, 1 .. n) + g
  <2>1. PICK D : D = 1 .. n
    OBVIOUS
  <2>2. PICK l : l = k
    OBVIOUS
  <2>3. IsFiniteSet(D) /\ l \in D /\ p[l] = q[l] + g
    BY <1>11, <2>1, <2>2, Fin
  <2>4. \A m \in D : p[m] \in Int /\ q[m] \in Int /\ (m # l => q[m] = p[m])
    BY <1>4, <1>7, <2>1, <2>2
  <2>5. SumFunctionOnSet(p, D) = SumFunctionOnSet(q, D) + g
    BY <1>10, <2>3, <2>4, SumChange
  <2> QED
    BY <2>1, <2>5
<1> QED
  BY <1>1, <1>6, <1>9, <1>10, <1>12

LEMMA SumNext ==
  ASSUME NEW n \in Nat, NEW f, \A k \in 1 .. n + 1 : f[k] \in Int
  PROVE  SumFunctionOnSet(f, 1 .. n + 1) = SumFunctionOnSet(f, 1 .. n) + f[n + 1]
<1>1. PICK D : D = 1 .. n + 1
  OBVIOUS
<1>2. IsFiniteSet(D) /\ n + 1 \in D /\ D \ {n + 1} = 1 .. n /\ n + 1 \in Nat
  BY <1>1, Fin
<1>3. PICK z \in D : z = n + 1
  BY <1>2
<1>4. \A k \in D : f[k] \in Int
  BY <1>1
<1>5. SumFunctionOnSet(f, D) = f[z] + SumFunctionOnSet(f, D \ {z})
  BY <1>2, <1>4, SumOneOut
<1>6. D \ {z} = 1 .. n
  BY <1>2, <1>3
<1>7. PICK a \in Int, b \in Int : a = SumFunctionOnSet(f, 1 .. n) /\ b = f[z]
  <2>1. \A k \in 1 .. n : f[k] \in Int
    OBVIOUS
  <2>2. SumFunctionOnSet(f, 1 .. n) \in Int
    BY <2>1, Fin, SumInt
  <2> QED
    BY <1>4, <2>2
<1>8. SumFunctionOnSet(f, D) = b + a
  BY <1>5, <1>6, <1>7
<1>9. SumFunctionOnSet(f, D) = a + b
  BY <1>7, <1>8
<1> QED
  BY <1>1, <1>3, <1>7, <1>9

LEMMA ColumnInt ==
  ASSUME NEW m, NEW r \in Nat, NEW c \in Nat, Mat(m, r, c), NEW j \in 1 .. c
  PROVE  SumFunctionOnSet(ColAt(m, j), 1 .. r) \in Int
<1>1. PICK v \in Vec(r) : v = ColAt(m, j)
  BY ColIs
<1>2. \A i \in 1 .. r : v[i] \in Int
  BY DEF Vec
<1> QED
  BY <1>1, <1>2, Fin, SumInt

LEMMA WeightedInt ==
  ASSUME Units \in Nat, Inputs \in Nat, NEW n \in Nat, NEW w, NEW b, NEW x, NEW dz,
         Mat(w, Units, Inputs), Mat(b, Units, 1), Mat(x, n, Inputs), Mat(dz, n, Units)
  PROVE  Net!Weighted(w, b, x, dz) \in Int
<1>1. PICK p : p = Part(w, b, x, dz, n)
  OBVIOUS
<1>2. Net!Weighted(w, b, x, dz) = SumFunctionOnSet(p, 1 .. n) /\ \A i \in 1 .. n : p[i] \in Int
  BY <1>1, WeightedIs
<1> QED
  BY <1>2, Fin, SumInt

LEMMA AddedIs ==
  ASSUME Units \in Nat, Inputs \in Nat, NEW n \in Nat, NEW d, NEW x, NEW dz,
         Mat(d, Units, Inputs), Mat(x, n, Inputs), Mat(dz, n, Units)
  PROVE  /\ Mat(Net!Added(d, dz, x), Units, Inputs)
         /\ \A i \in 1 .. Units, j \in 1 .. Inputs :
              Net!Added(d, dz, x)[i][j] = d[i][j] + Dot(ColAt(dz, i), ColAt(x, j), n)
<1>1. PICK t, p : t = Transpose(dz) /\ p = Mul(t, x)
  OBVIOUS
<1>2. Mat(t, Units, n) /\ \A i \in 1 .. Units : t[i] = ColAt(dz, i)
  BY <1>1, TransposeIs
<1>3. Mat(p, Units, Inputs) /\ \A i \in 1 .. Units, j \in 1 .. Inputs : p[i][j] = Dot(t[i], ColAt(x, j), n)
  BY <1>1, <1>2, MulIs
<1>4. \A i \in 1 .. Units, j \in 1 .. Inputs : p[i][j] = Dot(ColAt(dz, i), ColAt(x, j), n)
  BY <1>2, <1>3
<1>5. PICK a : a = Add(d, p)
  OBVIOUS
<1>6. Mat(a, Units, Inputs) /\ \A i \in 1 .. Units, j \in 1 .. Inputs : a[i][j] = d[i][j] + p[i][j]
  BY <1>3, <1>5, AddIs
<1>7. Net!Added(d, dz, x) = a
  BY <1>1, <1>5, NetOps, Zenon DEF Net!Added
<1> QED
  BY <1>4, <1>6, <1>7

LEMMA SampleSumsIs ==
  ASSUME Units \in Nat, NEW n \in Nat, NEW dz, Mat(dz, n, Units)
  PROVE  /\ Mat(Net!SampleSums(dz), Units, 1)
         /\ \A i \in 1 .. Units : Net!SampleSums(dz)[i][1] = SumFunctionOnSet(ColAt(dz, i), 1 .. n)
<1>1. PICK t : t = Transpose(dz)
  OBVIOUS
<1>2. Mat(t, Units, n) /\ \A i \in 1 .. Units : t[i] = ColAt(dz, i) /\ t[i] \in Vec(n)
  BY <1>1, TransposeIs, RowIs
<1>3. PICK o : o = [j \in 1 .. n |-> 1]
  OBVIOUS
<1>4. ASSUME NEW i \in 1 .. Units
      PROVE  /\ Net!InnerProduct(t[i], [j \in DOMAIN t[i] |-> 1]) = SumFunctionOnSet(ColAt(dz, i), 1 .. n)
             /\ SumFunctionOnSet(ColAt(dz, i), 1 .. n) \in Int
  <2>1. PICK v \in Vec(n) : v = t[i]
    BY <1>2
  <2>2. DOMAIN v = 1 .. n /\ \A j \in 1 .. n : v[j] \in Int /\ v[j] * 1 = v[j]
    BY DEF Vec
  <2>3. InnerProduct(v, o) = Dot(v, o, n)
    BY <2>2, InnerIs
  <2>4. Products(v, o, n) = v
    BY <1>3, <2>2 DEF Products, Vec
  <2>5. [j \in DOMAIN t[i] |-> 1] = o
    BY <1>3, <2>1, <2>2
  <2>6. SumFunctionOnSet(v, 1 .. n) \in Int
    BY <2>2, Fin, SumInt
  <2>7. v = ColAt(dz, i)
    BY <1>2, <2>1
  <2>8. Net!InnerProduct(t[i], [j \in DOMAIN t[i] |-> 1]) = Dot(v, o, n)
    BY <2>1, <2>3, <2>5, NetOps, Zenon
  <2> QED
    BY <2>4, <2>6, <2>7, <2>8 DEF Dot
<1>5. PICK s : s = [i \in 1 .. Units |-> SumFunctionOnSet(ColAt(dz, i), 1 .. n)]
  OBVIOUS
<1>6. s \in Vec(Units) /\ \A i \in 1 .. Units : s[i] = SumFunctionOnSet(ColAt(dz, i), 1 .. n)
  BY <1>4, <1>5 DEF Vec
<1>7. DOMAIN t = 1 .. Units
  BY <1>2 DEF Mat
<1>8. [i \in DOMAIN t |-> Net!InnerProduct(t[i], [j \in DOMAIN t[i] |-> 1])] = s
  BY <1>4, <1>5, <1>7
<1>9. Net!SampleSums(dz) = SliceToMat(s)
  BY <1>1, <1>8, NetOps, Zenon DEF Net!SampleSums
<1>10. Units \in Nat \ {0}
  BY <1>2 DEF Mat
<1> QED
  BY <1>6, <1>9, <1>10, SliceIs

LEMMA ZeroIs ==
  ASSUME NEW r \in Nat \ {0}, NEW c \in Nat \ {0}
  PROVE  /\ Mat(GetZeroMat(r, c), r, c)
         /\ \A i \in 1 .. r, j \in 1 .. c : GetZeroMat(r, c)[i][j] = 0
BY DEF GetZeroMat, Mat, Vec

-----------------------------------------------------------------------------
(* DW and DB are sums over the passes. *)

Gains(s, i, j) == [k \in 1 .. Len(s) |-> Dot(ColAt(s[k][2], i), ColAt(s[k][1], j), Rows(s[k][1]))]
Biases(s, i)   == [k \in 1 .. Len(s) |-> SumFunctionOnSet(ColAt(s[k][2], i), 1 .. Rows(s[k][1]))]

PassesOK(s) == /\ s \in Seq(Batches \X Gradients)
               /\ \A k \in 1 .. Len(s) : Rows(s[k][1]) = Rows(s[k][2])

SumsUp(dw, db, s) ==
  /\ \A i \in 1 .. Units, j \in 1 .. Inputs : dw[i][j] = SumFunctionOnSet(Gains(s, i, j), 1 .. Len(s))
  /\ \A i \in 1 .. Units : db[i][1] = SumFunctionOnSet(Biases(s, i), 1 .. Len(s))

LayerInv ==
  /\ Mat(W, Units, Inputs) /\ Mat(B, Units, 1) /\ Mat(DW, Units, Inputs) /\ Mat(DB, Units, 1)
  /\ X \in Batches \cup {<<>>}
  /\ PassesOK(passes) /\ Len(passes) <= MaxPasses
  /\ updates \in 0 .. MaxUpdates
  /\ SumsUp(DW, DB, passes)

LEMMA NetSizes ==
  ASSUME Net!ConstantsOK
  PROVE  /\ Units \in Nat \ {0} /\ Inputs \in Nat \ {0} /\ MaxPasses \in Nat /\ MaxUpdates \in Nat
         /\ \A x \in Batches : Mat(x, Rows(x), Inputs) /\ Rows(x) \in Nat
         /\ \A dz \in Gradients : Mat(dz, Rows(dz), Units) /\ Rows(dz) \in Nat
<1>1. Units \in Nat \ {0} /\ Inputs \in Nat \ {0} /\ MaxPasses \in Nat /\ MaxUpdates \in Nat
  BY DEF Net!ConstantsOK
<1>2. \A x \in Batches : IsMatrix(x) /\ Cols(x) = Inputs
  BY NetOps, Zenon DEF Net!ConstantsOK
<1>3. \A dz \in Gradients : IsMatrix(dz) /\ Cols(dz) = Units
  BY NetOps, Zenon DEF Net!ConstantsOK
<1>4. \A x \in Batches : Mat(x, Rows(x), Inputs) /\ Rows(x) \in Nat
  BY <1>2, MatIs DEF IsMatrix
<1>5. \A dz \in Gradients : Mat(dz, Rows(dz), Units) /\ Rows(dz) \in Nat
  BY <1>3, MatIs DEF IsMatrix
<1> QED
  BY <1>1, <1>4, <1>5

(* One pass more.                                                          *)
LEMMA OnePass ==
  ASSUME Net!ConstantsOK, NEW s, PassesOK(s), NEW dw, NEW db, Mat(dw, Units, Inputs), Mat(db, Units, 1),
         SumsUp(dw, db, s), NEW x \in Batches, NEW dz \in Gradients, Rows(x) = Rows(dz)
  PROVE  /\ PassesOK(Append(s, <<x, dz>>))
         /\ Mat(Net!Added(dw, dz, x), Units, Inputs) /\ Mat(Net!Add(db, Net!SampleSums(dz)), Units, 1)
         /\ SumsUp(Net!Added(dw, dz, x), Net!Add(db, Net!SampleSums(dz)), Append(s, <<x, dz>>))
<1>1. PICK n, l : n = Rows(x) /\ l = Len(s)
  OBVIOUS
<1>2. n \in Nat /\ l \in Nat /\ Mat(x, n, Inputs) /\ Mat(dz, n, Units) /\ Units \in Nat /\ Inputs \in Nat
  BY <1>1, NetSizes DEF PassesOK
<1>3. PICK t : t = Append(s, <<x, dz>>)
  OBVIOUS
<1>4. /\ t \in Seq(Batches \X Gradients) /\ Len(t) = l + 1 /\ t[l + 1] = <<x, dz>>
      /\ \A k \in 1 .. l : t[k] = s[k]
  BY <1>1, <1>3 DEF PassesOK
<1>5. PassesOK(t)
  <2>1. ASSUME NEW k \in 1 .. l + 1
        PROVE  Rows(t[k][1]) = Rows(t[k][2])
    <3>1. CASE k \in 1 .. l
      BY <1>1, <1>4, <3>1 DEF PassesOK
    <3>2. CASE k = l + 1
      BY <1>4, <3>2
    <3> QED
      BY <1>2, <3>1, <3>2
  <2> QED
    BY <1>4, <2>1 DEF PassesOK
<1>6. PICK a, o, b : a = Net!Added(dw, dz, x) /\ o = Net!SampleSums(dz) /\ b = Net!Add(db, o)
  OBVIOUS
<1>7. /\ Mat(a, Units, Inputs)
      /\ \A i \in 1 .. Units, j \in 1 .. Inputs : a[i][j] = dw[i][j] + Dot(ColAt(dz, i), ColAt(x, j), n)
  BY <1>2, <1>6, AddedIs
<1>8. Mat(o, Units, 1) /\ \A i \in 1 .. Units : o[i][1] = SumFunctionOnSet(ColAt(dz, i), 1 .. n)
  BY <1>2, <1>6, SampleSumsIs
<1>9. b = Add(db, o)
  BY <1>6, NetOps
<1>10. Mat(b, Units, 1) /\ \A i \in 1 .. Units : b[i][1] = db[i][1] + o[i][1]
  <2>1. 1 \in Nat /\ 1 \in 1 .. 1
    OBVIOUS
  <2> QED
    BY <1>2, <1>8, <1>9, <2>1, AddIs
<1>11. \A k \in 1 .. l : /\ Mat(s[k][1], Rows(s[k][1]), Inputs) /\ Mat(s[k][2], Rows(s[k][1]), Units)
                         /\ Rows(s[k][1]) \in Nat
  <2>1. \A k \in 1 .. l : s[k][1] \in Batches /\ s[k][2] \in Gradients /\ Rows(s[k][1]) = Rows(s[k][2])
    BY <1>1 DEF PassesOK
  <2> QED
    BY <2>1, NetSizes
<1>12. ASSUME NEW i \in 1 .. Units, NEW j \in 1 .. Inputs
       PROVE  a[i][j] = SumFunctionOnSet(Gains(t, i, j), 1 .. l + 1)
  <2>1. PICK f, g : f = Gains(s, i, j) /\ g = Gains(t, i, j)
    OBVIOUS
  <2>2. ASSUME NEW k \in 1 .. l
        PROVE  f[k] \in Int
    <3>1. PICK m, p, q : m = Rows(s[k][1]) /\ p = s[k][1] /\ q = s[k][2]
      OBVIOUS
    <3>2. m \in Nat /\ Mat(p, m, Inputs) /\ Mat(q, m, Units)
      BY <1>11, <3>1
    <3>3. ColAt(q, i) \in Vec(m) /\ ColAt(p, j) \in Vec(m)
      BY <1>2, <3>2, ColIs
    <3>4. f[k] = Dot(ColAt(q, i), ColAt(p, j), m)
      BY <1>1, <2>1, <3>1 DEF Gains
    <3> QED
      BY <3>2, <3>3, <3>4, DotType
  <2>3. Dot(ColAt(dz, i), ColAt(x, j), n) \in Int
    BY <1>2, ColIs, DotType
  <2>4. g[l + 1] = Dot(ColAt(dz, i), ColAt(x, j), n)
    <3>1. l + 1 \in 1 .. Len(t) /\ t[l + 1][1] = x /\ t[l + 1][2] = dz
      BY <1>2, <1>4
    <3> QED
      BY <1>1, <2>1, <3>1 DEF Gains
  <2>5. \A k \in 1 .. l : g[k] = f[k]
    <3>1. \A k \in 1 .. l : k \in 1 .. Len(t) /\ k \in 1 .. Len(s) /\ t[k] = s[k]
      BY <1>1, <1>2, <1>4
    <3> QED
      BY <2>1, <3>1 DEF Gains
  <2>6. \A k \in 1 .. l + 1 : g[k] \in Int
    <3>1. \A k \in 1 .. l + 1 : k \in 1 .. l \/ k = l + 1
      BY <1>2
    <3> QED
      BY <2>2, <2>3, <2>4, <2>5, <3>1
  <2>7. SumFunctionOnSet(g, 1 .. l + 1) = SumFunctionOnSet(g, 1 .. l) + g[l + 1]
    BY <1>2, <2>6, SumNext
  <2>8. SumFunctionOnSet(g, 1 .. l) = SumFunctionOnSet(f, 1 .. l)
    BY <1>2, <2>2, <2>5, Fin, SumSame
  <2>9. dw[i][j] = SumFunctionOnSet(f, 1 .. l)
    BY <1>1, <2>1 DEF SumsUp
  <2> QED
    BY <1>7, <2>1, <2>4, <2>7, <2>8, <2>9
<1>13. ASSUME NEW i \in 1 .. Units
       PROVE  b[i][1] = SumFunctionOnSet(Biases(t, i), 1 .. l + 1)
  <2>1. PICK f, g : f = Biases(s, i) /\ g = Biases(t, i)
    OBVIOUS
  <2>2. ASSUME NEW k \in 1 .. l
        PROVE  f[k] \in Int
    <3>1. PICK m, q : m = Rows(s[k][1]) /\ q = s[k][2]
      OBVIOUS
    <3>2. m \in Nat /\ Mat(q, m, Units)
      BY <1>11, <3>1
    <3>3. f[k] = SumFunctionOnSet(ColAt(q, i), 1 .. m)
      BY <1>1, <2>1, <3>1 DEF Biases
    <3> QED
      BY <1>2, <3>2, <3>3, ColumnInt
  <2>3. SumFunctionOnSet(ColAt(dz, i), 1 .. n) \in Int
    BY <1>2, ColumnInt
  <2>4. g[l + 1] = SumFunctionOnSet(ColAt(dz, i), 1 .. n)
    <3>1. l + 1 \in 1 .. Len(t) /\ t[l + 1][1] = x /\ t[l + 1][2] = dz
      BY <1>2, <1>4
    <3> QED
      BY <1>1, <2>1, <3>1 DEF Biases
  <2>5. \A k \in 1 .. l : g[k] = f[k]
    <3>1. \A k \in 1 .. l : k \in 1 .. Len(t) /\ k \in 1 .. Len(s) /\ t[k] = s[k]
      BY <1>1, <1>2, <1>4
    <3> QED
      BY <2>1, <3>1 DEF Biases
  <2>6. \A k \in 1 .. l + 1 : g[k] \in Int
    <3>1. \A k \in 1 .. l + 1 : k \in 1 .. l \/ k = l + 1
      BY <1>2
    <3> QED
      BY <2>2, <2>3, <2>4, <2>5, <3>1
  <2>7. SumFunctionOnSet(g, 1 .. l + 1) = SumFunctionOnSet(g, 1 .. l) + g[l + 1]
    BY <1>2, <2>6, SumNext
  <2>8. SumFunctionOnSet(g, 1 .. l) = SumFunctionOnSet(f, 1 .. l)
    BY <1>2, <2>2, <2>5, Fin, SumSame
  <2>9. db[i][1] = SumFunctionOnSet(f, 1 .. l)
    BY <1>1, <2>1 DEF SumsUp
  <2> QED
    BY <1>8, <1>10, <2>1, <2>4, <2>7, <2>8, <2>9
<1>14. SumsUp(a, b, t)
  BY <1>4, <1>12, <1>13 DEF SumsUp
<1> QED
  BY <1>3, <1>5, <1>6, <1>7, <1>10, <1>14

(* No pass, no gradient.                                                   *)
LEMMA NoPass ==
  ASSUME Net!ConstantsOK, NEW dw, NEW db, dw = GetZeroMat(Units, Inputs), db = GetZeroMat(Units, 1)
  PROVE  /\ Mat(dw, Units, Inputs) /\ Mat(db, Units, 1)
         /\ PassesOK(<<>>) /\ SumsUp(dw, db, <<>>) /\ Len(<<>>) <= MaxPasses
<1>1. Units \in Nat \ {0} /\ Inputs \in Nat \ {0} /\ 1 \in Nat \ {0} /\ 1 \in 1 .. 1 /\ MaxPasses \in Nat
  BY NetSizes
<1>2. /\ Mat(dw, Units, Inputs) /\ Mat(db, Units, 1)
      /\ \A i \in 1 .. Units, j \in 1 .. Inputs : dw[i][j] = 0
      /\ \A i \in 1 .. Units : db[i][1] = 0
  BY <1>1, ZeroIs
<1>3. PICK e : e = <<>>
  OBVIOUS
<1>4. e \in Seq(Batches \X Gradients) /\ Len(e) = 0 /\ 1 .. Len(e) = {}
  BY <1>3
<1>5. \A i, j : /\ SumFunctionOnSet(Gains(e, i, j), 1 .. Len(e)) = 0
                /\ SumFunctionOnSet(Biases(e, i), 1 .. Len(e)) = 0
  BY <1>4, SumNone
<1>6. PassesOK(e) /\ SumsUp(dw, db, e) /\ Len(e) <= MaxPasses
  BY <1>1, <1>2, <1>4, <1>5 DEF PassesOK, SumsUp
<1> QED
  BY <1>2, <1>3, <1>6

LEMMA LayerInit == Net!ConstantsOK /\ Net!Init => LayerInv
<1> SUFFICES ASSUME Net!ConstantsOK, Net!Init PROVE LayerInv
  OBVIOUS
<1>1. Units \in Nat \ {0} /\ Inputs \in Nat \ {0} /\ Weights \subseteq Int /\ MaxUpdates \in Nat
  BY DEF Net!ConstantsOK
<1>2. Mat(W, Units, Inputs)
  BY <1>1 DEF Net!Init, Mat, Vec
<1>3. B = GetZeroMat(Units, 1) /\ DW = GetZeroMat(Units, Inputs) /\ DB = GetZeroMat(Units, 1)
  BY NetOps, Zenon DEF Net!Init
<1>4. Mat(B, Units, 1)
  BY <1>3, NoPass
<1>5. X = <<>> /\ passes = <<>> /\ updates = 0
  BY DEF Net!Init
<1> QED
  BY <1>1, <1>2, <1>3, <1>4, <1>5, NoPass DEF LayerInv

LEMMA LayerStep == Net!ConstantsOK /\ LayerInv /\ [Net!Next]_(Net!vars) => LayerInv'
<1> SUFFICES ASSUME Net!ConstantsOK, LayerInv, [Net!Next]_(Net!vars) PROVE LayerInv'
  OBVIOUS
<1>0. Units \in Nat \ {0} /\ Inputs \in Nat \ {0} /\ MaxPasses \in Nat /\ MaxUpdates \in Nat
  BY NetSizes
<1>1. ASSUME NEW batch \in Batches, Net!Forward(batch)
      PROVE  LayerInv'
  BY <1>1 DEF LayerInv, Net!Forward
<1>2. ASSUME NEW dz \in Gradients, Net!Backward(dz)
      PROVE  LayerInv'
  <2>1. PICK x \in Batches : x = X
    BY <1>2 DEF Net!Backward, LayerInv
  <2>2. Rows(x) = Rows(dz)
    BY <1>2, <2>1, NetOps DEF Net!Backward
  <2>3. PICK a, b, t : a = Net!Added(DW, dz, x) /\ b = Net!Add(DB, Net!SampleSums(dz)) /\ t = Append(passes, <<x, dz>>)
    OBVIOUS
  <2>4. PassesOK(t) /\ Mat(a, Units, Inputs) /\ Mat(b, Units, 1) /\ SumsUp(a, b, t)
    BY <2>2, <2>3, OnePass DEF LayerInv
  <2>5. DW' = a /\ DB' = b /\ passes' = t /\ UNCHANGED <<W, B, X, updates>>
    BY <1>2, <2>1, <2>3 DEF Net!Backward
  <2>6. Len(t) <= MaxPasses
    BY <1>0, <1>2, <2>3 DEF Net!Backward, LayerInv, PassesOK
  <2> QED
    BY <2>4, <2>5, <2>6 DEF LayerInv
<1>3. ASSUME NEW gamma \in Gamma, Net!UpdatePara(gamma)
      PROVE  LayerInv'
  <2>1. gamma \in Int
    BY DEF Net!ConstantsOK
  <2>2. 1 \in Nat
    OBVIOUS
  <2>3. Mat(MulConstant(DW, gamma), Units, Inputs) /\ Mat(MulConstant(DB, gamma), Units, 1)
    BY <1>0, <2>1, <2>2, ScaledIs DEF LayerInv
  <2>4. Mat(Sub(W, MulConstant(DW, gamma)), Units, Inputs) /\ Mat(Sub(B, MulConstant(DB, gamma)), Units, 1)
    BY <1>0, <2>2, <2>3, SubIs DEF LayerInv
  <2>5. W' = Sub(W, MulConstant(DW, gamma)) /\ B' = Sub(B, MulConstant(DB, gamma))
    BY <1>3, NetOps, Zenon DEF Net!UpdatePara
  <2>6. Rows(DW) = Units /\ Cols(DW) = Inputs /\ Rows(DB) = Units /\ Cols(DB) = 1
    BY <1>0, <2>2, MatSize DEF LayerInv
  <2>7. DW' = GetZeroMat(Units, Inputs) /\ DB' = GetZeroMat(Units, 1)
    BY <1>3, <2>6, NetOps, Zenon DEF Net!UpdatePara, Net!Zeroed
  <2>8. PICK z, y : z = GetZeroMat(Units, Inputs) /\ y = GetZeroMat(Units, 1)
    OBVIOUS
  <2>9. Mat(z, Units, Inputs) /\ Mat(y, Units, 1) /\ PassesOK(<<>>) /\ SumsUp(z, y, <<>>) /\ Len(<<>>) <= MaxPasses
    BY <2>8, NoPass
  <2>10. passes' = <<>> /\ X' = X /\ updates' \in 0 .. MaxUpdates
    BY <1>0, <1>3 DEF Net!UpdatePara, LayerInv
  <2> QED
    BY <2>4, <2>5, <2>7, <2>8, <2>9, <2>10 DEF LayerInv
<1>4. CASE UNCHANGED Net!vars
  BY <1>4 DEF Net!vars, LayerInv
<1> QED
  BY <1>1, <1>2, <1>3, <1>4, Zenon DEF Net!Next

LEMMA LayerTyped == Net!ConstantsOK /\ LayerInv => Net!TypeOK
<1> SUFFICES ASSUME Net!ConstantsOK, LayerInv PROVE Net!TypeOK
  OBVIOUS
<1>1. Units \in Nat /\ Inputs \in Nat /\ 1 \in Nat /\ MaxPasses \in Nat
  BY NetSizes
<1>2. /\ Rows(W) = Units /\ Cols(W) = Inputs /\ Rows(DW) = Units /\ Cols(DW) = Inputs
      /\ Rows(B) = Units /\ Cols(B) = 1 /\ Rows(DB) = Units /\ Cols(DB) = 1
  BY <1>1, MatSize DEF LayerInv
<1>3. Net!SameShape(DW, W) /\ Net!SameShape(DB, B) /\ Net!Rows(W) = Units /\ Net!Cols(W) = Inputs
  BY <1>2, NetOps DEF Net!SameShape
<1>4. Len(passes) \in 0 .. MaxPasses
  BY <1>1 DEF LayerInv, PassesOK
<1> QED
  BY <1>3, <1>4 DEF Net!TypeOK, LayerInv

(* AllPasses, for a sum known pass by pass.                                *)
LEMMA PassByPass ==
  ASSUME Net!ConstantsOK, LayerInv, NEW w, NEW b, Mat(w, Units, Inputs), Mat(b, Units, 1), NEW e,
         \A k \in 1 .. Len(passes) :
           /\ e[k] \in Int
           /\ Net!Weighted(w, b, passes[k][1], passes[k][2])
              = Net!Weighted(W, B, passes[k][1], passes[k][2]) + e[k]
  PROVE  SumFunctionOnSet(e, 1 .. Len(passes)) = Net!AllPasses(w, b) - Net!AllPasses(W, B)
<1>1. PICK s, l : s = passes /\ l = Len(passes)
  OBVIOUS
<1>2. PICK f, h : /\ f = [k \in 1 .. l |-> Net!Weighted(W, B, s[k][1], s[k][2])]
                  /\ h = [k \in 1 .. l |-> Net!Weighted(w, b, s[k][1], s[k][2])]
  OBVIOUS
<1>3. DOMAIN s = 1 .. l /\ l \in Nat
  BY <1>1 DEF LayerInv, PassesOK
<1>4. Net!AllPasses(W, B) = SumFunctionOnSet(f, 1 .. l)
  BY <1>1, <1>2, <1>3, NetOps DEF Net!AllPasses, SumFunction
<1>5. Net!AllPasses(w, b) = SumFunctionOnSet(h, 1 .. l)
  BY <1>1, <1>2, <1>3, NetOps DEF Net!AllPasses, SumFunction
<1>6. ASSUME NEW k \in 1 .. l
      PROVE  f[k] \in Int /\ e[k] \in Int /\ h[k] = f[k] + e[k]
  <2>1. PICK x \in Batches, dz \in Gradients : x = s[k][1] /\ dz = s[k][2] /\ Rows(x) = Rows(dz)
    BY <1>1, <1>3 DEF LayerInv, PassesOK
  <2>2. Mat(x, Rows(x), Inputs) /\ Mat(dz, Rows(x), Units) /\ Rows(x) \in Nat /\ Units \in Nat /\ Inputs \in Nat
    BY <2>1, NetSizes
  <2>3. Net!Weighted(W, B, x, dz) \in Int
    BY <2>2, WeightedInt DEF LayerInv
  <2>4. f[k] = Net!Weighted(W, B, x, dz) /\ h[k] = Net!Weighted(w, b, x, dz)
    BY <1>2, <2>1
  <2> QED
    BY <1>1, <2>1, <2>3, <2>4
<1>7. SumFunctionOnSet(h, 1 .. l) = SumFunctionOnSet(f, 1 .. l) + SumFunctionOnSet(e, 1 .. l)
  BY <1>3, <1>6, Fin, SumPlus, ZenonT(40)
<1>8. SumFunctionOnSet(f, 1 .. l) \in Int /\ SumFunctionOnSet(e, 1 .. l) \in Int
  BY <1>3, <1>6, Fin, SumInt
<1> QED
  BY <1>1, <1>4, <1>5, <1>7, <1>8

LEMMA LayerAddsUp == Net!ConstantsOK /\ LayerInv => Net!GradientsAddUp
<1> SUFFICES ASSUME Net!ConstantsOK, LayerInv PROVE Net!GradientsAddUp
  OBVIOUS
<1>1. PICK s, l : s = passes /\ l = Len(passes)
  OBVIOUS
<1>2. l \in Nat /\ Units \in Nat /\ Inputs \in Nat /\ 1 \in Nat /\ 1 \in 1 .. 1
  BY <1>1, NetSizes DEF LayerInv, PassesOK
<1>3. ASSUME NEW k \in 1 .. l
      PROVE  \E x, dz : /\ x = s[k][1] /\ dz = s[k][2] /\ Rows(x) \in Nat
                        /\ Mat(x, Rows(x), Inputs) /\ Mat(dz, Rows(x), Units)
  <2>1. s[k][1] \in Batches /\ s[k][2] \in Gradients /\ Rows(s[k][1]) = Rows(s[k][2])
    BY <1>1 DEF LayerInv, PassesOK
  <2> QED
    BY <2>1, NetSizes
<1>4. ASSUME NEW i \in 1 .. Units, NEW j \in 1 .. Inputs
      PROVE  DW[i][j] = Net!AllPasses([W EXCEPT ![i][j] = @ + 1], B) - Net!AllPasses(W, B)
  <2>1. PICK v : v = Raised(W, i, j)
    OBVIOUS
  <2>2. Mat(v, Units, Inputs)
    BY <1>2, <2>1, OneMore DEF LayerInv
  <2>3. PICK e : e = Gains(s, i, j)
    OBVIOUS
  <2>4. ASSUME NEW k \in 1 .. l
        PROVE  e[k] \in Int /\ Net!Weighted(v, B, s[k][1], s[k][2]) = Net!Weighted(W, B, s[k][1], s[k][2]) + e[k]
    <3>1. PICK x, dz : /\ x = s[k][1] /\ dz = s[k][2] /\ Rows(x) \in Nat
                       /\ Mat(x, Rows(x), Inputs) /\ Mat(dz, Rows(x), Units)
      BY <1>3
    <3>2. Net!Weighted(Raised(W, i, j), B, x, dz)
          = Net!Weighted(W, B, x, dz) + Dot(ColAt(dz, i), ColAt(x, j), Rows(x))
      BY <1>2, <3>1, WeightSlope DEF LayerInv
    <3>3. e[k] = Dot(ColAt(dz, i), ColAt(x, j), Rows(x))
      BY <1>1, <2>3, <3>1 DEF Gains
    <3>4. Dot(ColAt(dz, i), ColAt(x, j), Rows(x)) \in Int
      BY <1>2, <3>1, ColIs, DotType
    <3> QED
      BY <2>1, <3>1, <3>2, <3>3, <3>4
  <2>5. SumFunctionOnSet(e, 1 .. l) = Net!AllPasses(v, B) - Net!AllPasses(W, B)
    BY <1>1, <2>2, <2>4, PassByPass DEF LayerInv
  <2>6. DW[i][j] = SumFunctionOnSet(e, 1 .. l)
    BY <1>1, <2>3 DEF LayerInv, SumsUp
  <2> QED
    BY <2>1, <2>5, <2>6 DEF Raised
<1>5. ASSUME NEW i \in 1 .. Units
      PROVE  DB[i][1] = Net!AllPasses(W, [B EXCEPT ![i][1] = @ + 1]) - Net!AllPasses(W, B)
  <2>1. PICK v : v = Raised(B, i, 1)
    OBVIOUS
  <2>2. Mat(v, Units, 1)
    BY <1>2, <2>1, OneMore DEF LayerInv
  <2>3. PICK e : e = Biases(s, i)
    OBVIOUS
  <2>4. ASSUME NEW k \in 1 .. l
        PROVE  e[k] \in Int /\ Net!Weighted(W, v, s[k][1], s[k][2]) = Net!Weighted(W, B, s[k][1], s[k][2]) + e[k]
    <3>1. PICK x, dz : /\ x = s[k][1] /\ dz = s[k][2] /\ Rows(x) \in Nat
                       /\ Mat(x, Rows(x), Inputs) /\ Mat(dz, Rows(x), Units)
      BY <1>3
    <3>2. Net!Weighted(W, Raised(B, i, 1), x, dz)
          = Net!Weighted(W, B, x, dz) + SumFunctionOnSet(ColAt(dz, i), 1 .. Rows(x))
      BY <1>2, <3>1, BiasSlope DEF LayerInv
    <3>3. e[k] = SumFunctionOnSet(ColAt(dz, i), 1 .. Rows(x))
      BY <1>1, <2>3, <3>1 DEF Biases
    <3>4. SumFunctionOnSet(ColAt(dz, i), 1 .. Rows(x)) \in Int
      BY <1>2, <3>1, ColumnInt
    <3> QED
      BY <2>1, <3>1, <3>2, <3>3, <3>4
  <2>5. SumFunctionOnSet(e, 1 .. l) = Net!AllPasses(W, v) - Net!AllPasses(W, B)
    BY <1>1, <2>2, <2>4, PassByPass DEF LayerInv
  <2>6. DB[i][1] = SumFunctionOnSet(e, 1 .. l)
    BY <1>1, <2>3 DEF LayerInv, SumsUp
  <2> QED
    BY <2>1, <2>5, <2>6 DEF Raised
<1> QED
  BY <1>4, <1>5 DEF Net!GradientsAddUp

LEMMA BackSlopes == Net!ConstantsOK /\ LayerInv => Net!BackIsSlope
<1> SUFFICES ASSUME Net!ConstantsOK, LayerInv, X # <<>>, NEW dz \in Gradients, Rows(dz) = Rows(X),
                    NEW n \in DOMAIN X, NEW j \in 1 .. Inputs
             PROVE  Net!Back(dz, W)[n][j]
                    = Net!Weighted(W, B, [X EXCEPT ![n][j] = @ + 1], dz) - Net!Weighted(W, B, X, dz)
  BY NetOps, Zenon DEF Net!BackIsSlope
<1>1. PICK x \in Batches, r \in Nat : x = X /\ r = Rows(x) /\ Mat(x, r, Inputs) /\ Mat(dz, r, Units)
  BY NetSizes DEF LayerInv
<1>2. Units \in Nat /\ Inputs \in Nat /\ Mat(W, Units, Inputs) /\ Mat(B, Units, 1)
  BY NetSizes DEF LayerInv
<1>3. n \in 1 .. r
  BY <1>1 DEF Mat
<1>4. PICK k \in 1 .. r : k = n
  BY <1>3
<1>5. Net!Weighted(W, B, Raised(x, k, j), dz) = Net!Weighted(W, B, x, dz) + Mul(dz, W)[k][j]
  BY <1>1, <1>2, InputSlope
<1>6. Net!Weighted(W, B, x, dz) \in Int
  BY <1>1, <1>2, WeightedInt
<1>7. Mul(dz, W)[k][j] \in Int
  BY <1>1, <1>2, MulIs, RowIs
<1>8. Net!Back(dz, W) = Mul(dz, W)
  BY NetOps DEF Net!Back
<1> QED
  BY <1>1, <1>4, <1>5, <1>6, <1>7, <1>8 DEF Raised

-----------------------------------------------------------------------------
(* Flat vectors. *)

LEMMA DivisionIs ==
  ASSUME NEW n \in Nat \ {0}, NEW a \in Nat, NEW r \in 0 .. n - 1
  PROVE  (a * n + r) \div n = a /\ (a * n + r) % n = r
<1>1. PICK m \in Nat : m = a * n + r
  <2>1. a * n \in Nat
    OBVIOUS
  <2> QED
    BY <2>1
<1>2. PICK q \in Nat, s \in 0 .. n - 1 : m = q * n + s /\ q = m \div n /\ s = m % n
  OBVIOUS
<1>3. ASSUME NEW x \in Nat, NEW y \in Nat, x > y
      PROVE  x * n >= y * n + n
  <2>1. PICK d \in Nat : x = y + 1 + d
    <3>1. x - y - 1 \in Nat /\ x = y + 1 + (x - y - 1)
      BY <1>3
    <3> QED
      BY <3>1
  <2>2. (y + 1 + d) * n = y * n + n + d * n /\ d * n \in Nat
    OBVIOUS
  <2> QED
    BY <2>1, <2>2
<1>4. PICK b \in Nat, c \in Nat : b = a * n /\ c = q * n
  <2>1. a * n \in Nat /\ q * n \in Nat
    OBVIOUS
  <2> QED
    BY <2>1
<1>5. ~(a > q) /\ ~(q > a)
  BY <1>1, <1>2, <1>3, <1>4
<1>6. a = q
  BY <1>5
<1> QED
  BY <1>1, <1>2, <1>4, <1>6

(* The place of the k-th entry of a matrix of n columns.                   *)
RowOf(k, n) == ((k - 1) \div n) + 1
ColOf(k, n) == ((k - 1) % n) + 1

LEMMA PlaceOf ==
  ASSUME NEW n \in Nat \ {0}, NEW r \in Nat, NEW i \in 1 .. r, NEW j \in 1 .. n
  PROVE  /\ (i - 1) * n + j \in 1 .. r * n
         /\ RowOf((i - 1) * n + j, n) = i /\ ColOf((i - 1) * n + j, n) = j
<1>1. PICK a \in Nat, s \in 0 .. n - 1 : a = i - 1 /\ s = j - 1
  OBVIOUS
<1>2. PICK m \in Nat : m = a * n
  OBVIOUS
<1>3. (a * n + s) \div n = a /\ (a * n + s) % n = s
  BY DivisionIs
<1>4. (i - 1) * n + j = m + j /\ m + j - 1 = a * n + s
  BY <1>1, <1>2
<1>5. RowOf(m + j, n) = i /\ ColOf(m + j, n) = j
  BY <1>1, <1>3, <1>4 DEF RowOf, ColOf
<1>6. m + j <= r * n
  <2>1. PICK d \in Nat : r = a + 1 + d
    <3>1. r - i \in Nat /\ r = a + 1 + (r - i)
      BY <1>1
    <3> QED
      BY <3>1
  <2>2. (a + 1 + d) * n = a * n + n + d * n /\ d * n \in Nat
    OBVIOUS
  <2> QED
    BY <1>2, <2>1, <2>2
<1>7. m + j \in 1 .. r * n
  BY <1>6
<1> QED
  BY <1>4, <1>5, <1>7

LEMMA PlaceIs ==
  ASSUME NEW n \in Nat \ {0}, NEW r \in Nat, NEW k \in 1 .. r * n
  PROVE  /\ RowOf(k, n) \in 1 .. r /\ ColOf(k, n) \in 1 .. n
         /\ k = (RowOf(k, n) - 1) * n + ColOf(k, n)
<1>1. PICK m \in Nat : m = k - 1
  OBVIOUS
<1>2. PICK q \in Nat, s \in 0 .. n - 1 : m = q * n + s /\ q = m \div n /\ s = m % n
  OBVIOUS
<1>3. RowOf(k, n) = q + 1 /\ ColOf(k, n) = s + 1
  BY <1>1, <1>2 DEF RowOf, ColOf
<1>4. q < r
  <2>1. SUFFICES ASSUME q >= r PROVE FALSE
    OBVIOUS
  <2>2. PICK d \in Nat : q = r + d
    <3>1. q - r \in Nat /\ q = r + (q - r)
      BY <2>1
    <3> QED
      BY <3>1
  <2>3. (r + d) * n = r * n + d * n /\ d * n \in Nat /\ r * n \in Nat
    OBVIOUS
  <2>4. k <= r * n
    OBVIOUS
  <2> QED
    BY <1>1, <1>2, <2>2, <2>3, <2>4
<1>5. q + 1 - 1 = q /\ q + 1 \in 1 .. r /\ s + 1 \in 1 .. n
  BY <1>4
<1>6. k = q * n + (s + 1)
  <2>1. PICK p \in Nat : p = q * n
    OBVIOUS
  <2> QED
    BY <1>1, <1>2, <2>1
<1> QED
  BY <1>3, <1>5, <1>6

(* Row by row.                                                             *)
FlatRows(w, i, c) == [k \in 1 .. i * c |-> w[RowOf(k, c)][ColOf(k, c)]]

LEMMA FromOne ==
  ASSUME NEW n \in Nat \ {0}, NEW S, 1 \in S, \A k \in 1 .. n - 1 : k \in S => k + 1 \in S
  PROVE  \A k \in 1 .. n : k \in S
<1> DEFINE P == {k \in Nat : k >= 1 /\ k <= n /\ k \notin S}
<1> SUFFICES ASSUME P # {} PROVE FALSE
  OBVIOUS
<1>1. PICK k \in P : \A m \in P : k <= m
  <2> HIDE DEF P
  <2>1. P \subseteq Nat
    BY DEF P
  <2> QED
    BY <2>1, LeastNumber
<1>2. k # 1 /\ k - 1 \in 1 .. n - 1 /\ k - 1 \in Nat /\ k - 1 + 1 = k
  OBVIOUS
<1>3. k - 1 \notin P
  BY <1>1, <1>2
<1>4. k - 1 \in S
  BY <1>2, <1>3
<1> QED
  BY <1>2, <1>4

Joint(t, f, v, m, c) ==
  /\ t \in Seq(Int) /\ Len(t) = m + c
  /\ \A k \in 1 .. m : t[k] = f[k]
  /\ \A k \in Nat, j \in 1 .. c : k = m + j => t[k] = v[j]

LEMMA Joins ==
  ASSUME NEW m \in Nat, NEW c \in Nat, NEW f \in Vec(m), NEW v \in Vec(c)
  PROVE  Joint(f \o v, f, v, m, c)
<1>1. PICK a \in Seq(Int), b \in Seq(Int) : a = f /\ b = v /\ Len(a) = m /\ Len(b) = c
  BY DEF Vec
<1>2. /\ a \o b \in Seq(Int) /\ Len(a \o b) = Len(a) + Len(b)
      /\ \A k \in 1 .. Len(a) + Len(b) : (a \o b)[k] = IF k <= Len(a) THEN a[k] ELSE b[k - Len(a)]
  BY ConcatProperties
<1>3. PICK t : t = a \o b
  OBVIOUS
<1>4. /\ t \in Seq(Int) /\ Len(t) = m + c
      /\ \A k \in 1 .. m + c : t[k] = IF k <= m THEN a[k] ELSE b[k - m]
  BY <1>1, <1>2, <1>3
<1>5. ASSUME NEW k \in 1 .. m
      PROVE  t[k] = a[k]
  <2>1. k \in 1 .. m + c /\ k <= m
    OBVIOUS
  <2> QED
    BY <1>4, <2>1
<1>6. ASSUME NEW k \in Nat, NEW j \in 1 .. c, k = m + j
      PROVE  t[k] = b[j]
  <2>1. k \in 1 .. m + c /\ ~(k <= m) /\ k - m = j
    BY <1>6
  <2> QED
    BY <1>4, <2>1
<1>7. Joint(t, a, b, m, c)
  BY <1>4, <1>5, <1>6 DEF Joint
<1> QED
  BY <1>1, <1>3, <1>7

LEMMA FlatRowsType ==
  ASSUME NEW r \in Nat, NEW c \in Nat \ {0}, NEW w, Mat(w, r, c), NEW i \in 0 .. r
  PROVE  FlatRows(w, i, c) \in Vec(i * c)
<1>1. PICK l \in Nat : l = i * c
  OBVIOUS
<1>2. ASSUME NEW k \in 1 .. l
      PROVE  w[RowOf(k, c)][ColOf(k, c)] \in Int
  <2>1. k \in 1 .. i * c /\ i \in Nat
    BY <1>1
  <2>2. PICK a \in 1 .. i, b \in 1 .. c : a = RowOf(k, c) /\ b = ColOf(k, c)
    BY <2>1, PlaceIs
  <2>3. a \in 1 .. r
    BY <2>2
  <2>4. w[a][b] \in Int
    BY <2>3, MatSize
  <2> QED
    BY <2>2, <2>4
<1>3. FlatRows(w, i, c) = [k \in 1 .. l |-> w[RowOf(k, c)][ColOf(k, c)]]
  BY <1>1 DEF FlatRows
<1>4. FlatRows(w, i, c) \in Vec(l)
  BY <1>2, <1>3 DEF Vec
<1> QED
  BY <1>1, <1>4

LEMMA NextRow ==
  ASSUME NEW r \in Nat, NEW c \in Nat \ {0}, NEW w, Mat(w, r, c), NEW i \in 1 .. r, NEW h \in Nat, h = i - 1
  PROVE  FlatRows(w, h, c) \o w[i] = FlatRows(w, i, c)
<1>1. PICK m \in Nat, l \in Nat : m = h * c /\ l = i * c
  OBVIOUS
<1>2. l = m + c
  <2>1. (h + 1) * c = h * c + c /\ h + 1 = i
    OBVIOUS
  <2> QED
    BY <1>1, <2>1
<1>3. PICK f, g, v : f = FlatRows(w, h, c) /\ g = FlatRows(w, i, c) /\ v = w[i]
  OBVIOUS
<1>4. f \in Vec(m) /\ g \in Vec(l) /\ v \in Vec(c)
  <2>1. h \in 0 .. r /\ i \in 0 .. r
    OBVIOUS
  <2> QED
    BY <1>1, <1>3, <2>1, FlatRowsType, RowIs
<1>5. /\ \A k \in 1 .. m : f[k] = w[RowOf(k, c)][ColOf(k, c)]
      /\ \A k \in 1 .. l : g[k] = w[RowOf(k, c)][ColOf(k, c)]
  BY <1>1, <1>3 DEF FlatRows
<1>6. PICK t : t = f \o v
  OBVIOUS
<1>7. /\ t \in Vec(l)
      /\ \A k \in 1 .. m : t[k] = f[k]
      /\ \A k \in Nat, j \in 1 .. c : k = m + j => t[k] = v[j]
  <2>1. c \in Nat
    OBVIOUS
  <2>2. Joint(t, f, v, m, c)
    BY <1>4, <1>6, <2>1, Joins
  <2>3. t \in Seq(Int) /\ Len(t) = l
    BY <1>2, <2>2 DEF Joint
  <2>4. t \in Vec(l)
    BY <2>3 DEF Vec
  <2> QED
    BY <2>2, <2>4 DEF Joint
<1>8. ASSUME NEW k \in 1 .. l
      PROVE  t[k] = g[k]
  <2>1. CASE k \in 1 .. m
    BY <1>5, <1>7, <2>1
  <2>2. CASE k \notin 1 .. m
    <3>1. PICK j \in 1 .. c : k = m + j
      <4>1. k - m \in 1 .. c /\ k = m + (k - m)
        BY <1>2, <2>2
      <4> QED
        BY <4>1
    <3>2. t[k] = v[j]
      BY <1>7, <3>1
    <3>3. RowOf(k, c) = i /\ ColOf(k, c) = j
      <4>1. (i - 1) * c + j = k
        BY <1>1, <3>1
      <4> QED
        BY <4>1, PlaceOf, ZenonT(40)
    <3> QED
      BY <1>3, <1>5, <3>2, <3>3
  <2> QED
    BY <2>1, <2>2
<1>9. t = g
  BY <1>4, <1>7, <1>8 DEF Vec
<1> QED
  BY <1>3, <1>6, <1>9

LEMMA FlatIs ==
  ASSUME NEW r \in Nat, NEW c \in Nat \ {0}, NEW w, Mat(w, r, c)
  PROVE  Net!FlattenSeq(w) = FlatRows(w, r, c)
<1>0. r \in Nat \ {0} /\ DOMAIN w = 1 .. r /\ Len(w) = r
  BY MatSize DEF Mat, Rows
<1>1. PICK G : G = [i \in 1 .. r |-> FlatRows(w, i, c)]
  OBVIOUS
<1>2. ASSUME NEW i \in 2 .. r
      PROVE  G[i - 1] \o w[i] = G[i]
  <2>1. i - 1 \in 1 .. r /\ i \in 1 .. r /\ i - 1 \in Nat
    OBVIOUS
  <2>2. FlatRows(w, i - 1, c) \o w[i] = FlatRows(w, i, c)
    BY <2>1, NextRow
  <2> QED
    BY <1>1, <2>1, <2>2
<1>3. G[1] = w[1]
  <2>1. FlatRows(w, 0, c) \o w[1] = FlatRows(w, 1, c)
    <3>1. 1 \in 1 .. r /\ 0 \in Nat /\ 0 = 1 - 1
      BY <1>0
    <3> QED
      BY <3>1, NextRow
  <2>2. FlatRows(w, 0, c) = <<>>
    <3>1. 1 .. 0 * c = {}
      OBVIOUS
    <3>2. FlatRows(w, 0, c) = [k \in {} |-> w[RowOf(k, c)][ColOf(k, c)]]
      BY <3>1 DEF FlatRows
    <3> QED
      BY <3>2
  <2>3. w[1] \in Seq(Int)
    BY <1>0, RowIs DEF Vec
  <2>4. <<>> \o w[1] = w[1]
    BY <2>3
  <2>5. 1 \in 1 .. r
    BY <1>0
  <2>6. G[1] = FlatRows(w, 1, c)
    BY <1>1, <2>5
  <2> QED
    BY <2>1, <2>2, <2>4, <2>6, Zenon
<1> DEFINE F(g) == g = [i \in 1 .. r |-> IF i = 1 THEN w[i] ELSE g[i - 1] \o w[i]]
<1>4. F(G)
  <2>1. \A i \in 1 .. r : i = 1 \/ i \in 2 .. r
    BY <1>0
  <2>2. \A i \in 1 .. r : G[i] = IF i = 1 THEN w[i] ELSE G[i - 1] \o w[i]
    BY <1>2, <1>3, <2>1
  <2> QED
    BY <1>1, <2>2
<1>5. ASSUME NEW g, F(g)
      PROVE  g = G
  <2> DEFINE S == {i \in 1 .. r : g[i] = G[i]}
  <2>1. 1 \in S
    BY <1>0, <1>3, <1>5
  <2>2. ASSUME NEW k \in 1 .. r - 1, k \in S
        PROVE  k + 1 \in S
    <3>1. PICK j \in 2 .. r : j = k + 1 /\ j - 1 = k /\ j \in 1 .. r /\ j # 1
      BY <1>0
    <3>2. g[j] = g[k] \o w[j]
      <4>1. \A i \in 1 .. r : g[i] = IF i = 1 THEN w[i] ELSE g[i - 1] \o w[i]
        BY <1>5
      <4> QED
        BY <3>1, <4>1, Zenon
    <3>3. G[k] \o w[j] = G[j]
      BY <1>2, <3>1, Zenon
    <3>4. g[k] = G[k]
      BY <2>2
    <3> QED
      BY <3>1, <3>2, <3>3, <3>4
  <2>3. \A k \in 1 .. r : k \in S
    <3> HIDE DEF S
    <3> QED
      BY <1>0, <2>1, <2>2, FromOne
  <2>4. \A k \in 1 .. r : g[k] = G[k]
    BY <2>3
  <2>5. g = [i \in 1 .. r |-> g[i]]
    BY <1>5
  <2> QED
    BY <1>1, <2>4, <2>5
<1>6. Net!FlattenSeq(w) = (CHOOSE g : F(g))[r]
  BY <1>0 DEF Net!FlattenSeq
<1>7. (CHOOSE g : F(g)) = G
  <2> HIDE DEF F
  <2> QED
    BY <1>4, <1>5
<1>8. G[r] = FlatRows(w, r, c)
  BY <1>0, <1>1
<1> QED
  BY <1>6, <1>7, <1>8

(* Weights and biases in one vector.                                       *)
Cells == Units * Inputs
Place(i, j) == (i - 1) * Inputs + j

Whole(t, w, b) ==
  /\ t \in Vec(Cells + Units)
  /\ \A i \in 1 .. Units, j \in 1 .. Inputs : t[Place(i, j)] = w[i][j]
  /\ \A i \in 1 .. Units : t[Cells + i] = b[i][1]

LEMMA Places ==
  ASSUME Units \in Nat \ {0}, Inputs \in Nat \ {0}
  PROVE  /\ Cells \in Nat
         /\ \A i \in 1 .. Units, j \in 1 .. Inputs :
              /\ Place(i, j) \in 1 .. Cells
              /\ RowOf(Place(i, j), Inputs) = i /\ ColOf(Place(i, j), Inputs) = j
         /\ \A k \in 1 .. Cells :
              /\ RowOf(k, Inputs) \in 1 .. Units /\ ColOf(k, Inputs) \in 1 .. Inputs
              /\ k = Place(RowOf(k, Inputs), ColOf(k, Inputs))
<1>1. Cells \in Nat
  BY DEF Cells
<1>2. Units \in Nat
  OBVIOUS
<1>3. ASSUME NEW i \in 1 .. Units, NEW j \in 1 .. Inputs
      PROVE  /\ Place(i, j) \in 1 .. Cells
             /\ RowOf(Place(i, j), Inputs) = i /\ ColOf(Place(i, j), Inputs) = j
  BY <1>2, PlaceOf DEF Place, Cells
<1>4. ASSUME NEW k \in 1 .. Cells
      PROVE  /\ RowOf(k, Inputs) \in 1 .. Units /\ ColOf(k, Inputs) \in 1 .. Inputs
             /\ k = Place(RowOf(k, Inputs), ColOf(k, Inputs))
  <2>1. k \in 1 .. Units * Inputs
    BY DEF Cells
  <2> QED
    BY <1>2, <2>1, PlaceIs DEF Place
<1> QED
  BY <1>1, <1>3, <1>4

LEMMA FlatWB ==
  ASSUME Units \in Nat \ {0}, Inputs \in Nat \ {0}, NEW w, NEW b,
         Mat(w, Units, Inputs), Mat(b, Units, 1)
  PROVE  Whole(Net!FlattenWB(w, b), w, b)
<1>0. Units \in Nat /\ Inputs \in Nat /\ 1 \in Nat /\ 1 \in 1 .. 1 /\ Cells \in Nat
  BY Places
<1>1. PICK f, v, t : f = FlatRows(w, Units, Inputs) /\ v = ColAt(b, 1) /\ t = f \o v
  OBVIOUS
<1>2. f \in Vec(Cells)
  <2>1. Units \in 0 .. Units
    BY <1>0
  <2> QED
    BY <1>0, <1>1, <2>1, FlatRowsType DEF Cells
<1>3. v \in Vec(Units) /\ \A i \in 1 .. Units : v[i] = b[i][1]
  <2>1. ColAt(b, 1) \in Vec(Units)
    BY <1>0, ColIs
  <2>2. Rows(b) = Units
    BY <1>0, MatSize
  <2> QED
    BY <1>1, <2>1, <2>2 DEF ColAt
<1>4. Joint(t, f, v, Cells, Units)
  BY <1>0, <1>1, <1>2, <1>3, Joins
<1>5. t \in Vec(Cells + Units)
  <2>1. PICK l \in Nat : l = Cells + Units
    BY <1>0
  <2>2. t \in Seq(Int) /\ Len(t) = l
    BY <1>4, <2>1 DEF Joint
  <2>3. t \in Vec(l)
    BY <2>2 DEF Vec
  <2> QED
    BY <2>1, <2>3
<1>6. ASSUME NEW i \in 1 .. Units, NEW j \in 1 .. Inputs
      PROVE  t[Place(i, j)] = w[i][j]
  <2>1. PICK k \in 1 .. Cells : k = Place(i, j) /\ RowOf(k, Inputs) = i /\ ColOf(k, Inputs) = j
    BY Places
  <2>2. t[k] = f[k]
    BY <1>4 DEF Joint
  <2>3. f[k] = w[RowOf(k, Inputs)][ColOf(k, Inputs)]
    BY <1>1 DEF FlatRows, Cells
  <2> QED
    BY <2>1, <2>2, <2>3
<1>7. ASSUME NEW i \in 1 .. Units
      PROVE  t[Cells + i] = b[i][1]
  <2>1. PICK k \in Nat : k = Cells + i
    BY <1>0
  <2>2. t[k] = v[i]
    BY <1>4, <2>1 DEF Joint
  <2> QED
    BY <1>3, <2>1, <2>2
<1>8. Net!FlattenWB(w, b) = t
  <2>1. Net!FlattenSeq(w) = f
    BY <1>0, <1>1, FlatIs
  <2> QED
    BY <1>1, <2>1, NetOps DEF Net!FlattenWB
<1> QED
  BY <1>5, <1>6, <1>7, <1>8 DEF Whole

LEMMA TakenApart ==
  ASSUME Units \in Nat \ {0}, Inputs \in Nat \ {0}, NEW w, NEW b, NEW t,
         Mat(w, Units, Inputs), Mat(b, Units, 1), Whole(t, w, b)
  PROVE  Net!DeFlatten(t) = <<w, b>>
<1>1. PICK p : p = [i \in 1 .. Units |-> [j \in 1 .. Inputs |-> t[Place(i, j)]]]
  OBVIOUS
<1>2. PICK q : q = [i \in 1 .. Units |-> <<t[Cells + i]>>]
  OBVIOUS
<1>3. p = w
  <2>1. \A i \in 1 .. Units : w[i] = [j \in 1 .. Inputs |-> w[i][j]]
    BY DEF Mat, Vec
  <2>2. \A i \in 1 .. Units : p[i] = [j \in 1 .. Inputs |-> w[i][j]]
    BY <1>1 DEF Whole
  <2>3. \A i \in 1 .. Units : p[i] = w[i]
    BY <2>1, <2>2
  <2>4. p = [i \in 1 .. Units |-> p[i]] /\ w = [i \in 1 .. Units |-> w[i]]
    BY <1>1 DEF Mat
  <2> QED
    BY <2>3, <2>4
<1>4. q = b
  <2>1. \A v \in Vec(1) : v = <<v[1]>>
    BY DEF Vec
  <2>2. \A i \in 1 .. Units : b[i] = <<b[i][1]>>
    BY <2>1 DEF Mat
  <2>3. \A i \in 1 .. Units : q[i] = b[i]
    BY <1>2, <2>2 DEF Whole
  <2>4. q = [i \in 1 .. Units |-> q[i]] /\ b = [i \in 1 .. Units |-> b[i]]
    BY <1>2 DEF Mat
  <2> QED
    BY <2>3, <2>4
<1>5. Net!DeFlatten(t) = <<p, q>>
  BY <1>1, <1>2 DEF Net!DeFlatten, Place, Cells
<1> QED
  BY <1>3, <1>4, <1>5

LEMMA WholeStep ==
  ASSUME Units \in Nat \ {0}, Inputs \in Nat \ {0}, NEW c \in Int, NEW v, NEW g, NEW w, NEW b, NEW dw, NEW db,
         Mat(w, Units, Inputs), Mat(b, Units, 1), Whole(v, w, b),
         Mat(dw, Units, Inputs), Mat(db, Units, 1), Whole(g, dw, db)
  PROVE  Whole(Net!Stepped(v, c, g), Sub(w, MulConstant(dw, c)), Sub(b, MulConstant(db, c)))
<1>0. Units \in Nat /\ Inputs \in Nat /\ 1 \in Nat /\ 1 \in 1 .. 1 /\ Cells \in Nat
  BY Places
<1>1. PICK mw, mb : mw = MulConstant(dw, c) /\ mb = MulConstant(db, c)
  OBVIOUS
<1>2. /\ Mat(mw, Units, Inputs) /\ Mat(mb, Units, 1)
      /\ \A i \in 1 .. Units, j \in 1 .. Inputs : mw[i][j] = c * dw[i][j]
      /\ \A i \in 1 .. Units : mb[i][1] = c * db[i][1]
  <2>1. Mat(mw, Units, Inputs) /\ \A i \in 1 .. Units, j \in 1 .. Inputs : mw[i][j] = c * dw[i][j]
    <3>1. Mat(mw, Units, Inputs)
      BY <1>0, <1>1, ScaledIs
    <3>2. ASSUME NEW i \in 1 .. Units, NEW j \in 1 .. Inputs
          PROVE  mw[i][j] = c * dw[i][j]
      BY <1>0, <1>1, ScaledIs
    <3> QED
      BY <3>1, <3>2
  <2>2. Mat(mb, Units, 1) /\ \A i \in 1 .. Units, j \in 1 .. 1 : mb[i][j] = c * db[i][j]
    BY <1>0, <1>1, ScaledIs
  <2> QED
    BY <1>0, <2>1, <2>2
<1>3. PICK sw, sb : sw = Sub(w, mw) /\ sb = Sub(b, mb)
  OBVIOUS
<1>4. /\ \A i \in 1 .. Units, j \in 1 .. Inputs : sw[i][j] = w[i][j] - mw[i][j]
      /\ \A i \in 1 .. Units : sb[i][1] = b[i][1] - mb[i][1]
  BY <1>0, <1>2, <1>3, SubIs
<1>5. PICK l \in Nat : l = Cells + Units
  BY <1>0
<1>6. v \in Vec(l) /\ g \in Vec(l)
  BY <1>5 DEF Whole
<1>7. PICK t : t = Net!Stepped(v, c, g)
  OBVIOUS
<1>8. t = [k \in 1 .. l |-> v[k] - c * g[k]]
  BY <1>6, <1>7 DEF Net!Stepped, Vec
<1>9. t \in Vec(l)
  <2>1. \A k \in 1 .. l : v[k] \in Int /\ g[k] \in Int
    BY <1>6 DEF Vec
  <2>2. \A k \in 1 .. l : v[k] - c * g[k] \in Int
    BY <2>1
  <2> QED
    BY <1>8, <2>2 DEF Vec
<1>10. ASSUME NEW i \in 1 .. Units, NEW j \in 1 .. Inputs
       PROVE  t[Place(i, j)] = sw[i][j]
  <2>1. PICK k \in 1 .. Cells : k = Place(i, j)
    BY Places
  <2>2. k \in 1 .. l
    BY <1>0, <1>5
  <2>3. t[k] = v[k] - c * g[k]
    BY <1>8, <2>2
  <2>4. v[k] = w[i][j] /\ g[k] = dw[i][j]
    BY <2>1 DEF Whole
  <2>5. sw[i][j] = w[i][j] - c * dw[i][j]
    BY <1>2, <1>4
  <2> QED
    BY <2>1, <2>3, <2>4, <2>5
<1>11. ASSUME NEW i \in 1 .. Units
       PROVE  t[Cells + i] = sb[i][1]
  <2>1. PICK k \in 1 .. l : k = Cells + i
    BY <1>0, <1>5
  <2>2. t[k] = v[k] - c * g[k]
    BY <1>8
  <2>3. v[k] = b[i][1] /\ g[k] = db[i][1]
    BY <2>1 DEF Whole
  <2>4. sb[i][1] = b[i][1] - c * db[i][1]
    BY <1>2, <1>4
  <2> QED
    BY <2>1, <2>2, <2>3, <2>4
<1> QED
  BY <1>1, <1>3, <1>5, <1>7, <1>9, <1>10, <1>11 DEF Whole

LEMMA StepLikeLayer ==
  ASSUME Net!ConstantsOK, LayerInv, NEW gamma \in Gamma, Net!UpdatePara(gamma)
  PROVE  Net!DeFlatten(Net!Stepped(Net!FlattenWB(W, B), gamma, Net!FlattenWB(DW, DB))) = <<W', B'>>
<1>1. Units \in Nat \ {0} /\ Inputs \in Nat \ {0} /\ 1 \in Nat /\ gamma \in Int
  BY NetSizes DEF Net!ConstantsOK
<1>2. PICK w, b, dw, db : w = W /\ b = B /\ dw = DW /\ db = DB
  OBVIOUS
<1>3. Mat(w, Units, Inputs) /\ Mat(b, Units, 1) /\ Mat(dw, Units, Inputs) /\ Mat(db, Units, 1)
  BY <1>2 DEF LayerInv
<1>4. PICK v, g : v = Net!FlattenWB(w, b) /\ g = Net!FlattenWB(dw, db)
  OBVIOUS
<1>5. Whole(v, w, b) /\ Whole(g, dw, db)
  BY <1>1, <1>3, <1>4, FlatWB
<1>6. PICK t, sw, sb : /\ t = Net!Stepped(v, gamma, g)
                       /\ sw = Sub(w, MulConstant(dw, gamma)) /\ sb = Sub(b, MulConstant(db, gamma))
  OBVIOUS
<1>7. Whole(t, sw, sb)
  BY <1>1, <1>3, <1>5, <1>6, WholeStep
<1>8. Mat(sw, Units, Inputs) /\ Mat(sb, Units, 1)
  <2>1. Mat(MulConstant(dw, gamma), Units, Inputs) /\ Mat(MulConstant(db, gamma), Units, 1)
    BY <1>1, <1>3, ScaledIs
  <2> QED
    BY <1>1, <1>3, <1>6, <2>1, SubIs
<1>9. Net!DeFlatten(t) = <<sw, sb>>
  BY <1>1, <1>7, <1>8, TakenApart
<1>10. W' = sw /\ B' = sb
  BY <1>2, <1>6, NetOps, Zenon DEF Net!UpdatePara
<1> QED
  BY <1>2, <1>4, <1>6, <1>9, <1>10

-----------------------------------------------------------------------------
(* Softmax and cross entropy. *)

LEMMA DotSingle ==
  ASSUME NEW n \in Nat, NEW u \in Vec(n), NEW v \in Vec(n), NEW z \in 1 .. n,
         \A j \in 1 .. n : j # z => v[j] = 0
  PROVE  Dot(u, v, n) = u[z] * v[z]
<1>1. PICK p : p = Products(u, v, n)
  OBVIOUS
<1>2. \A j \in 1 .. n : u[j] \in Int /\ v[j] \in Int /\ p[j] = u[j] * v[j]
  BY <1>1 DEF Products, Vec
<1>3. \A a \in Int : a * 0 = 0
  OBVIOUS
<1>4. \A j \in 1 .. n : j # z => p[j] = 0
  BY <1>2, <1>3
<1>5. \A a, b \in Int : a * b \in Int
  OBVIOUS
<1>6. p[z] \in Int
  BY <1>2, <1>5
<1>7. PICK D : D = 1 .. n
  OBVIOUS
<1>8. IsFiniteSet(D) /\ z \in D /\ \A j \in D : j # z => p[j] = 0
  BY <1>4, <1>7, Fin
<1>9. SumFunctionOnSet(p, D) = p[z]
  BY <1>6, <1>8, SumSingle
<1> QED
  BY <1>1, <1>2, <1>7, <1>9 DEF Dot

LEMMA DiagIs ==
  ASSUME NEW n \in Nat \ {0}, NEW p \in Vec(n)
  PROVE  /\ Mat(DiagMatrix(p), n, n)
         /\ \A i \in 1 .. n, j \in 1 .. n : DiagMatrix(p)[i][j] = IF i = j THEN p[i] ELSE 0
<1>1. DOMAIN p = 1 .. n /\ \A i \in 1 .. n : p[i] \in Int
  BY DEF Vec
<1>2. DiagMatrix(p) = [i \in 1 .. n |-> [j \in 1 .. n |-> IF i = j THEN p[i] ELSE 0]]
  BY <1>1 DEF DiagMatrix
<1> QED
  BY <1>1, <1>2 DEF Mat, Vec

(* Total^2 (diag(p) - p p^T), with p times Total.                          *)
Jacobian(p) ==
  Add(Mul(SliceToMat(p), MulConstant(Transpose(SliceToMat(p)), -1)), MulConstant(DiagMatrix(p), Total))

LEMMA JacobianIs ==
  ASSUME Total \in Int, NEW n \in Nat \ {0}, NEW p \in Vec(n)
  PROVE  /\ Mat(Jacobian(p), n, n)
         /\ \A i \in 1 .. n, j \in 1 .. n :
              Jacobian(p)[i][j] = p[i] * (-1 * p[j]) + Total * (IF i = j THEN p[i] ELSE 0)
<1>0. n \in Nat /\ 1 \in Nat /\ 1 \in 1 .. 1 /\ -1 \in Int
  OBVIOUS
<1>1. PICK s, t, m : s = SliceToMat(p) /\ t = Transpose(s) /\ m = MulConstant(t, -1)
  OBVIOUS
<1>2. Mat(s, n, 1) /\ \A i \in 1 .. n : s[i][1] = p[i]
  BY <1>1, SliceIs
<1>3. Mat(t, 1, n) /\ \A j \in 1 .. n : t[1][j] = p[j]
  <2>1. Mat(t, 1, n) /\ \A j \in 1 .. n, i \in 1 .. 1 : t[i][j] = s[j][i]
    BY <1>0, <1>1, <1>2, TransposeIs
  <2> QED
    BY <1>0, <1>2, <2>1
<1>4. Mat(m, 1, n) /\ \A j \in 1 .. n : m[1][j] = -1 * p[j]
  <2>1. PICK k \in Int, r \in Nat : k = -1 /\ r = 1 /\ Mat(t, r, n)
    BY <1>0, <1>3
  <2>2. Mat(MulConstant(t, k), r, n) /\ \A i \in 1 .. r, j \in 1 .. n : MulConstant(t, k)[i][j] = k * t[i][j]
    BY <1>0, <2>1, ScaledIs
  <2>3. m = MulConstant(t, k)
    BY <1>1, <2>1
  <2>4. Mat(m, 1, n)
    BY <2>1, <2>2, <2>3
  <2>5. ASSUME NEW j \in 1 .. n
        PROVE  m[1][j] = -1 * p[j]
    <3>1. 1 \in 1 .. r
      BY <2>1
    <3>2. m[1][j] = k * t[1][j]
      BY <2>2, <2>3, <3>1
    <3>3. t[1][j] = p[j]
      BY <1>3
    <3>4. m[1][j] = k * p[j]
      BY <3>2, <3>3
    <3>5. p[j] \in Int
      BY DEF Vec
    <3>6. PICK c \in Int : c = p[j]
      BY <3>5
    <3>7. m[1][j] = (-1) * c
      BY <2>1, <3>4, <3>6
    <3> QED
      BY <3>6, <3>7
  <2> QED
    BY <2>4, <2>5
<1>5. PICK a : a = Mul(s, m)
  OBVIOUS
<1>6. Mat(a, n, n) /\ \A i \in 1 .. n, j \in 1 .. n : a[i][j] = Dot(s[i], ColAt(m, j), 1)
  BY <1>0, <1>2, <1>4, <1>5, MulIs
<1>7. ASSUME NEW i \in 1 .. n, NEW j \in 1 .. n
      PROVE  a[i][j] = p[i] * (-1 * p[j])
  <2>1. PICK u \in Vec(1), v \in Vec(1) : u = s[i] /\ v = ColAt(m, j)
    BY <1>0, <1>2, <1>4, RowIs, ColIs
  <2>2. \A k \in 1 .. 1 : k = 1
    OBVIOUS
  <2>3. \A k \in 1 .. 1 : k # 1 => v[k] = 0
    BY <2>2
  <2>4. Dot(u, v, 1) = u[1] * v[1]
    BY <1>0, <2>3, DotSingle
  <2>5. v[1] = m[1][j]
    BY <1>0, <1>4, <2>1, ColIs
  <2> QED
    BY <1>2, <1>4, <1>6, <2>1, <2>4, <2>5
<1>8. PICK d, e : d = DiagMatrix(p) /\ e = MulConstant(d, Total)
  OBVIOUS
<1>9. Mat(d, n, n) /\ \A i \in 1 .. n, j \in 1 .. n : d[i][j] = IF i = j THEN p[i] ELSE 0
  BY <1>8, DiagIs
<1>10. Mat(e, n, n)
  BY <1>0, <1>8, <1>9, ScaledIs
<1>11. \A i \in 1 .. n, j \in 1 .. n : e[i][j] = Total * d[i][j]
  BY <1>0, <1>8, <1>9, ScaledIs
<1>12. PICK h : h = Add(a, e)
  OBVIOUS
<1>13. Mat(h, n, n) /\ \A i \in 1 .. n, j \in 1 .. n : h[i][j] = a[i][j] + e[i][j]
  BY <1>0, <1>6, <1>10, <1>12, AddIs
<1>14. \A i \in 1 .. n, j \in 1 .. n : h[i][j] = p[i] * (-1 * p[j]) + Total * (IF i = j THEN p[i] ELSE 0)
  BY <1>7, <1>9, <1>11, <1>13
<1>15. Jacobian(p) = h
  BY <1>1, <1>5, <1>8, <1>12 DEF Jacobian
<1> QED
  BY <1>13, <1>14, <1>15

LEMMA AtLabel ==
  ASSUME NEW b \in Int, NEW t \in Int, NEW z \in Int
  PROVE  (b * (-1 * b) + t * b) * (-z) = (z * b) * (b - t)
<1>1. b * (-1 * b) + t * b = b * (t - b)
  OBVIOUS
<1>2. PICK e \in Int : e = t - b
  OBVIOUS
<1>3. (b * e) * (-z) = (z * b) * (-e)
  OBVIOUS
<1>4. -e = b - t
  BY <1>2
<1> QED
  BY <1>1, <1>2, <1>3, <1>4

LEMMA RowBack ==
  ASSUME Total \in Int, Scale \in Int, NEW n \in Nat \ {0}, NEW p \in Vec(n), NEW y \in 1 .. n,
         NEW z \in Int, z * p[y] = Scale, NEW d \in Vec(n), d[y] = -z, \A j \in 1 .. n : j # y => d[j] = 0
  PROVE  LET c == ColAt(Mul(Jacobian(p), SliceToMat(d)), 1)
         IN c \in Vec(n) /\ \A u \in 1 .. n : c[u] = Scale * (p[u] - (IF u = y THEN Total ELSE 0))
<1>0. n \in Nat /\ 1 \in Nat /\ 1 \in 1 .. 1
  OBVIOUS
<1>1. PICK h, s, m, c : h = Jacobian(p) /\ s = SliceToMat(d) /\ m = Mul(h, s) /\ c = ColAt(m, 1)
  OBVIOUS
<1>2. /\ Mat(h, n, n)
      /\ \A i \in 1 .. n, j \in 1 .. n : h[i][j] = p[i] * (-1 * p[j]) + Total * (IF i = j THEN p[i] ELSE 0)
  BY <1>1, JacobianIs
<1>3. Mat(s, n, 1) /\ ColAt(s, 1) = d
  BY <1>1, SliceIs
<1>4. Mat(m, n, 1)
  BY <1>0, <1>1, <1>2, <1>3, MulIs
<1>5. \A i \in 1 .. n : m[i][1] = Dot(h[i], d, n)
  BY <1>0, <1>1, <1>2, <1>3, MulIs
<1>6. c \in Vec(n) /\ \A i \in 1 .. n : c[i] = m[i][1]
  <2>1. ColAt(m, 1) \in Vec(n)
    BY <1>0, <1>4, ColIs
  <2>2. Rows(m) = n
    BY <1>0, <1>4, MatSize
  <2> QED
    BY <1>1, <2>1, <2>2 DEF ColAt
<1>7. ASSUME NEW u \in 1 .. n
      PROVE  c[u] = Scale * (p[u] - (IF u = y THEN Total ELSE 0))
  <2>1. h[u] \in Vec(n)
    BY <1>0, <1>2, RowIs
  <2>2. Dot(h[u], d, n) = h[u][y] * d[y]
    BY <1>0, <2>1, DotSingle
  <2>3. c[u] = h[u][y] * (-z)
    BY <1>5, <1>6, <2>2
  <2>4. PICK a \in Int, b \in Int : a = p[u] /\ b = p[y]
    BY DEF Vec
  <2>5. CASE u = y
    <3>1. h[u][y] = b * (-1 * b) + Total * b
      BY <1>2, <2>4, <2>5
    <3>2. (b * (-1 * b) + Total * b) * (-z) = (z * b) * (b - Total)
      BY <2>4, AtLabel
    <3> QED
      BY <2>3, <2>4, <2>5, <3>1, <3>2
  <2>6. CASE u # y
    <3>1. h[u][y] = a * (-1 * b) + Total * 0
      BY <1>2, <2>4, <2>6
    <3>2. (a * (-1 * b) + Total * 0) * (-z) = (z * b) * (a - 0)
      BY <2>4
    <3> QED
      BY <2>3, <2>4, <2>6, <3>1, <3>2
  <2> QED
    BY <2>5, <2>6
<1> QED
  BY <1>1, <1>6, <1>7

(* The probabilities less the label.                                       *)
Less(q, label, i, u) == q[i][u] - (IF u = label[i] THEN Total ELSE 0)

LEMMA ProbsAre ==
  ASSUME Net!ConstantsOK, NEW q \in Probs, NEW y \in Labels
  PROVE  /\ Total \in Int /\ Scale \in Int /\ Units \in Nat \ {0}
         /\ q \in Vec(Units) /\ y \in 1 .. Units
         /\ Scale \div q[y] \in Int /\ (Scale \div q[y]) * q[y] = Scale
<1>1. /\ Total \in Nat /\ Scale \in Nat /\ Units \in Nat \ {0} /\ y \in 1 .. Units
      /\ q \in [1 .. Units -> 1 .. Total] /\ \A u \in 1 .. Units : Scale % q[u] = 0
  BY DEF Net!ConstantsOK
<1>2. q \in Vec(Units)
  BY <1>1 DEF Vec
<1>3. PICK d \in Nat \ {0}, s \in Nat : d = q[y] /\ s = Scale /\ s % d = 0
  BY <1>1
<1>4. PICK c \in Nat, r \in 0 .. d - 1 : s = c * d + r /\ c = s \div d /\ r = s % d
  OBVIOUS
<1>5. s = c * d
  <2>1. r = 0
    BY <1>3, <1>4
  <2>2. c * d + 0 = c * d
    OBVIOUS
  <2> QED
    BY <1>4, <2>1, <2>2
<1>6. s \div d \in Int /\ (s \div d) * d = s
  BY <1>4, <1>5
<1> QED
  BY <1>1, <1>2, <1>3, <1>6

LEMMA BackIs ==
  ASSUME Net!ConstantsOK, NEW n \in Nat \ {0}, NEW q \in [1 .. n -> Probs], NEW label \in [1 .. n -> Labels],
         NEW dz, dz = Net!SoftmaxBack(q, Net!CrossEntropyBack(q, label))
  PROVE  /\ Mat(dz, n, Units)
         /\ \A i \in 1 .. n, u \in 1 .. Units :
              dz[i][u] = Scale * Less(q, label, i, u) /\ Less(q, label, i, u) \in Int
<1>0. Units \in Nat \ {0} /\ Units \in Nat
  BY NetSizes
<1>1. PICK e : e = Net!CrossEntropyBack(q, label)
  OBVIOUS
<1>2. e = [i \in 1 .. n |-> [j \in 1 .. Units |-> IF j = label[i] THEN -(Scale \div q[i][j]) ELSE 0]]
  BY <1>1 DEF Net!CrossEntropyBack
<1>3. dz = [i \in 1 .. n |-> ColAt(Mul(Jacobian(q[i]), SliceToMat(e[i])), 1)]
  <2>1. DOMAIN q = 1 .. n
    OBVIOUS
  <2>2. dz = Net!SoftmaxBack(q, e)
    BY <1>1
  <2>3. Net!SoftmaxBack(q, e) = [i \in DOMAIN q |-> ColAt(Mul(Jacobian(q[i]), SliceToMat(e[i])), 1)]
    BY NetOps, Zenon DEF Net!SoftmaxBack, Jacobian
  <2> QED
    BY <2>1, <2>2, <2>3
<1>4. ASSUME NEW i \in 1 .. n
      PROVE  dz[i] \in Vec(Units) /\ \A u \in 1 .. Units : dz[i][u] = Scale * Less(q, label, i, u)
                                                           /\ Less(q, label, i, u) \in Int
  <2>1. PICK p \in Probs, y \in Labels : p = q[i] /\ y = label[i]
    OBVIOUS
  <2>2. /\ Total \in Int /\ Scale \in Int /\ p \in Vec(Units) /\ y \in 1 .. Units
        /\ Scale \div p[y] \in Int /\ (Scale \div p[y]) * p[y] = Scale
    BY ProbsAre
  <2>3. PICK z \in Int : z = Scale \div p[y] /\ z * p[y] = Scale
    BY <2>2
  <2>4. PICK d : d = [j \in 1 .. Units |-> IF j = y THEN -z ELSE 0]
    OBVIOUS
  <2>5. e[i] = d
    <3>1. \A j \in 1 .. Units : (IF j = label[i] THEN -(Scale \div q[i][j]) ELSE 0) = IF j = y THEN -z ELSE 0
      BY <2>1, <2>3
    <3>2. e[i] = [j \in 1 .. Units |-> IF j = label[i] THEN -(Scale \div q[i][j]) ELSE 0]
      BY <1>2
    <3> QED
      BY <2>4, <3>1, <3>2
  <2>6. d \in Vec(Units) /\ d[y] = -z /\ \A j \in 1 .. Units : j # y => d[j] = 0
    BY <2>2, <2>3, <2>4 DEF Vec
  <2>7. PICK c : c = ColAt(Mul(Jacobian(p), SliceToMat(d)), 1)
    OBVIOUS
  <2>8. c \in Vec(Units) /\ \A u \in 1 .. Units : c[u] = Scale * (p[u] - (IF u = y THEN Total ELSE 0))
    BY <1>0, <2>2, <2>3, <2>6, <2>7, RowBack
  <2>9. dz[i] = c
    BY <1>3, <2>1, <2>5, <2>7
  <2>10. \A u \in 1 .. Units : Less(q, label, i, u) = p[u] - (IF u = y THEN Total ELSE 0)
    BY <2>1 DEF Less
  <2>11. \A u \in 1 .. Units : p[u] - (IF u = y THEN Total ELSE 0) \in Int
    BY <2>2 DEF Vec
  <2> QED
    BY <2>8, <2>9, <2>10, <2>11
<1>5. DOMAIN dz = 1 .. n
  BY <1>3
<1> QED
  BY <1>0, <1>3, <1>4, <1>5 DEF Mat

(* What the samples add to a weight and to a bias.                         *)
WeightTerms(q, label, x, n, u, j) == [i \in 1 .. n |-> Less(q, label, i, u) * x[i][j]]
BiasTerms(q, label, n, u)         == [i \in 1 .. n |-> Less(q, label, i, u)]

(* One entry of the gradient of the network, for a row and a column.       *)
LEMMA WholeGradient ==
  ASSUME Net!ConstantsOK, NEW n \in Nat \ {0}, NEW x, Mat(x, n, Inputs),
         NEW q \in [1 .. n -> Probs], NEW label \in [1 .. n -> Labels]
  PROVE  \E a, s :
           /\ Mat(a, Units, Inputs) /\ Mat(s, Units, 1)
           /\ Whole(Net!GradFNN(q, label, x), a, s)
           /\ \A u \in 1 .. Units, j \in 1 .. Inputs :
                a[u][j] = Scale * SumFunction(WeightTerms(q, label, x, n, u, j))
           /\ \A u \in 1 .. Units : s[u][1] = Scale * SumFunction(BiasTerms(q, label, n, u))
<1>0. /\ Units \in Nat \ {0} /\ Inputs \in Nat \ {0} /\ Units \in Nat /\ Inputs \in Nat /\ n \in Nat
      /\ Scale \in Int
  BY NetSizes DEF Net!ConstantsOK
<1>1. PICK dz : dz = Net!SoftmaxBack(q, Net!CrossEntropyBack(q, label))
  OBVIOUS
<1>2. /\ Mat(dz, n, Units)
      /\ \A i \in 1 .. n, u \in 1 .. Units :
           dz[i][u] = Scale * Less(q, label, i, u) /\ Less(q, label, i, u) \in Int
  <2>1. Mat(dz, n, Units)
    BY <1>1, BackIs
  <2>2. ASSUME NEW i \in 1 .. n, NEW u \in 1 .. Units
        PROVE  dz[i][u] = Scale * Less(q, label, i, u) /\ Less(q, label, i, u) \in Int
    BY <1>1, BackIs
  <2> QED
    BY <2>1, <2>2
<1>3. PICK o, a, s : /\ o = GetZeroMat(Units, Inputs) /\ a = Net!Added(o, dz, x)
                     /\ s = Net!SampleSums(dz)
  OBVIOUS
<1>4. Mat(o, Units, Inputs) /\ \A u \in 1 .. Units, j \in 1 .. Inputs : o[u][j] = 0
  BY <1>0, <1>3, ZeroIs
<1>5. Mat(dz, n, Units) /\ Mat(o, Units, Inputs)
  BY <1>2, <1>4
<1>6. /\ Mat(a, Units, Inputs)
      /\ \A u \in 1 .. Units, j \in 1 .. Inputs : a[u][j] = o[u][j] + Dot(ColAt(dz, u), ColAt(x, j), n)
  BY <1>0, <1>3, <1>5, AddedIs, SMTT(30)
<1>7. Mat(s, Units, 1) /\ \A u \in 1 .. Units : s[u][1] = SumFunctionOnSet(ColAt(dz, u), 1 .. n)
  BY <1>0, <1>3, <1>5, SampleSumsIs, Zenon
<1>8. Whole(Net!GradFNN(q, label, x), a, s)
  <2>1. Net!GradFNN(q, label, x) = Net!FlattenWB(a, s)
    BY <1>1, <1>3, NetOps, Zenon DEF Net!GradFNN
  <2> QED
    BY <1>0, <1>6, <1>7, <2>1, FlatWB, Zenon
<1>9. ASSUME NEW u \in 1 .. Units, NEW j \in 1 .. Inputs
      PROVE  a[u][j] = Scale * SumFunction(WeightTerms(q, label, x, n, u, j))
  <2>1. PICK f, h : /\ f = WeightTerms(q, label, x, n, u, j)
                    /\ h = Products(ColAt(dz, u), ColAt(x, j), n)
    OBVIOUS
  <2>2. /\ \A i \in 1 .. n : ColAt(dz, u)[i] = dz[i][u] /\ ColAt(x, j)[i] = x[i][j] /\ x[i][j] \in Int
        /\ Dot(ColAt(dz, u), ColAt(x, j), n) \in Int
    <3>1. ColAt(dz, u) \in Vec(n) /\ \A i \in 1 .. n : ColAt(dz, u)[i] = dz[i][u]
      BY <1>0, <1>5, ColIs, SMTT(30)
    <3>2. ColAt(x, j) \in Vec(n) /\ \A i \in 1 .. n : ColAt(x, j)[i] = x[i][j]
      BY <1>0, ColIs
    <3>3. \A i \in 1 .. n : x[i][j] \in Int
      BY <1>0, MatSize
    <3>4. Dot(ColAt(dz, u), ColAt(x, j), n) \in Int
      BY <1>0, <3>1, <3>2, DotType
    <3> QED
      BY <3>1, <3>2, <3>3, <3>4
  <2>3. ASSUME NEW i \in 1 .. n
        PROVE  f[i] \in Int /\ h[i] = Scale * f[i]
    <3>1. PICK b \in Int, c \in Int, d \in Int : b = Less(q, label, i, u) /\ c = x[i][j] /\ d = Scale
      BY <1>0, <1>2, <2>2
    <3>2. f[i] = b * c
      BY <2>1, <3>1 DEF WeightTerms
    <3>3. h[i] = (d * b) * c
      BY <1>2, <2>1, <2>2, <3>1 DEF Products
    <3>4. (d * b) * c = d * (b * c) /\ b * c \in Int
      OBVIOUS
    <3> QED
      BY <3>1, <3>2, <3>3, <3>4
  <2>4. SumFunctionOnSet(h, 1 .. n) = Scale * SumFunctionOnSet(f, 1 .. n)
    BY <1>0, <2>3, Fin, SumScale
  <2>5. a[u][j] = SumFunctionOnSet(h, 1 .. n)
    <3>1. a[u][j] = 0 + Dot(ColAt(dz, u), ColAt(x, j), n)
      BY <1>4, <1>6
    <3> QED
      BY <2>1, <2>2, <3>1 DEF Dot
  <2>6. SumFunction(f) = SumFunctionOnSet(f, 1 .. n)
    BY <2>1 DEF SumFunction, WeightTerms
  <2> QED
    BY <2>1, <2>4, <2>5, <2>6
<1>10. ASSUME NEW u \in 1 .. Units
       PROVE  s[u][1] = Scale * SumFunction(BiasTerms(q, label, n, u))
  <2>1. PICK f, h : f = BiasTerms(q, label, n, u) /\ h = ColAt(dz, u)
    OBVIOUS
  <2>2. \A i \in 1 .. n : f[i] \in Int /\ h[i] = Scale * f[i]
    <3>1. \A i \in 1 .. n : f[i] = Less(q, label, i, u)
      BY <2>1 DEF BiasTerms
    <3>2. ASSUME NEW i \in 1 .. n
          PROVE  ColAt(dz, u)[i] = dz[i][u]
      BY <1>0, <1>2, ColIs
    <3> QED
      BY <1>2, <2>1, <3>1, <3>2
  <2>3. SumFunctionOnSet(h, 1 .. n) = Scale * SumFunctionOnSet(f, 1 .. n)
    BY <1>0, <2>2, Fin, SumScale
  <2>4. SumFunction(f) = SumFunctionOnSet(f, 1 .. n)
    BY <2>1 DEF SumFunction, BiasTerms
  <2> QED
    BY <1>7, <2>1, <2>3, <2>4
<1> QED
  BY <1>6, <1>7, <1>8, <1>9, <1>10

Lessened(q, label) == [i \in DOMAIN X |-> [u \in 1 .. Units |-> q[i][u] - (IF u = label[i] THEN Total ELSE 0)]]

EntryTerms(less, k) ==
  [i \in DOMAIN X |-> IF k > Units * Inputs THEN less[i][k - Units * Inputs]
                      ELSE less[i][((k - 1) \div Inputs) + 1] * X[i][((k - 1) % Inputs) + 1]]

LEMMA NetworkSlopes == Net!ConstantsOK /\ LayerInv => Net!NetworkGradient
<1> SUFFICES ASSUME Net!ConstantsOK, LayerInv, X # <<>>,
                    NEW q \in [DOMAIN X -> Probs], NEW label \in [DOMAIN X -> Labels]
             PROVE  Net!GradFNN(q, label, X) =
                      [k \in 1 .. Units * Inputs + Units |->
                         Scale * Net!SumFunction(EntryTerms(Lessened(q, label), k))]
  BY DEF Net!NetworkGradient, EntryTerms, Lessened
<1>0. Units \in Nat \ {0} /\ Inputs \in Nat \ {0} /\ Cells \in Nat /\ Cells = Units * Inputs
  BY NetSizes, Places DEF Cells
<1>1. PICK x \in Batches, n \in Nat \ {0} : x = X /\ Mat(x, n, Inputs) /\ DOMAIN x = 1 .. n
  <2>1. X \in Batches
    BY DEF LayerInv
  <2>2. Mat(X, Rows(X), Inputs)
    BY <2>1, NetSizes
  <2> QED
    BY <2>1, <2>2 DEF Mat
<1>2. q \in [1 .. n -> Probs] /\ label \in [1 .. n -> Labels]
  BY <1>1
<1>3. PICK t, less : t = Net!GradFNN(q, label, x) /\ less = Lessened(q, label)
  OBVIOUS
<1>4. PICK a, s :
        /\ Whole(t, a, s)
        /\ \A u \in 1 .. Units, j \in 1 .. Inputs :
             a[u][j] = Scale * SumFunction(WeightTerms(q, label, x, n, u, j))
        /\ \A u \in 1 .. Units : s[u][1] = Scale * SumFunction(BiasTerms(q, label, n, u))
  <2>1. PICK a, s :
          /\ Whole(Net!GradFNN(q, label, x), a, s)
          /\ \A u \in 1 .. Units, j \in 1 .. Inputs :
               a[u][j] = Scale * SumFunction(WeightTerms(q, label, x, n, u, j))
          /\ \A u \in 1 .. Units : s[u][1] = Scale * SumFunction(BiasTerms(q, label, n, u))
    BY <1>1, <1>2, WholeGradient
  <2> QED
    BY <1>3, <2>1
<1>5. \A i \in 1 .. n, u \in 1 .. Units : less[i][u] = Less(q, label, i, u)
  BY <1>1, <1>3 DEF Less, Lessened
<1>6. ASSUME NEW k \in 1 .. Cells + Units
      PROVE  t[k] = Scale * SumFunction(EntryTerms(less, k))
  <2>0. PICK e : e = EntryTerms(less, k)
    OBVIOUS
  <2>1. CASE k \in 1 .. Cells
    <3>1. PICK u \in 1 .. Units, j \in 1 .. Inputs :
            u = RowOf(k, Inputs) /\ j = ColOf(k, Inputs) /\ k = Place(u, j)
      <4>1. RowOf(k, Inputs) \in 1 .. Units /\ ColOf(k, Inputs) \in 1 .. Inputs
            /\ k = Place(RowOf(k, Inputs), ColOf(k, Inputs))
        BY <1>0, <2>1, Places
      <4> QED
        BY <4>1
    <3>2. ~(k > Cells)
      BY <1>0, <2>1
    <3>3. e = [i \in 1 .. n |-> less[i][u] * x[i][j]]
      <4>1. e = [i \in 1 .. n |-> less[i][RowOf(k, Inputs)] * x[i][ColOf(k, Inputs)]]
        BY <1>0, <1>1, <2>0, <3>2 DEF EntryTerms, RowOf, ColOf
      <4> QED
        BY <3>1, <4>1
    <3>4. \A i \in 1 .. n : less[i][u] * x[i][j] = Less(q, label, i, u) * x[i][j]
      BY <1>5
    <3>5. e = WeightTerms(q, label, x, n, u, j)
      BY <3>3, <3>4 DEF WeightTerms
    <3>6. t[k] = a[u][j]
      BY <1>4, <3>1 DEF Whole
    <3>7. a[u][j] = Scale * SumFunction(e)
      BY <1>4, <3>5
    <3> QED
      BY <2>0, <3>6, <3>7
  <2>2. CASE k \notin 1 .. Cells
    <3>1. PICK u \in 1 .. Units : k = Cells + u
      <4>1. k - Cells \in 1 .. Units /\ k = Cells + (k - Cells)
        BY <1>0, <2>2
      <4> QED
        BY <4>1
    <3>2. k > Cells /\ k - Cells = u
      BY <1>0, <3>1
    <3>3. e = [i \in 1 .. n |-> less[i][u]]
      BY <1>0, <1>1, <2>0, <3>2 DEF EntryTerms
    <3>4. e = BiasTerms(q, label, n, u)
      BY <1>5, <3>3 DEF BiasTerms
    <3>5. t[k] = s[u][1]
      BY <1>4, <3>1 DEF Whole
    <3>6. s[u][1] = Scale * SumFunction(e)
      BY <1>4, <3>4
    <3> QED
      BY <2>0, <3>5, <3>6
  <2> QED
    BY <2>1, <2>2
<1>7. t = [k \in 1 .. Cells + Units |-> t[k]]
  BY <1>4 DEF Whole, Vec
<1>8. t = [k \in 1 .. Cells + Units |-> Scale * SumFunction(EntryTerms(less, k))]
  BY <1>6, <1>7
<1>9. t = [k \in 1 .. Units * Inputs + Units |-> Scale * Net!SumFunction(EntryTerms(less, k))]
  BY <1>0, <1>8, NetOps
<1> QED
  BY <1>1, <1>3, <1>9

-----------------------------------------------------------------------------
(* Both models of a training. *)

(* A gradient is the derivative of what it is used for, whatever the sizes *)
(* of the matrices, the data and the weights: of the linear model, of the  *)
(* layer over all passes since its last update, and of the whole network   *)
(* (ml.go:772-788, 832-876, nn.go:102-229).                                *)
THEOREM GradientsHold ==
  Linear!ConstantsOK /\ Net!ConstantsOK => (Linear!Spec /\ Net!Spec => []GradientsAreSlopes)
<1> SUFFICES ASSUME Linear!ConstantsOK, Net!ConstantsOK
             PROVE  Linear!Spec /\ Net!Spec => []GradientsAreSlopes
  OBVIOUS
<1>1. LinearInv /\ [Linear!Next]_(Linear!vars) => LinearInv'
  BY LinearStep
<1>2. Linear!Init => LinearInv
  BY LinearInit
<1>3. LayerInv /\ [Net!Next]_(Net!vars) => LayerInv'
  BY LayerStep
<1>4. Net!Init => LayerInv
  BY LayerInit
<1>5. LinearInv /\ LayerInv => GradientsAreSlopes
  BY LinearFits, LinearSlope, LayerTyped, LayerAddsUp, BackSlopes, NetworkSlopes
     DEF GradientsAreSlopes
<1> QED
  BY <1>1, <1>2, <1>3, <1>4, <1>5, PTL DEF Linear!Spec, Net!Spec

(* The host's step on a flat vector of weights and biases is the layer's   *)
(* own: flattening, stepping and folding back agree with updatePara, for   *)
(* every number of units and inputs (ml.go:581-583, 776-788, 906-943).     *)
THEOREM StepsHold == Net!ConstantsOK => (Net!Spec => StepsLikeLayer)
<1> SUFFICES ASSUME Net!ConstantsOK PROVE Net!Spec => StepsLikeLayer
  OBVIOUS
<1> DEFINE Alike == \A gamma \in Gamma : Net!UpdatePara(gamma) =>
                      Net!DeFlatten(Net!Stepped(Net!FlattenWB(W, B), gamma, Net!FlattenWB(DW, DB))) = <<W', B'>>
<1>1. LayerInv /\ [Net!Next]_(Net!vars) => LayerInv' /\ [Alike]_(Net!vars)
  BY LayerStep, StepLikeLayer
<1>2. Net!Init => LayerInv
  BY LayerInit
<1>3. Net!Spec => [][Alike]_(Net!vars)
  BY <1>1, <1>2, PTL DEF Net!Spec
<1>4. [][Alike]_(Net!vars) => Net!HostStepsLikeLayer
  BY PTL DEF Net!HostStepsLikeLayer, Alike
<1>5. Net!HostStepsLikeLayer => StepsLikeLayer
  BY DEF StepsLikeLayer
<1> QED
  BY <1>3, <1>4, <1>5, PTL
=============================================================================
