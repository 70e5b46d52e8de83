------------------------- MODULE FileTransferProofs ---------------------------
(***************************************************************************)
(* Downloads, for any files, chunk size, nodes and number of downloads,    *)
(* over a network that loses and reorders packets: what a download has     *)
(* written when it returns is the file, and each one implements Fetch.     *)
(***************************************************************************)
EXTENDS FileTransfer, SequenceTheorems, WellFoundedInduction, TLAPS

-----------------------------------------------------------------------------
(* Induction over a range, for the members of a set.                       *)

LEMMA LeastNumber ==
  ASSUME NEW S, S \subseteq Nat, S # {}
  PROVE  \E x \in S : \A y \in S : x <= y
<1>1. PICK x \in S : \A y \in S : ~(<<y, x>> \in OpToRel(<, Nat))
  BY WFMin, NatLessThanWellFounded, Zenon
<1>2. ASSUME NEW y \in S
      PROVE  x <= y
  <2>1. ~(<<y, x>> \in OpToRel(<, Nat)) /\ <<y, x>> \in Nat \X Nat
    BY <1>1
  <2>2. ~(y < x)
    BY <2>1 DEF OpToRel
  <2> QED
    BY <2>2
<1> QED
  BY <1>2

LEMMA FromOneUp ==
  ASSUME NEW m \in Nat \ {0}, NEW S, 1 \in S,
         \A k \in 1 .. m - 1 : k \in S => k + 1 \in S
  PROVE  \A k \in 1 .. m : k \in S
<1> DEFINE T == {k \in 1 .. m : k \notin S}
<1> SUFFICES ASSUME T # {} PROVE FALSE
  OBVIOUS
<1>1. T \subseteq Nat
  OBVIOUS
<1>2. PICK k \in T : \A y \in T : k <= y
  <2> HIDE DEF T
  <2> QED
    BY <1>1, LeastNumber
<1>3. k \in 1 .. m /\ k \notin S /\ k # 1
  OBVIOUS
<1>4. k - 1 \in 1 .. m - 1 /\ k - 1 \in 1 .. m /\ k - 1 + 1 = k /\ ~(k <= k - 1)
  BY <1>3
<1>5. k - 1 \in S
  BY <1>2, <1>4
<1> QED
  BY <1>3, <1>4, <1>5

-----------------------------------------------------------------------------
(* Chunks. *)

(* n chunks: n - 1 full ones, and one that ends with the file.             *)
LEMMA CountsChunks ==
  ASSUME NEW len \in Nat \ {0}, NEW n, n = ChunkCount(len)
  PROVE  n \in Nat \ {0} /\ (n - 1) * ChunkSize < len /\ len <= n * ChunkSize
<1> PICK q \in Nat, r \in 0 .. ChunkSize - 1 : len = q * ChunkSize + r /\ q = len \div ChunkSize /\ r = len % ChunkSize
  BY ChunkSizeAssumption
<1>1. CASE r = 0
  BY <1>1, ChunkSizeAssumption DEF ChunkCount
<1>2. CASE r # 0
  BY <1>2, ChunkSizeAssumption DEF ChunkCount
<1> QED
  BY <1>1, <1>2

LEMMA OneMore ==
  ASSUME NEW S, NEW m \in Nat, NEW s \in [1 .. m -> S], NEW x \in S
  PROVE  /\ s \o <<x>> \in Seq(S) /\ DOMAIN (s \o <<x>>) = 1 .. m + 1
         /\ \A i \in 1 .. m : (s \o <<x>>)[i] = s[i]
         /\ (s \o <<x>>)[m + 1] = x
<1>1. s \in Seq(S) /\ Len(s) = m
  OBVIOUS
<1>0. <<x>> \in Seq(S) /\ Len(<<x>>) = 1 /\ <<x>>[1] = x
  OBVIOUS
<1>2. PICK t \in Seq(S) : t = <<x>> /\ Len(t) = 1 /\ t[1] = x
  BY <1>0
<1>3. s \o t \in Seq(S) /\ Len(s \o t) = m + 1
  BY <1>1, <1>2
<1>4. \A i \in 1 .. m : (s \o t)[i] = s[i]
  BY <1>1, <1>2
<1>5. (s \o t)[m + 1] = x
  BY <1>1, <1>2
<1> QED
  BY <1>2, <1>3, <1>4, <1>5

LEMMA CutsFile ==
  ASSUME NEW len \in Nat \ {0}, ChunkCount(len) <= Word
  PROVE  /\ DOMAIN Slices(len) = 1 .. ChunkCount(len)
         /\ \A i \in 1 .. ChunkCount(len) :
              Slices(len)[i] = [low |-> (i - 1) * ChunkSize,
                                high |-> IF i = ChunkCount(len) THEN len ELSE i * ChunkSize]
<1>1. PICK m \in Nat : m + 1 = ChunkCount(len) /\ m * ChunkSize < len
  BY CountsChunks
<1>2. PICK s : s = [i \in 1 .. m |-> [low |-> (i - 1) * ChunkSize, high |-> i * ChunkSize]]
  OBVIOUS
<1>3. PICK last : last = [low |-> m * ChunkSize, high |-> len]
  OBVIOUS
<1>4. Slices(len) = s \o <<last>>
  <2>1. m * ChunkSize <= len
    BY <1>1, ChunkSizeAssumption
  <2>2. LastIndex(len) = m
    BY <1>1, WordAssumption DEF LastIndex
  <2> QED
    BY <1>2, <1>3, <2>1, <2>2, Zenon DEF Slices
<1> DEFINE S == {s[i] : i \in 1 .. m} \cup {last}
<1>5. s \in [1 .. m -> S] /\ last \in S
  BY <1>2
<1> HIDE DEF S
<1>6. /\ DOMAIN Slices(len) = 1 .. m + 1
      /\ \A i \in 1 .. m : Slices(len)[i] = s[i]
      /\ Slices(len)[m + 1] = last
  BY <1>4, <1>5, OneMore
<1>7. ASSUME NEW i \in 1 .. m + 1
      PROVE  Slices(len)[i] = [low |-> (i - 1) * ChunkSize,
                               high |-> IF i = m + 1 THEN len ELSE i * ChunkSize]
  <2>1. CASE i = m + 1
    <3>1. i - 1 = m
      BY <2>1
    <3> QED
      BY <1>3, <1>6, <2>1, <3>1
  <2>2. CASE i # m + 1
    <3>1. i \in 1 .. m
      BY <2>2
    <3> QED
      BY <1>2, <1>6, <2>2, <3>1
  <2> QED
    BY <2>1, <2>2
<1> QED
  BY <1>1, <1>6, <1>7

-----------------------------------------------------------------------------
(* The chunks joined up to the i-th one are the file up to its end, so all *)
(* of them are the file: for every content and chunk size.                 *)
HighOf(len, i) == IF i = ChunkCount(len) THEN len ELSE i * ChunkSize

LEMMA Highs ==
  ASSUME NEW len \in Nat \ {0}, NEW n, n = ChunkCount(len)
  PROVE  /\ n \in Nat \ {0}
         /\ \A i \in 1 .. n : HighOf(len, i) \in 1 .. len /\ (i - 1) * ChunkSize \in 0 .. HighOf(len, i)
         /\ \A i \in 1 .. n - 1 : HighOf(len, i) = i * ChunkSize
         /\ HighOf(len, n) = len
<1>1. n \in Nat \ {0} /\ (n - 1) * ChunkSize < len
  BY CountsChunks
<1>2. ASSUME NEW i \in 1 .. n - 1
      PROVE  i * ChunkSize \in 1 .. len /\ (i - 1) * ChunkSize \in 0 .. i * ChunkSize
  <2>1. PICK k \in Nat : n - 1 = i + k
    <3>1. n - 1 - i \in Nat /\ n - 1 = i + (n - 1 - i)
      BY <1>1
    <3> QED
      BY <3>1
  <2>2. (i + k) * ChunkSize = i * ChunkSize + k * ChunkSize
    BY <1>1, ChunkSizeAssumption
  <2>3. k * ChunkSize \in Nat /\ i * ChunkSize \in Nat /\ i * ChunkSize >= 1
    BY <1>1, <2>1, ChunkSizeAssumption
  <2>4. (i - 1) * ChunkSize = i * ChunkSize - ChunkSize /\ (i - 1) * ChunkSize \in Nat
    BY <1>1, ChunkSizeAssumption
  <2> QED
    BY <1>1, <2>1, <2>2, <2>3, <2>4, ChunkSizeAssumption
<1>3. (n - 1) * ChunkSize \in 0 .. len
  BY <1>1, ChunkSizeAssumption
<1>4. \A i \in 1 .. n : i \in 1 .. n - 1 \/ i = n
  BY <1>1
<1>5. \A i \in 1 .. n - 1 : i # n
  BY <1>1
<1> QED
  BY <1>1, <1>2, <1>3, <1>4, <1>5 DEF HighOf

LEMMA ChunksAre ==
  ASSUME NEW content \in Seq(Byte), content # <<>>, ChunkCount(Len(content)) <= Word
  PROVE  /\ DOMAIN ChunksOf(content) = 1 .. ChunkCount(Len(content))
         /\ \A i \in 1 .. ChunkCount(Len(content)) :
              /\ ChunksOf(content)[i]
                   = SubSeq(content, (i - 1) * ChunkSize + 1, HighOf(Len(content), i))
         /\ ChunksOf(content) \in Seq(Seq(Byte)) /\ Len(ChunksOf(content)) = ChunkCount(Len(content))
<1>1. PICK len \in Nat \ {0} : len = Len(content)
  OBVIOUS
<1>2. PICK n \in Nat \ {0} : n = ChunkCount(len)
  BY Highs
<1>3. PICK cut : cut = Slices(len)
  OBVIOUS
<1>4. /\ DOMAIN cut = 1 .. n
      /\ \A i \in 1 .. n : cut[i].low = (i - 1) * ChunkSize /\ cut[i].high = HighOf(len, i)
  <2>1. ChunkCount(len) <= Word
    BY <1>1
  <2>2. /\ DOMAIN cut = 1 .. n
        /\ \A i \in 1 .. n :
             cut[i] = [low |-> (i - 1) * ChunkSize, high |-> IF i = n THEN len ELSE i * ChunkSize]
    BY <1>2, <1>3, <2>1, CutsFile, Zenon
  <2>3. ASSUME NEW i \in 1 .. n
        PROVE  cut[i].low = (i - 1) * ChunkSize /\ cut[i].high = HighOf(len, i)
    <3>1. PICK low, high : low = (i - 1) * ChunkSize /\ high = HighOf(len, i)
      OBVIOUS
    <3>2. cut[i] = [low |-> low, high |-> high]
      BY <1>2, <2>2, <3>1, Zenon DEF HighOf
    <3> QED
      BY <3>1, <3>2
  <2> QED
    BY <2>2, <2>3
<1>5. ChunksOf(content) = [i \in 1 .. n |-> SubSeq(content, cut[i].low + 1, cut[i].high)]
  BY <1>1, <1>3, <1>4 DEF ChunksOf
<1>6. ASSUME NEW i \in 1 .. n
      PROVE  SubSeq(content, (i - 1) * ChunkSize + 1, HighOf(len, i)) \in Seq(Byte)
  <2>1. PICK low \in Nat, high \in 1 .. len : low = (i - 1) * ChunkSize /\ high = HighOf(len, i)
    BY <1>2, Highs
  <2>2. \A j \in low + 1 .. high : content[j] \in Byte
    BY <1>1, <2>1
  <2>3. SubSeq(content, low + 1, high) \in Seq(Byte)
    BY <2>1, <2>2, SubSeqProperties
  <2> QED
    BY <2>1, <2>3
<1>7. ChunksOf(content) \in [1 .. n -> Seq(Byte)]
  BY <1>4, <1>5, <1>6
<1>8. ChunksOf(content) \in Seq(Seq(Byte)) /\ Len(ChunksOf(content)) = n
  BY <1>7
<1> QED
  BY <1>1, <1>2, <1>4, <1>5, <1>8

(* What the hashes of a metafile stand for, joined in order, is the file,  *)
(* for every content that is not empty and every chunk size                *)
(* (file.go:66-109, 205).                                                  *)
THEOREM ChunksJoin ==
  ASSUME NEW content \in Seq(Byte), content # <<>>, ChunkCount(Len(content)) <= Word
  PROVE  Joined(ChunksOf(content)) = content
<1>1. PICK len \in Nat \ {0} : len = Len(content)
  OBVIOUS
<1>2. PICK n \in Nat \ {0} : n = ChunkCount(len)
  BY Highs
<1>3. PICK chunks \in Seq(Seq(Byte)) :
        /\ chunks = ChunksOf(content) /\ Len(chunks) = n
        /\ \A i \in 1 .. n :
             chunks[i] = SubSeq(content, (i - 1) * ChunkSize + 1, HighOf(len, i))
  BY <1>1, <1>2, ChunksAre
<1>4. PICK G : G = [i \in 1 .. n |-> SubSeq(content, 1, HighOf(len, i))]
  OBVIOUS
<1>5. ASSUME NEW i \in 2 .. n
      PROVE  G[i - 1] \o chunks[i] = G[i]
  <2>1. i - 1 \in 1 .. n - 1 /\ i - 1 \in 1 .. n /\ i \in 1 .. n /\ i - 1 + 1 = i
    BY <1>2
  <2>2. PICK k \in 1 .. len, l \in 1 .. len : k <= l /\
          k = HighOf(len, i - 1) /\ k = (i - 1) * ChunkSize /\ l = HighOf(len, i)
    <3>1. HighOf(len, i - 1) \in 1 .. len /\ HighOf(len, i - 1) = (i - 1) * ChunkSize
      BY <1>2, <2>1, Highs
    <3>2. HighOf(len, i) \in 1 .. len /\ (i - 1) * ChunkSize \in 0 .. HighOf(len, i)
      BY <1>2, <2>1, Highs
    <3>3. HighOf(len, i - 1) <= HighOf(len, i)
      BY <3>1, <3>2
    <3> QED
      BY <3>1, <3>2, <3>3
  <2>3. G[i - 1] = SubSeq(content, 1, k) /\ G[i] = SubSeq(content, 1, l)
    BY <1>4, <2>1, <2>2
  <2>4. chunks[i] = SubSeq(content, k + 1, l)
    BY <1>3, <2>1, <2>2
  <2>5. SubSeq(content, 1, k) \o SubSeq(content, k + 1, l) = SubSeq(content, 1, l)
    <3>1. k \in 1 - 1 .. Len(content) /\ l \in k .. Len(content) /\ 1 \in 1 .. Len(content) + 1
      BY <1>1, <2>2
    <3> QED
      BY <3>1, ConcatAdjacentSubSeq
  <2> QED
    BY <2>3, <2>4, <2>5
<1>6. G[1] = chunks[1]
  <2>1. G[1] = SubSeq(content, 1, HighOf(len, 1))
    <3>1. 1 \in 1 .. n
      BY <1>2
    <3> QED
      BY <1>4, <3>1, Zenon
  <2>2. chunks[1] = SubSeq(content, (1 - 1) * ChunkSize + 1, HighOf(len, 1))
    BY <1>2, <1>3
  <2>3. (1 - 1) * ChunkSize + 1 = 1
    BY ChunkSizeAssumption
  <2> QED
    BY <2>1, <2>2, <2>3
<1> DEFINE F(g) == g = [i \in 1 .. n |-> IF i = 1 THEN chunks[i] ELSE g[i - 1] \o chunks[i]]
<1>7. F(G)
  <2>1. \A i \in 1 .. n : i = 1 \/ i \in 2 .. n
    BY <1>2
  <2>2. \A i \in 1 .. n : G[i] = IF i = 1 THEN chunks[i] ELSE G[i - 1] \o chunks[i]
    BY <1>5, <1>6, <2>1
  <2> QED
    BY <1>4, <2>2
<1>8. ASSUME NEW g, F(g)
      PROVE  g = G
  <2> DEFINE S == {i \in 1 .. n : g[i] = G[i]}
  <2>1. 1 \in S
    BY <1>2, <1>6, <1>8
  <2>2. ASSUME NEW k \in 1 .. n - 1, k \in S
        PROVE  k + 1 \in S
    <3>1. PICK j \in 2 .. n : j = k + 1 /\ j - 1 = k /\ j \in 1 .. n /\ j # 1
      BY <1>2
    <3>2. g[j] = g[k] \o chunks[j]
      <4>1. \A i \in 1 .. n : g[i] = IF i = 1 THEN chunks[i] ELSE g[i - 1] \o chunks[i]
        BY <1>8
      <4> QED
        BY <3>1, <4>1, Zenon
    <3>3. G[k] \o chunks[j] = G[j]
      BY <1>5, <3>1, Zenon
    <3>4. g[k] = G[k]
      BY <2>2
    <3> QED
      BY <3>1, <3>2, <3>3, <3>4
  <2>3. \A k \in 1 .. n : k \in S
    <3> HIDE DEF S
    <3> QED
      BY <1>2, <2>1, <2>2, FromOneUp
  <2>4. \A k \in 1 .. n : g[k] = G[k]
    BY <2>3
  <2>5. g = [i \in 1 .. n |-> g[i]]
    BY <1>8
  <2> QED
    BY <1>4, <2>4, <2>5
<1>9. FlattenSeq(chunks) = (CHOOSE g : F(g))[n]
  BY <1>2, <1>3 DEF FlattenSeq
<1>10. (CHOOSE g : F(g)) = G
  <2> HIDE DEF F
  <2> QED
    BY <1>7, <1>8
<1>11. G[n] = content
  BY <1>1, <1>2, <1>4, Highs, SubSeqFull
<1> QED
  BY <1>3, <1>9, <1>10, <1>11 DEF Joined

LEMMA CutLength ==
  ASSUME NEW content \in Seq(Byte), NEW low \in Nat, NEW high \in Nat, low <= high, high <= Len(content)
  PROVE  Len(SubSeq(content, low + 1, high)) = high - low
<1>1. \A q \in low + 1 .. high : content[q] \in Byte
  OBVIOUS
<1>2. low + 1 \in Int /\ high \in Int
  OBVIOUS
<1>3. Len(SubSeq(content, low + 1, high)) = IF low + 1 <= high THEN high - (low + 1) + 1 ELSE 0
  BY <1>1, <1>2, SubSeqProperties, Zenon
<1> QED
  BY <1>3

(* Every chunk but the last one has CHUNK_SIZE bytes, and the last one has *)
(* at least one byte and not more than that: GetFile never hashes an empty *)
(* chunk, nor one that is longer (file.go:78-97).                          *)
THEOREM ChunksAreFull ==
  ASSUME NEW content \in Seq(Byte), content # <<>>, ChunkCount(Len(content)) <= Word
  PROVE  \A i \in 1 .. Len(ChunksOf(content)) :
           /\ Len(ChunksOf(content)[i]) \in 1 .. ChunkSize
           /\ i < Len(ChunksOf(content)) => Len(ChunksOf(content)[i]) = ChunkSize
<1>1. PICK len \in Nat \ {0} : len = Len(content)
  OBVIOUS
<1>2. PICK n \in Nat \ {0} : n = ChunkCount(len)
  BY Highs
<1>3. PICK chunks \in Seq(Seq(Byte)) :
        /\ chunks = ChunksOf(content) /\ Len(chunks) = n
        /\ \A i \in 1 .. n :
             chunks[i] = SubSeq(content, (i - 1) * ChunkSize + 1, HighOf(len, i))
  BY <1>1, <1>2, ChunksAre
<1>4. ASSUME NEW i \in 1 .. n
      PROVE  /\ Len(chunks[i]) \in 1 .. ChunkSize
             /\ i < n => Len(chunks[i]) = ChunkSize
  <2>1. PICK low \in Nat, high \in 1 .. len :
          low = (i - 1) * ChunkSize /\ high = HighOf(len, i) /\ low <= high
    BY <1>2, Highs
  <2>2. Len(chunks[i]) = high - low
    <3>1. chunks[i] = SubSeq(content, low + 1, high)
      BY <1>3, <2>1
    <3>2. Len(SubSeq(content, low + 1, high)) = high - low
      BY <1>1, <2>1, CutLength
    <3> QED
      BY <3>1, <3>2
  <2>3. i * ChunkSize = low + ChunkSize
    BY <2>1, ChunkSizeAssumption
  <2>4. CASE i < n
    <3>1. high = i * ChunkSize
      BY <1>2, <2>1, <2>4, Highs
    <3> QED
      BY <2>2, <2>3, <3>1, ChunkSizeAssumption
  <2>5. CASE i = n
    <3>1. high = len /\ low < len /\ len <= i * ChunkSize
      BY <1>2, <2>1, <2>5, Highs, CountsChunks
    <3> QED
      BY <2>1, <2>2, <2>3, <2>5, <3>1, ChunkSizeAssumption
  <2> QED
    BY <2>4, <2>5
<1> QED
  BY <1>3, <1>4

(* GetFile takes no slice out of range unless the file is empty: then its  *)
(* index of the last chunk wraps, and it panics (file.go:78-97).           *)
THEOREM OnlyEmptyFilesPanic ==
  /\ \A len \in Nat \ {0} : ChunkCount(len) <= Word => ~Panics(len)
  /\ Word > 1 => Panics(0)
<1>1. ASSUME NEW len \in Nat \ {0}, ChunkCount(len) <= Word
      PROVE  ~Panics(len)
  <2>1. PICK n \in Nat \ {0} : n = ChunkCount(len)
    BY Highs
  <2>2. PICK cut : cut = Slices(len)
    OBVIOUS
  <2>3. ASSUME NEW i \in 1 .. n
        PROVE  ~(cut[i].low > cut[i].high \/ cut[i].high > len)
    <3>1. PICK low \in Nat, high \in 1 .. len :
            low = (i - 1) * ChunkSize /\ high = HighOf(len, i) /\ low <= high
      BY <2>1, Highs
    <3>2. cut[i] = [low |-> low, high |-> high]
      BY <1>1, <2>1, <2>2, <3>1, CutsFile, Zenon DEF HighOf
    <3> QED
      BY <3>1, <3>2
  <2>4. DOMAIN cut = 1 .. n
    BY <1>1, <2>1, <2>2, CutsFile
  <2> QED
    BY <2>2, <2>3, <2>4 DEF Panics
<1>2. ASSUME Word > 1
      PROVE  Panics(0)
  <2>1. 0 % ChunkSize = 0 /\ 0 \div ChunkSize = 0
    BY ChunkSizeAssumption
  <2>2. ChunkCount(0) = 0
    BY <2>1 DEF ChunkCount
  <2>3. LastIndex(0) = Word - 1
    BY <2>2, <1>2, WordAssumption DEF LastIndex
  <2>4. PICK m \in Nat : m = Word - 1 /\ m > 0
    BY <1>2, WordAssumption
  <2>5. ~(m * ChunkSize <= 0)
    BY <2>4, ChunkSizeAssumption
  <2>6. PICK k \in Nat : k = 1
    OBVIOUS
  <2>7. PICK s : s = [i \in 1 .. k |-> [low |-> (i - 1) * ChunkSize, high |-> i * ChunkSize]]
    OBVIOUS
  <2>8. PICK last : last = [low |-> m * ChunkSize, high |-> 0]
    OBVIOUS
  <2>9. Slices(0) = s \o <<last>>
    <3>1. LastIndex(0) = m /\ 0 \div ChunkSize + 1 = k
      BY <2>1, <2>3, <2>4, <2>6
    <3> QED
      BY <2>5, <2>7, <2>8, <3>1, Zenon DEF Slices
  <2> DEFINE S == {s[i] : i \in 1 .. k} \cup {last}
  <2>10. s \in [1 .. k -> S] /\ last \in S
    BY <2>7
  <2> HIDE DEF S
  <2>11. DOMAIN Slices(0) = 1 .. k + 1 /\ \A i \in 1 .. k : Slices(0)[i] = s[i]
    BY <2>9, <2>10, OneMore
  <2>12. 1 \in 1 .. k /\ 1 \in 1 .. k + 1 /\ s[1].high = ChunkSize
    BY <2>6, <2>7, ChunkSizeAssumption
  <2>13. 1 \in DOMAIN Slices(0) /\ Slices(0)[1].high > 0
    BY <2>11, <2>12, ChunkSizeAssumption
  <2> QED
    BY <2>13 DEF Panics
<1> QED
  BY <1>1, <1>2


-----------------------------------------------------------------------------
(* Files, metafiles and hashes.                                            *)

LEMMA FilesCut ==
  ASSUME NEW f \in File
  PROVE  /\ Len(Metafile[f]) \in Nat \ {0}
         /\ Metafile[f] \in Seq(Chunk)
         /\ DOMAIN Metafile[f] = 1 .. Len(Metafile[f])
         /\ \A i \in 1 .. Len(Metafile[f]) : Metafile[f][i] \in Seq(Byte)
         /\ Joined(Metafile[f]) = Content[f]
<1>0. Metafile[f] = ChunksOf(Content[f])
  BY DEF Metafile
<1>1. PICK content \in Seq(Byte) : content = Content[f] /\ content # <<>> /\ ChunkCount(Len(content)) <= Word
  BY ContentAssumption
<1>2. PICK len \in Nat \ {0} : len = Len(content)
  BY <1>1
<1>3. PICK n \in Nat \ {0} : n = ChunkCount(len)
  BY Highs
<1>4. PICK chunks \in Seq(Seq(Byte)) : chunks = ChunksOf(content) /\ Len(chunks) = n
  BY <1>1, <1>2, <1>3, ChunksAre
<1>5. \A i \in 1 .. n : chunks[i] \in Chunk
  BY <1>0, <1>1, <1>2, <1>3, <1>4 DEF Chunk
<1>6. chunks \in Seq(Chunk) /\ DOMAIN chunks = 1 .. n /\ \A i \in 1 .. n : chunks[i] \in Seq(Byte)
  BY <1>4, <1>5
<1>7. Joined(chunks) = content
  BY <1>1, <1>4, ChunksJoin
<1> QED
  BY <1>0, <1>1, <1>3, <1>4, <1>6, <1>7

LEMMA ChunksAreBytes == Chunk \subseteq Seq(Byte)
<1> SUFFICES ASSUME NEW c \in Chunk PROVE c \in Seq(Byte)
  OBVIOUS
<1>0. PICK f \in File : c \in {Metafile[f][i] : i \in 1 .. ChunkCount(Len(Content[f]))}
  BY DEF Chunk
<1>1. PICK i \in 1 .. ChunkCount(Len(Content[f])) : c = Metafile[f][i]
  BY <1>0
<1>2. PICK content \in Seq(Byte) : content = Content[f] /\ content # <<>> /\ ChunkCount(Len(content)) <= Word
  BY ContentAssumption
<1>3. Len(ChunksOf(content)) = ChunkCount(Len(content))
  BY <1>2, ChunksAre
<1>4. i \in 1 .. Len(Metafile[f])
  BY <1>1, <1>2, <1>3 DEF Metafile
<1> QED
  BY <1>1, <1>4, FilesCut

LEMMA Sizes ==
  ASSUME NEW h \in Hash
  PROVE  Size(h) \in Nat /\ (h \in Chunk => Size(h) = Len(h))
<1>1. CASE h \in File
  BY <1>1, FilesCut, NameAssumption DEF Size
<1>2. CASE h \in Chunk
  <2>1. h \notin File /\ h \in Seq(Byte)
    BY <1>2, NameAssumption, ChunksAreBytes
  <2> QED
    BY <2>1 DEF Size
<1> QED
  BY <1>1, <1>2 DEF Hash

LEMMA Orders ==
  ASSUME NEW o \in Order
  PROVE  /\ By[o] \in Node /\ Of[o] \in File /\ Of[o] \in Hash
         /\ Whole[o] = Metafile[Of[o]] /\ Whole[o] \in Seq(Chunk)
         /\ Len(Whole[o]) \in Nat \ {0} /\ Size(Of[o]) = Len(Whole[o])
         /\ \A i \in 1 .. Len(Whole[o]) : /\ Whole[o][i] \in Chunk /\ Whole[o][i] \in Hash
                                          /\ From[o][i] \in Node
<1>1. By[o] \in Node /\ Of[o] \in File /\ From[o] \in [1 .. Len(Whole[o]) -> Node \ {By[o]}]
  BY OrderAssumption
<1>2. Whole[o] = Metafile[Of[o]]
  BY DEF Whole
<1>3. PICK w \in Seq(Chunk) : w = Whole[o] /\ Len(w) \in Nat \ {0}
  BY <1>1, <1>2, FilesCut
<1>4. Size(Of[o]) = Len(Whole[o])
  BY <1>1, <1>2 DEF Size
<1> QED
  BY <1>1, <1>2, <1>3, <1>4 DEF Hash

LEMMA Homes ==
  ASSUME NEW w \in Writer
  PROVE  Home(w) \in Node /\ (w \in Order => Home(w) = By[w])
BY OwnerAssumption, OrderAssumption, NameAssumption DEF Writer, Home

(* What GetFile stores of a file.                                          *)
LEMMA StoresHashes ==
  ASSUME NEW f \in File
  PROVE  /\ Len(ToStore(f)) \in Nat /\ DOMAIN ToStore(f) = 1 .. Len(ToStore(f))
         /\ \A i \in 1 .. Len(ToStore(f)) : ToStore(f)[i] \in Hash
<1>1. PICK s \in Seq(Hash) : s = Metafile[f] /\ f \in Hash
  BY FilesCut DEF Hash
<1>2. Append(s, f) \in Seq(Hash)
  BY <1>1
<1> QED
  BY <1>1, <1>2 DEF ToStore

-----------------------------------------------------------------------------
(* The inductive invariant, in three parts.  What is stored, or is being   *)
(* stored, is whole, or a read or a write of it came out short.            *)
Sound(h, size) == size = Size(h) \/ (h \in torn /\ size \in 0 .. Size(h))

StoreTypes ==
  /\ store \in [Node -> SUBSET Hash]
  /\ disk \in [Node -> [Hash -> Nat]]
  /\ writing \in [Writer -> [hash : Hash \cup {None}, size : Nat]]
  /\ shared \in [File -> Nat]
  /\ torn \subseteq Hash

OnDisk(n, h) == /\ disk[n][h] \in 0 .. Size(h)
                /\ h \in store[n] => Sound(h, disk[n][h]) \/ Storing(n, h) # {}

StoreInv == /\ StoreTypes
            /\ \A w \in Writer : Busy(w) => Sound(writing[w].hash, writing[w].size)
            /\ \A n \in Node, h \in Hash : OnDisk(n, h)

(* What a reply carries is whole or torn; and a record of downloadTable,   *)
(* like the channel that the packet loop sends on, belongs to a download   *)
(* of the same node.                                                       *)
Carries(p) == p.hash # None => Sound(p.hash, p.size)

Own(n) ==
  /\ \A f \in loop[n].rest : table[n][f] # None
  /\ \A f \in File : table[n][f] # None => By[table[n][f].ch] = n
  /\ loop[n].pc \in {"set", "send"} =>
       loop[n].at \in File /\ loop[n].ch \in Order /\ By[loop[n].ch] = n
  /\ loop[n].pc \in {"visit", "set", "send"} => Carries(loop[n].reply)

LoopTypes ==
  /\ table \in [Node -> [File -> Record \cup {None}]]
  /\ loop \in [Node -> Idle \cup Inside]
  /\ net \subseteq Request \cup Reply
  /\ early \in 0..MaxEarly

LoopInv == /\ LoopTypes
           /\ \A p \in net : p.kind = "reply" => Carries(p)
           /\ \A n \in Node : Own(n)

(* The chunks a download has taken are the first of its file, as many as   *)
(* its metafile names when it returned and fewer while it waits for one;   *)
(* they are whole or torn, and so is the metafile; all of them are stored. *)
Counts(o) ==
  LET d == dl[o]
  IN  /\ d.total <= Len(Whole[o]) /\ Len(d.data) <= d.total
      /\ Busy(o) => d.pc = "wait"
      /\ d.pc = "new" => d.total = 0
      /\ d.pc = "wait" /\ ~Busy(o) => d.total = 0 \/ Len(d.data) < d.total
      /\ d.pc = "done" => d.total > 0 /\ Len(d.data) = d.total

Taken(o) ==
  /\ dl[o].total > 0 => Sound(Of[o], dl[o].total) /\ Of[o] \in store[By[o]]
  /\ \A i \in 1 .. Len(dl[o].data) : /\ dl[o].data[i].hash = Whole[o][i]
                                     /\ Sound(Whole[o][i], dl[o].data[i].size)
                                     /\ Whole[o][i] \in store[By[o]]

DownInv == dl \in [Order -> Download] /\ \A o \in Order : Counts(o) /\ Taken(o)

FileInv == StoreInv /\ LoopInv /\ DownInv

LEMMA Types == FileInv => TypeOK
BY DEF FileInv, StoreInv, LoopInv, DownInv, StoreTypes, LoopTypes, TypeOK

LEMMA FileInit == Init => FileInv
<1> SUFFICES ASSUME Init PROVE FileInv
  OBVIOUS
<1>1. StoreInv
  <2>1. \A w \in Writer : writing[w] = [hash |-> None, size |-> 0]
    BY DEF Init, Nothing
  <2>2. store \in [Node -> SUBSET Hash]
    <3>1. \A f \in Before : f \in File
      BY OwnerAssumption
    <3> QED
      BY <3>1, StoresHashes DEF Init
  <2>3. \A n \in Node, h \in Hash : disk[n][h] = IF h \in store[n] THEN Size(h) ELSE 0
    BY DEF Init
  <2>4. disk \in [Node -> [Hash -> Nat]]
    BY Sizes DEF Init
  <2>5. shared \in [File -> Nat]
    BY StoresHashes DEF Init
  <2>6. StoreTypes
    BY <2>2, <2>4, <2>5 DEF Init, StoreTypes, Nothing
  <2>7. \A w \in Writer : ~Busy(w)
    BY <2>1 DEF Busy
  <2>8. \A n \in Node, h \in Hash : OnDisk(n, h)
    BY <2>3, Sizes DEF OnDisk, Sound
  <2> QED
    BY <2>6, <2>7, <2>8 DEF StoreInv
<1>2. LoopInv
  BY BoundAssumption DEF Init, LoopInv, LoopTypes, Own, Idle, IdleLoop
<1>3. DownInv
  <2>1. ASSUME NEW o \in Order PROVE dl[o] = [pc |-> "new", total |-> 0, data |-> <<>>] /\ ~Busy(o)
    BY DEF Init, Nothing, Busy, Writer
  <2>2. dl \in [Order -> Download]
    BY DEF Init, Download
  <2>3. ASSUME NEW o \in Order PROVE Counts(o) /\ Taken(o)
    BY <2>1, Orders DEF Counts, Taken
  <2> QED
    BY <2>2, <2>3 DEF DownInv
<1> QED
  BY <1>1, <1>2, <1>3 DEF FileInv

-----------------------------------------------------------------------------
(* Storing and reading. *)

(* What is stored stays, and what was torn stays so.                       *)
Grows == /\ \A n \in Node : store[n] \subseteq store'[n]
         /\ torn \subseteq torn'

LEMMA SoundKept ==
  ASSUME Grows, NEW h, NEW size, Sound(h, size)
  PROVE  Sound(h, size)'
BY DEF Grows, Sound, Size

(* Mutual rest: what does not touch the store keeps its part.              *)
LEMMA SameStore == StoreInv /\ UNCHANGED storage => StoreInv' /\ Grows
<1> SUFFICES ASSUME StoreInv, UNCHANGED storage PROVE StoreInv' /\ Grows
  OBVIOUS
<1>1. store' = store /\ disk' = disk /\ writing' = writing /\ shared' = shared /\ torn' = torn
  BY DEF storage
<1> QED
  BY <1>1 DEF StoreInv, StoreTypes, OnDisk, Storing, Sound, Busy, Grows, Home, Size

LEMMA Publishes ==
  ASSUME StoreInv, NEW w \in Writer, NEW copy \in Copy, Sound(copy.hash, copy.size), ~Busy(w),
         Publish(w, copy), shared' \in [File -> Nat]
  PROVE  /\ StoreInv' /\ Grows /\ copy.hash \in store'[Home(w)]
         /\ writing'[w] = copy /\ \A v \in Writer \ {w} : writing'[v] = writing[v]
<1> DEFINE m == Home(w)
           c == copy.hash
<1>1. m \in Node /\ c \in Hash /\ c # None /\ copy.size \in Nat /\ copy \in [hash : Hash \cup {None}, size : Nat]
  BY Homes, NameAssumption DEF Copy
<1>2. /\ store'[m] = store[m] \cup {c} /\ disk'[m][c] = 0 /\ writing'[w] = copy /\ torn' = torn
      /\ \A n \in Node \ {m} : store'[n] = store[n] /\ disk'[n] = disk[n]
      /\ \A h \in Hash \ {c} : disk'[m][h] = disk[m][h]
      /\ \A v \in Writer \ {w} : writing'[v] = writing[v]
  BY <1>1 DEF Publish, StoreInv, StoreTypes
<1>3. StoreTypes'
  <2>1. disk'[m] \in [Hash -> Nat] /\ disk' \in [Node -> [Hash -> Nat]]
    BY <1>1 DEF Publish, StoreInv, StoreTypes
  <2>2. store' \in [Node -> SUBSET Hash]
    BY <1>1 DEF Publish, StoreInv, StoreTypes
  <2>3. writing' \in [Writer -> [hash : Hash \cup {None}, size : Nat]]
    BY <1>1 DEF Publish, StoreInv, StoreTypes
  <2> QED
    BY <1>2, <2>1, <2>2, <2>3 DEF StoreInv, StoreTypes
<1>4. Grows
  BY <1>1, <1>2 DEF Grows
<1>5. ASSUME NEW v \in Writer, Busy(v)' PROVE Sound(writing[v].hash, writing[v].size)'
  <2>1. CASE v = w
    BY <1>2, <2>1 DEF Sound, Size
  <2>2. CASE v # w
    BY <1>2, <1>5, <2>2 DEF StoreInv, Busy, Sound, Size
  <2> QED
    BY <2>1, <2>2
<1>6. ASSUME NEW n \in Node, NEW h \in Hash PROVE OnDisk(n, h)'
  <2>0. Size(h) \in Nat /\ OnDisk(n, h)
    BY Sizes DEF StoreInv
  <2>1. CASE n = m /\ h = c
    <3>1. w \in Storing(n, h)'
      BY <1>2, <2>1 DEF Storing, Home
    <3> QED
      BY <1>2, <2>0, <2>1, <3>1 DEF OnDisk, Size
  <2>2. CASE ~(n = m /\ h = c)
    <3>1. disk'[n][h] = disk[n][h] /\ (h \in store'[n] => h \in store[n])
      BY <1>2, <2>2
    <3>2. Storing(n, h) \subseteq Storing(n, h)'
      <4> SUFFICES ASSUME NEW v \in Storing(n, h) PROVE v \in Storing(n, h)'
        OBVIOUS
      <4>1. v \in Writer /\ Home(v) = n /\ writing[v].hash = h /\ h # None
        BY NameAssumption DEF Storing
      <4>2. v # w
        BY <4>1 DEF Busy
      <4> QED
        BY <1>2, <4>1, <4>2 DEF Storing, Home
    <3> QED
      BY <1>2, <2>0, <3>1, <3>2 DEF OnDisk, Sound, Size
  <2> QED
    BY <2>1, <2>2
<1> QED
  BY <1>2, <1>3, <1>4, <1>5, <1>6 DEF StoreInv

LEMMA Writes ==
  ASSUME StoreInv, NEW w \in Writer, Written(w), shared' \in [File -> Nat]
  PROVE  /\ StoreInv' /\ Grows /\ Busy(w)
         /\ writing'[w].hash = None /\ \A v \in Writer \ {w} : writing'[v] = writing[v]
<1> DEFINE m == Home(w)
<1>1. PICK c \in Hash, k \in Nat :
        c = writing[w].hash /\ k = writing[w].size /\ Busy(w) /\ Sound(c, k) /\ m \in Node
  BY Homes DEF Written, StoreInv, StoreTypes, Busy
<1>2. PICK size \in Nat :
        /\ size \in Outcomes({k}, ~DiskFails) /\ Tear(c, size)
        /\ disk' = [disk EXCEPT ![m][c] = IF @ < size THEN size ELSE @]
        /\ writing' = [writing EXCEPT ![w] = Nothing] /\ store' = store
  <2>1. PICK size \in Outcomes({k}, ~DiskFails) :
          /\ Tear(c, size)
          /\ disk' = [disk EXCEPT ![m][c] = IF @ < size THEN size ELSE @]
          /\ writing' = [writing EXCEPT ![w] = Nothing] /\ store' = store
    BY <1>1 DEF Written
  <2>2. size \in Nat
    BY DEF Outcomes
  <2> QED
    BY <2>1, <2>2
<1>3. size \in 0 .. k
  BY <1>2 DEF Outcomes
<1>4. Size(c) \in Nat /\ size \in 0 .. Size(c) /\ (size = Size(c) \/ c \in torn')
  <2>1. Size(c) \in Nat
    BY Sizes
  <2>2. k \in 0 .. Size(c)
    BY <1>1, <2>1 DEF Sound
  <2> QED
    BY <1>2, <1>3, <2>1, <2>2 DEF Tear
<1>5. torn \subseteq torn' /\ torn' \subseteq Hash
  BY <1>2 DEF Tear, StoreInv, StoreTypes
<1>6. /\ disk'[m][c] = IF disk[m][c] < size THEN size ELSE disk[m][c]
      /\ \A n \in Node \ {m} : disk'[n] = disk[n]
      /\ \A h \in Hash \ {c} : disk'[m][h] = disk[m][h]
      /\ writing'[w] = Nothing /\ \A v \in Writer \ {w} : writing'[v] = writing[v]
  BY <1>1, <1>2 DEF StoreInv, StoreTypes
<1>7. StoreTypes'
  <2>1. disk' \in [Node -> [Hash -> Nat]]
    BY <1>1, <1>2 DEF StoreInv, StoreTypes
  <2>2. writing' \in [Writer -> [hash : Hash \cup {None}, size : Nat]]
    BY <1>2 DEF StoreInv, StoreTypes, Nothing
  <2> QED
    BY <1>2, <1>5, <2>1, <2>2 DEF StoreInv, StoreTypes
<1>8. Grows
  BY <1>2, <1>5 DEF Grows
<1>9. ASSUME NEW v \in Writer, Busy(v)' PROVE Sound(writing[v].hash, writing[v].size)'
  <2>1. v # w
    BY <1>6, <1>9 DEF Busy, Nothing
  <2>2. writing'[v] = writing[v] /\ Sound(writing[v].hash, writing[v].size)
    BY <1>6, <1>9, <2>1 DEF StoreInv, Busy
  <2> QED
    BY <1>5, <2>2 DEF Sound, Size
<1>10. ASSUME NEW n \in Node, NEW h \in Hash PROVE OnDisk(n, h)'
  <2>0. OnDisk(n, h) /\ store' = store /\ Size(h) \in Nat /\ disk[n][h] \in Nat
    BY <1>2, Sizes DEF StoreInv, StoreTypes
  <2>1. CASE n = m /\ h = c
    <3>1. disk[n][h] \in 0 .. Size(h) /\ size \in 0 .. Size(h) /\ (size = Size(h) \/ h \in torn')
      BY <1>4, <2>0, <2>1 DEF OnDisk
    <3>2. disk'[n][h] = IF disk[n][h] < size THEN size ELSE disk[n][h]
      BY <1>6, <2>1
    <3>3. disk'[n][h] \in 0 .. Size(h) /\ (disk'[n][h] = Size(h) \/ h \in torn')
      BY <2>0, <3>1, <3>2
    <3> QED
      BY <3>3 DEF OnDisk, Sound, Size
  <2>2. CASE ~(n = m /\ h = c)
    <3>1. disk'[n][h] = disk[n][h]
      BY <1>6, <2>2
    <3>2. Storing(n, h) \subseteq Storing(n, h)'
      <4> SUFFICES ASSUME NEW v \in Storing(n, h) PROVE v \in Storing(n, h)'
        OBVIOUS
      <4>1. v \in Writer /\ Home(v) = n /\ writing[v].hash = h
        BY DEF Storing
      <4>2. v # w
        BY <1>1, <2>2, <4>1
      <4> QED
        BY <1>6, <4>1, <4>2 DEF Storing, Home
    <3> QED
      BY <1>5, <2>0, <3>1, <3>2 DEF OnDisk, Sound, Size
  <2> QED
    BY <2>1, <2>2
<1> QED
  BY <1>1, <1>6, <1>7, <1>8, <1>9, <1>10 DEF StoreInv, Nothing

(* What is read is whole or torn from then on.                             *)
LEMMA Reads ==
  ASSUME StoreInv, NEW n \in Node, NEW h \in store[n], NEW size \in ReadSizes(n, h), Tear(h, size),
         UNCHANGED <<store, disk, writing, shared>>
  PROVE  StoreInv' /\ Grows /\ size \in Nat /\ Sound(h, size)'
<1>1. h \in Hash /\ Size(h) \in Nat /\ torn \subseteq torn' /\ torn' \subseteq Hash
  BY Sizes DEF StoreInv, StoreTypes, Tear
<1>2. disk[n][h] \in 0 .. Size(h)
  BY <1>1 DEF StoreInv, OnDisk
<1>3. ASSUME NEW w \in Storing(n, h) PROVE writing[w].size \in 0 .. Size(h)
  <2>1. w \in Writer /\ writing[w].hash = h /\ Busy(w)
    BY <1>1, NameAssumption DEF Storing, Busy
  <2> QED
    BY <1>1, <2>1 DEF StoreInv, Sound
<1>4. size \in 0 .. Size(h)
  <2>1. PICK k \in {disk[n][h]} \cup {writing[w].size : w \in Storing(n, h)} : size = k \/ size \in 0 .. k
    BY DEF ReadSizes, Outcomes
  <2>2. k \in 0 .. Size(h)
    BY <1>2, <1>3
  <2> QED
    BY <1>1, <2>1, <2>2
<1>5. Sound(h, size)'
  BY <1>1, <1>4 DEF Sound, Tear, Size
<1>6. Grows
  BY <1>1 DEF Grows
<1>7. StoreTypes'
  BY <1>1 DEF StoreInv, StoreTypes
<1>8. ASSUME NEW w \in Writer, Busy(w)' PROVE Sound(writing[w].hash, writing[w].size)'
  BY <1>1, <1>8 DEF StoreInv, Busy, Sound, Size
<1>9. ASSUME NEW m \in Node, NEW g \in Hash PROVE OnDisk(m, g)'
  <2>1. OnDisk(m, g) /\ Storing(m, g)' = Storing(m, g)
    BY DEF StoreInv, Storing, Home
  <2> QED
    BY <1>1, <2>1 DEF OnDisk, Sound, Size
<1> QED
  BY <1>4, <1>5, <1>6, <1>7, <1>8, <1>9 DEF StoreInv

-----------------------------------------------------------------------------
(* What a step leaves alone keeps its part of the invariant.               *)

LEMMA SameDownload ==
  ASSUME NEW o \in Order, dl'[o] = dl[o], Busy(o)' = Busy(o), Grows, Counts(o), Taken(o)
  PROVE  Counts(o)' /\ Taken(o)'
<1>1. Counts(o)'
  BY DEF Counts
<1>2. By[o] \in Node /\ store[By[o]] \subseteq store'[By[o]]
  BY Orders DEF Grows
<1>3. Taken(o)'
  BY <1>2, SoundKept DEF Taken
<1> QED
  BY <1>1, <1>3

LEMMA SameDownloads ==
  ASSUME DownInv, Grows, dl' = dl, \A o \in Order : writing'[o] = writing[o]
  PROVE  DownInv'
<1>1. ASSUME NEW o \in Order PROVE Counts(o)' /\ Taken(o)'
  BY SameDownload DEF DownInv, Busy
<1> QED
  BY <1>1 DEF DownInv

LEMMA SameLoop ==
  ASSUME NEW n \in Node, loop'[n] = loop[n], table'[n] = table[n], Grows, Own(n)
  PROVE  Own(n)'
BY SoundKept DEF Own, Carries

(* No packet but requests is new.                                          *)
LEMMA SameNet ==
  ASSUME LoopInv, Grows, NEW asked, asked \subseteq Request, net' \subseteq net \cup asked
  PROVE  net' \subseteq Request \cup Reply /\ \A p \in net' : p.kind = "reply" => Carries(p)'
<1>1. net' \subseteq Request \cup Reply
  BY DEF LoopInv, LoopTypes
<1>2. ASSUME NEW p \in net', p.kind = "reply" PROVE Carries(p)'
  <2>1. p \in net
    BY <1>2 DEF Request
  <2> QED
    BY <1>2, <2>1, SoundKept DEF LoopInv, Carries
<1> QED
  BY <1>1, <1>2

LEMMA SameLoops ==
  ASSUME LoopInv, Grows, table' = table, loop' = loop, early' = early,
         NEW asked, asked \subseteq Request, net' \subseteq net \cup asked
  PROVE  LoopInv'
<1>1. \A n \in Node : Own(n)'
  BY SameLoop DEF LoopInv
<1>2. net' \subseteq Request \cup Reply /\ \A p \in net' : p.kind = "reply" => Carries(p)'
  BY SameNet
<1> QED
  BY <1>1, <1>2 DEF LoopInv, LoopTypes

(* One more element of a sequence, and the hashes of what is taken.        *)
Piece == [hash : Chunk, size : Nat]

LEMMA PieceAppended ==
  ASSUME NEW s \in Seq(Piece), NEW x \in Piece
  PROVE  /\ Append(s, x) \in Seq(Piece) /\ Len(Append(s, x)) = Len(s) + 1
         /\ Append(s, x)[Len(s) + 1] = x /\ \A i \in 1 .. Len(s) : Append(s, x)[i] = s[i]
OBVIOUS

LEMMA ChunkAppended ==
  ASSUME NEW s \in Seq(Chunk), NEW x \in Chunk
  PROVE  /\ Append(s, x) \in Seq(Chunk) /\ Len(Append(s, x)) = Len(s) + 1
         /\ Append(s, x)[Len(s) + 1] = x /\ \A i \in 1 .. Len(s) : Append(s, x)[i] = s[i]
OBVIOUS

LEMMA Pieces == \A o \in Order : DownInv => dl[o] \in Download /\ dl[o].data \in Seq(Piece)
BY DEF DownInv, Download, Piece

LEMMA HashesOf ==
  ASSUME NEW data \in Seq(Piece)
  PROVE  /\ Hashes(data) \in Seq(Chunk) /\ Len(Hashes(data)) = Len(data)
         /\ \A i \in 1 .. Len(data) : Hashes(data)[i] = data[i].hash
<1>1. PICK n \in Nat : n = Len(data) /\ DOMAIN data = 1 .. n
  OBVIOUS
<1>2. \A i \in 1 .. n : data[i].hash \in Chunk
  <2> SUFFICES ASSUME NEW i \in 1 .. n PROVE data[i].hash \in Chunk
    OBVIOUS
  <2>1. data[i] \in Piece
    BY <1>1
  <2> QED
    BY <2>1 DEF Piece
<1>3. Hashes(data) \in [1 .. n -> Chunk] /\ \A i \in 1 .. n : Hashes(data)[i] = data[i].hash
  BY <1>1, <1>2 DEF Hashes
<1>4. Hashes(data) \in Seq(Chunk) /\ Len(Hashes(data)) = n
  BY <1>3
<1> QED
  BY <1>1, <1>3, <1>4

LEMMA HashesAppend ==
  ASSUME NEW data \in Seq(Piece), NEW copy \in Piece
  PROVE  Hashes(Append(data, copy)) = Append(Hashes(data), copy.hash)
<1>1. PICK n \in Nat : n = Len(data)
  OBVIOUS
<1>2. PICK s \in Seq(Chunk) : s = Hashes(data) /\ Len(s) = n /\ \A i \in 1 .. n : s[i] = data[i].hash
  BY <1>1, HashesOf
<1>3. PICK e \in Seq(Piece) :
        /\ e = Append(data, copy) /\ Len(e) = n + 1 /\ e[n + 1] = copy
        /\ \A i \in 1 .. n : e[i] = data[i]
  BY <1>1, PieceAppended
<1>4. copy.hash \in Chunk
  BY DEF Piece
<1>5. PICK t \in Seq(Chunk) :
        /\ t = Append(s, copy.hash) /\ Len(t) = n + 1 /\ t[n + 1] = copy.hash
        /\ \A i \in 1 .. n : t[i] = s[i]
  BY <1>2, <1>4, ChunkAppended
<1>6. \A i \in 1 .. n + 1 : e[i].hash = t[i]
  BY <1>2, <1>3, <1>5
<1>7. PICK h \in Seq(Chunk) : h = Hashes(e) /\ Len(h) = n + 1 /\ \A i \in 1 .. n + 1 : h[i] = e[i].hash
  BY <1>3, HashesOf
<1>8. h = t
  <2>1. \A i \in 1 .. n + 1 : h[i] = t[i]
    BY <1>6, <1>7
  <2>2. Len(h) = Len(t)
    BY <1>5, <1>7
  <2>3. n + 1 = Len(h)
    BY <1>7
  <2> QED
    BY <2>1, <2>2, <2>3
<1> QED
  BY <1>2, <1>3, <1>5, <1>7, <1>8

(* What a download asks for.                                               *)
LEMMA AsksFor ==
  ASSUME NEW o \in Order, NEW i \in Nat, i < Len(Whole[o]), NEW hash \in Hash
  PROVE  Ask(o, i, hash) \in Request
<1>1. i + 1 \in 1 .. Len(Whole[o])
  BY Orders
<1> QED
  BY <1>1, Orders DEF Ask, Request

LEMMA Lengths ==
  ASSUME DownInv, NEW o \in Order
  PROVE  /\ dl[o] \in Download /\ dl[o].total \in Nat /\ Index(o) \in Nat
         /\ Index(o) <= dl[o].total /\ dl[o].total <= Len(Whole[o]) /\ Len(Whole[o]) \in Nat \ {0}
<1>1. PICK d \in Download : d = dl[o]
  BY DEF DownInv
<1>2. PICK data \in Seq([hash : Chunk, size : Nat]) : data = d.data
  BY DEF Download
<1>3. Len(data) \in Nat /\ d.total \in Nat
  BY DEF Download
<1>4. Len(data) <= d.total /\ d.total <= Len(Whole[o])
  BY <1>1, <1>2 DEF DownInv, Counts
<1> QED
  BY <1>1, <1>2, <1>3, <1>4, Orders DEF Index

LEMMA Wants ==
  ASSUME DownInv, NEW o \in Order, dl[o].total = 0 \/ Index(o) < dl[o].total
  PROVE  /\ Wanted(o) \in Hash /\ Ask(o, Index(o), Wanted(o)) \in Request
         /\ GotMeta(o) => Wanted(o) \in Chunk /\ Wanted(o) = Whole[o][Index(o) + 1]
<1>1. PICK t \in Nat, k \in Nat : t = dl[o].total /\ k = Index(o) /\ k <= t /\ t <= Len(Whole[o])
  BY Lengths
<1>2. k < Len(Whole[o]) /\ k + 1 \in 1 .. Len(Whole[o])
  BY <1>1, Orders
<1>3. Wanted(o) \in Hash /\ (GotMeta(o) => Wanted(o) \in Chunk /\ Wanted(o) = Whole[o][k + 1])
  BY <1>1, <1>2, Orders DEF Wanted
<1> QED
  BY <1>1, <1>2, <1>3, AsksFor

(* A loop that hands over what it holds goes on or comes to its end.       *)
LEMMA GoesOn ==
  ASSUME LoopInv, Grows, NEW n \in Node, table' = table, loop[n].pc \in {"visit", "send"},
         NEW rest, rest \subseteq loop[n].rest, loop' = [loop EXCEPT ![n] = Onward(n, rest)]
  PROVE  loop' \in [Node -> Idle \cup Inside] /\ \A m \in Node : Own(m)'
<1>1. PICK l \in Inside : l = loop[n]
  BY DEF LoopInv, LoopTypes, Idle
<1>2. Own(n) /\ Carries(l.reply)
  BY <1>1 DEF LoopInv, Own
<1>3. /\ loop'[n] \in Idle \cup Inside /\ loop'[n].pc \in {"idle", "visit"}
      /\ loop'[n].rest \subseteq loop[n].rest
      /\ loop'[n].pc = "visit" => loop'[n].reply = l.reply
  <2>1. CASE rest = {}
    BY <2>1 DEF Onward, IdleLoop, Idle, LoopInv, LoopTypes
  <2>2. CASE rest # {}
    <3>1. loop'[n] = [l EXCEPT !.pc = "visit", !.rest = rest, !.at = None, !.ch = None]
      BY <1>1, <2>2 DEF Onward, LoopInv, LoopTypes
    <3>2. l = [pc |-> l.pc, rest |-> l.rest, reply |-> l.reply, at |-> l.at, ch |-> l.ch]
          /\ l.reply \in Reply /\ l.rest \subseteq File
      BY <1>1 DEF Inside
    <3>3. loop'[n] = [pc |-> "visit", rest |-> rest, reply |-> l.reply, at |-> None, ch |-> None]
      BY <3>1, <3>2
    <3> QED
      BY <1>1, <3>2, <3>3 DEF Inside
  <2> QED
    BY <2>1, <2>2
<1>4. loop' \in [Node -> Idle \cup Inside] /\ \A m \in Node \ {n} : loop'[m] = loop[m]
  BY <1>3 DEF LoopInv, LoopTypes
<1>5. Own(n)'
  <2>1. Carries(l.reply)'
    BY <1>2, SoundKept DEF Carries
  <2> QED
    BY <1>2, <1>3, <2>1 DEF Own, Carries
<1> QED
  BY <1>4, <1>5, SameLoop DEF LoopInv

-----------------------------------------------------------------------------
(* One lemma for each action. *)

LEMMA ShareStep ==
  ASSUME FileInv, NEW f \in File, Share(f)
  PROVE  FileInv'
<1>1. PICK i \in 1 .. Len(ToStore(f)) : i = shared[f] + 1
  BY StoresHashes DEF FileInv, StoreInv, StoreTypes, Share
<1>2. PICK hash \in Hash : hash = ToStore(f)[i]
  BY StoresHashes
<1>3. PICK copy \in Copy : copy = [hash |-> hash, size |-> Size(hash)]
  BY Sizes DEF Copy
<1>4. Publish(f, copy) /\ ~Busy(f) /\ Sound(copy.hash, copy.size) /\ f \in Writer
  BY <1>1, <1>2, <1>3 DEF Share, Sound, Writer
<1>5. shared' \in [File -> Nat]
  BY <1>1 DEF FileInv, StoreInv, StoreTypes, Share
<1>6. /\ StoreInv' /\ Grows
      /\ \A v \in Writer \ {f} : writing'[v] = writing[v]
  BY <1>4, <1>5, Publishes DEF FileInv
<1>7. \A o \in Order : writing'[o] = writing[o]
  BY <1>6, NameAssumption DEF Writer
<1>8. DownInv'
  BY <1>6, <1>7, SameDownloads DEF FileInv, Share
<1>9. LoopInv'
  BY <1>6, SameLoops DEF FileInv, Share
<1> QED
  BY <1>6, <1>8, <1>9 DEF FileInv

LEMMA SharedOneStep ==
  ASSUME FileInv, NEW f \in File, SharedOne(f)
  PROVE  FileInv'
<1>1. f \in Writer /\ shared' \in [File -> Nat] /\ Written(f)
  BY DEF FileInv, StoreInv, StoreTypes, SharedOne, Writer
<1>2. StoreInv' /\ Grows /\ \A v \in Writer \ {f} : writing'[v] = writing[v]
  BY <1>1, Writes DEF FileInv
<1>3. \A o \in Order : writing'[o] = writing[o]
  BY <1>2, NameAssumption DEF Writer
<1>4. DownInv'
  BY <1>2, <1>3, SameDownloads DEF FileInv, SharedOne
<1>5. LoopInv'
  BY <1>2, SameLoops DEF FileInv, SharedOne
<1> QED
  BY <1>2, <1>4, <1>5 DEF FileInv

LEMMA BeginStep ==
  ASSUME FileInv, NEW o \in Order, Begin(o)
  PROVE  FileInv'
<1>1. By[o] \in Node /\ Of[o] \in File /\ Of[o] \in Hash /\ 0 < Len(Whole[o])
  BY Orders
<1>2. Ask(o, 0, Of[o]) \in Request
  BY <1>1, AsksFor
<1>3. StoreInv' /\ Grows /\ writing' = writing
  BY SameStore DEF FileInv, Begin, storage
<1>4. PICK d \in Download : d = dl[o] /\ d.pc = "new"
  BY DEF FileInv, DownInv, Begin
<1>5. /\ dl'[o] = [d EXCEPT !.pc = "wait"] /\ dl' = [dl EXCEPT ![o] = dl'[o]]
      /\ \A q \in Order \ {o} : dl'[q] = dl[q]
  BY <1>4 DEF FileInv, DownInv, Begin
<1>6. /\ dl'[o] \in Download /\ dl'[o].pc = "wait"
      /\ dl'[o].total = d.total /\ dl'[o].data = d.data
  BY <1>4, <1>5 DEF Download
<1>7. DownInv'
  <2>1. ASSUME NEW q \in Order PROVE Counts(q)' /\ Taken(q)'
    <3>0. Counts(q) /\ Taken(q) /\ Busy(q)' = Busy(q)
      BY <1>3 DEF FileInv, DownInv, Busy
    <3>1. CASE q = o
      <4>1. Counts(q)'
        BY <1>4, <1>6, <3>0, <3>1 DEF Counts
      <4>2. By[q] \in Node /\ store[By[q]] \subseteq store'[By[q]]
        BY <1>1, <1>3, <3>1 DEF Grows
      <4>3. Taken(q)'
        BY <1>3, <1>4, <1>6, <3>0, <3>1, <4>2, SoundKept DEF Taken
      <4> QED
        BY <4>1, <4>3
    <3>2. CASE q # o
      BY <1>3, <1>5, <3>0, <3>2, SameDownload
    <3> QED
      BY <3>1, <3>2
  <2>2. dl' \in [Order -> Download]
    BY <1>5, <1>6 DEF FileInv, DownInv
  <2> QED
    BY <2>1, <2>2 DEF DownInv
<1>8. LoopInv'
  <2>1. table' \in [Node -> [File -> Record \cup {None}]]
    BY <1>1 DEF FileInv, LoopInv, LoopTypes, Begin, Record
  <2>2. ASSUME NEW n \in Node PROVE Own(n)'
    <3>0. Own(n) /\ loop' = loop
      BY DEF FileInv, LoopInv, Begin
    <3>1. CASE n = By[o]
      <4>1. table'[n][Of[o]] = [ch |-> o, total |-> 0]
            /\ \A f \in File \ {Of[o]} : table'[n][f] = table[n][f]
        BY <1>1, <3>1 DEF FileInv, LoopInv, LoopTypes, Begin
      <4>2. loop[n].rest = {}
        BY <3>1 DEF Begin, LockFree
      <4> QED
        BY <1>3, <3>0, <3>1, <4>1, <4>2, SoundKept DEF Own, Carries
    <3>2. CASE n # By[o]
      <4>1. table'[n] = table[n]
        BY <1>1, <3>2 DEF FileInv, LoopInv, LoopTypes, Begin
      <4> QED
        BY <1>3, <3>0, <4>1, SameLoop
    <3> QED
      BY <3>1, <3>2
  <2>3. net' \subseteq Request \cup Reply /\ \A p \in net' : p.kind = "reply" => Carries(p)'
    BY <1>2, <1>3, SameNet, {Ask(o, 0, Of[o])} \subseteq Request, net' \subseteq net \cup {Ask(o, 0, Of[o])}
       DEF FileInv, Begin
  <2> QED
    BY <2>1, <2>2, <2>3 DEF FileInv, LoopInv, LoopTypes, Begin
<1> QED
  BY <1>3, <1>7, <1>8 DEF FileInv

LEMMA RetransmitStep ==
  ASSUME FileInv, NEW o \in Order, Retransmit(o)
  PROVE  FileInv'
<1>1. StoreInv' /\ Grows /\ writing' = writing /\ dl' = dl
  BY SameStore DEF FileInv, Retransmit, storage
<1>2. DownInv'
  BY <1>1, SameDownloads DEF FileInv
<1>3. dl[o].total = 0 \/ Index(o) < dl[o].total
  BY DEF FileInv, DownInv, Counts, Retransmit, Waiting, Index
<1>4. PICK ask \in Request : ask = Ask(o, Index(o), Wanted(o))
  BY <1>3, Wants DEF FileInv
<1>5. net' \subseteq net \cup {ask} /\ table' = table /\ loop' = loop
  BY <1>4 DEF Retransmit
<1>6. net' \subseteq Request \cup Reply /\ \A p \in net' : p.kind = "reply" => Carries(p)'
  BY <1>1, <1>4, <1>5, SameNet, {ask} \subseteq Request DEF FileInv
<1>7. \A n \in Node : Own(n)'
  BY <1>1, <1>5, SameLoop DEF FileInv, LoopInv
<1>8. early' \in 0 .. MaxEarly
  BY BoundAssumption DEF FileInv, LoopInv, LoopTypes, Retransmit
<1>9. LoopInv'
  BY <1>5, <1>6, <1>7, <1>8 DEF FileInv, LoopInv, LoopTypes
<1> QED
  BY <1>1, <1>2, <1>9 DEF FileInv

LEMMA AnswerStep ==
  ASSUME FileInv, NEW n \in Node, Answer(n)
  PROVE  FileInv'
<1>1. PICK p \in net :
        /\ p.kind = "request"
        /\ \/ /\ net' = (net \ {p}) \cup {[kind |-> "reply", src |-> n, dst |-> p.src,
                                          about |-> p.hash, hash |-> None, size |-> 0]}
              /\ UNCHANGED torn
           \/ /\ p.hash \in store[n]
              /\ \E size \in ReadSizes(n, p.hash) :
                   /\ net' = (net \ {p}) \cup {[kind |-> "reply", src |-> n, dst |-> p.src,
                                               about |-> p.hash, hash |-> p.hash, size |-> size]}
                   /\ Tear(p.hash, size)
        /\ UNCHANGED <<store, disk, writing, shared, dl, table, loop, early>>
  BY DEF Answer
<1>2. p.src \in Node /\ p.hash \in Hash
  BY <1>1 DEF FileInv, LoopInv, LoopTypes, Request, Reply
<1>3. PICK reply \in Reply : net' = (net \ {p}) \cup {reply} /\ StoreInv' /\ Grows /\ Carries(reply)'
  <2>1. CASE /\ net' = (net \ {p}) \cup {[kind |-> "reply", src |-> n, dst |-> p.src,
                                          about |-> p.hash, hash |-> None, size |-> 0]}
             /\ UNCHANGED torn
    <3>1. StoreInv' /\ Grows
      BY <1>1, <2>1, SameStore DEF FileInv, storage
    <3>2. [kind |-> "reply", src |-> n, dst |-> p.src, about |-> p.hash, hash |-> None, size |-> 0] \in Reply
      BY <1>2 DEF Reply
    <3> QED
      BY <2>1, <3>1, <3>2 DEF Carries
  <2>2. CASE /\ p.hash \in store[n]
             /\ \E size \in ReadSizes(n, p.hash) :
                  /\ net' = (net \ {p}) \cup {[kind |-> "reply", src |-> n, dst |-> p.src,
                                              about |-> p.hash, hash |-> p.hash, size |-> size]}
                  /\ Tear(p.hash, size)
    <3>1. PICK h \in store[n] : h = p.hash
      BY <2>2
    <3>2. PICK size \in ReadSizes(n, h) :
            /\ net' = (net \ {p}) \cup {[kind |-> "reply", src |-> n, dst |-> p.src,
                                        about |-> p.hash, hash |-> p.hash, size |-> size]}
            /\ Tear(h, size)
      BY <2>2, <3>1
    <3>3. StoreInv' /\ Grows /\ size \in Nat /\ Sound(h, size)'
      BY <1>1, <3>2, Reads DEF FileInv
    <3>4. [kind |-> "reply", src |-> n, dst |-> p.src, about |-> p.hash, hash |-> p.hash, size |-> size] \in Reply
      BY <1>2, <3>3 DEF Reply
    <3> QED
      BY <3>1, <3>2, <3>3, <3>4 DEF Carries
  <2> QED
    BY <1>1, <2>1, <2>2
<1>5. net' \subseteq Request \cup Reply /\ \A q \in net' : q.kind = "reply" => Carries(q)'
  <2>1. net' \subseteq Request \cup Reply
    BY <1>3 DEF FileInv, LoopInv, LoopTypes
  <2>2. ASSUME NEW q \in net', q.kind = "reply" PROVE Carries(q)'
    <3>1. CASE q = reply
      BY <1>3, <3>1 DEF Carries
    <3>2. CASE q \in net
      BY <1>3, <2>2, <3>2, SoundKept DEF FileInv, LoopInv, Carries
    <3> QED
      BY <1>3, <3>1, <3>2
  <2> QED
    BY <2>1, <2>2
<1>6. DownInv'
  BY <1>1, <1>3, SameDownloads DEF FileInv
<1>7. \A m \in Node : Own(m)'
  BY <1>1, <1>3, SameLoop DEF FileInv, LoopInv
<1>8. LoopInv'
  BY <1>1, <1>5, <1>7 DEF FileInv, LoopInv, LoopTypes
<1> QED
  BY <1>3, <1>6, <1>8 DEF FileInv

LEMMA EnterStep ==
  ASSUME FileInv, NEW n \in Node, Enter(n)
  PROVE  FileInv'
<1>1. PICK p \in net :
        /\ p.kind = "reply"
        /\ net' = net \ {p}
        /\ loop' = [loop EXCEPT ![n] =
             IF {f \in File : table[n][f] # None} = {} THEN IdleLoop
             ELSE [pc |-> "visit", rest |-> {f \in File : table[n][f] # None}, reply |-> p,
                   at |-> None, ch |-> None]]
  BY DEF Enter
<1>2. p \in Reply /\ Carries(p)
  BY <1>1 DEF FileInv, LoopInv, LoopTypes, Request
<1>3. StoreInv' /\ Grows /\ writing' = writing
  BY SameStore DEF FileInv, Enter, storage
<1>4. /\ loop'[n] \in Idle \cup Inside /\ loop'[n].pc \in {"idle", "visit"}
      /\ loop'[n].rest \subseteq {f \in File : table[n][f] # None}
      /\ loop'[n].pc = "visit" => loop'[n].reply = p
  BY <1>1, <1>2 DEF FileInv, LoopInv, LoopTypes, Idle, IdleLoop, Inside
<1>5. loop' \in [Node -> Idle \cup Inside] /\ \A m \in Node \ {n} : loop'[m] = loop[m]
  BY <1>1, <1>4 DEF FileInv, LoopInv, LoopTypes
<1>6. DownInv'
  BY <1>3, SameDownloads DEF FileInv, Enter
<1>7. ASSUME NEW m \in Node PROVE Own(m)'
  <2>1. Own(m) /\ table' = table
    BY DEF FileInv, LoopInv, Enter
  <2>2. CASE m = n
    <3>1. Carries(p)'
      BY <1>2, <1>3, SoundKept DEF Carries
    <3> QED
      BY <1>4, <2>1, <2>2, <3>1 DEF Own, Carries
  <2>3. CASE m # n
    BY <1>3, <1>5, <2>1, <2>3, SameLoop
  <2> QED
    BY <2>2, <2>3
<1>8. net' \subseteq Request \cup Reply /\ \A q \in net' : q.kind = "reply" => Carries(q)'
  BY <1>1, <1>3, SameNet, {} \subseteq Request, net' \subseteq net \cup {} DEF FileInv
<1>9. LoopInv'
  BY <1>5, <1>7, <1>8 DEF FileInv, LoopInv, LoopTypes, Enter
<1> QED
  BY <1>3, <1>6, <1>9 DEF FileInv

LEMMA VisitStep ==
  ASSUME FileInv, NEW n \in Node, NEW f \in File, Visit(n, f)
  PROVE  FileInv'
<1>1. LoopInv /\ Own(n) /\ table' = table /\ loop[n].pc = "visit" /\ f \in loop[n].rest
  BY DEF FileInv, LoopInv, Visit
<1>2. PICK l \in Inside : l = loop[n]
  BY <1>1 DEF LoopInv, LoopTypes, Idle
<1>3. table[n][f] \in Record /\ table[n][f].ch \in Order /\ By[table[n][f].ch] = n
  BY <1>1 DEF LoopInv, LoopTypes, Own, Record
<1>4. StoreInv' /\ Grows /\ writing' = writing
  BY SameStore DEF FileInv, Visit, storage
<1>5. loop' \in [Node -> Idle \cup Inside] /\ \A m \in Node : Own(m)'
  <2>1. ASSUME NEW pc \in {"set", "send"},
               loop' = [loop EXCEPT ![n] = [loop[n] EXCEPT !.pc = pc, !.rest = @ \ {f},
                                                           !.at = f, !.ch = table[n][f].ch]]
        PROVE  loop' \in [Node -> Idle \cup Inside] /\ \A m \in Node : Own(m)'
    <3>1. loop'[n] = [l EXCEPT !.pc = pc, !.rest = @ \ {f}, !.at = f, !.ch = table[n][f].ch]
          /\ \A m \in Node \ {n} : loop'[m] = loop[m]
      BY <1>1, <1>2, <2>1 DEF LoopInv, LoopTypes
    <3>2. l = [pc |-> l.pc, rest |-> l.rest, reply |-> l.reply, at |-> l.at, ch |-> l.ch]
          /\ l.reply \in Reply /\ l.rest \subseteq File
      BY <1>2 DEF Inside
    <3>3. loop'[n] = [pc |-> pc, rest |-> l.rest \ {f}, reply |-> l.reply, at |-> f, ch |-> table[n][f].ch]
      BY <3>1, <3>2
    <3>4. loop'[n] \in Inside
      BY <1>3, <3>2, <3>3 DEF Inside
    <3>5. loop' \in [Node -> Idle \cup Inside]
      BY <1>1, <2>1, <3>1, <3>4 DEF LoopInv, LoopTypes
    <3>6. Carries(l.reply)'
      BY <1>1, <1>2, <1>4, SoundKept DEF Own, Carries
    <3>7. Own(n)'
      BY <1>1, <1>2, <1>3, <3>3, <3>6 DEF Own, Carries
    <3> QED
      BY <1>1, <1>4, <3>1, <3>5, <3>7, SameLoop DEF LoopInv
  <2>2. ASSUME loop' = [loop EXCEPT ![n] = Onward(n, loop[n].rest \ {f})]
        PROVE  loop' \in [Node -> Idle \cup Inside] /\ \A m \in Node : Own(m)'
    <3>1. PICK rest : rest = loop[n].rest \ {f} /\ rest \subseteq loop[n].rest
      OBVIOUS
    <3>2. loop' = [loop EXCEPT ![n] = Onward(n, rest)]
      BY <2>2, <3>1
    <3> QED
      BY <1>1, <1>4, <3>1, <3>2, GoesOn
  <2> QED
    BY <2>1, <2>2 DEF Visit
<1>6. DownInv'
  BY <1>4, SameDownloads DEF FileInv, Visit
<1>7. \A p \in net' : p.kind = "reply" => Carries(p)'
  BY <1>1, <1>4, SoundKept DEF LoopInv, Visit, Carries
<1>8. LoopInv'
  BY <1>1, <1>5, <1>7 DEF LoopInv, LoopTypes, Visit
<1> QED
  BY <1>4, <1>6, <1>8 DEF FileInv

LEMMA SetMetaStep ==
  ASSUME FileInv, NEW n \in Node, SetMeta(n)
  PROVE  FileInv'
<1>1. LoopInv /\ Own(n) /\ loop[n].pc = "set" /\ loop[n].rest = {}
  BY DEF FileInv, LoopInv, SetMeta, LockFree
<1>2. PICK l \in Inside : l = loop[n]
  BY <1>1 DEF LoopInv, LoopTypes, Idle
<1>3. l.at \in File /\ l.ch \in Order /\ By[l.ch] = n /\ l.reply.size \in Nat /\ Carries(l.reply)
  BY <1>1, <1>2 DEF Own, Inside, Reply
<1>4. loop'[n] = [l EXCEPT !.pc = "send"] /\ \A m \in Node \ {n} : loop'[m] = loop[m]
  BY <1>1, <1>2 DEF LoopInv, LoopTypes, SetMeta
<1>5. /\ loop'[n] \in Inside /\ loop'[n].at = l.at /\ loop'[n].ch = l.ch /\ loop'[n].rest = {}
      /\ loop'[n].reply = l.reply
  BY <1>1, <1>2, <1>4 DEF Inside
<1>6. table'[n][l.at] = [ch |-> l.ch, total |-> l.reply.size]
      /\ (\A f \in File \ {l.at} : table'[n][f] = table[n][f])
      /\ (\A m \in Node \ {n} : table'[m] = table[m])
  BY <1>1, <1>2, <1>3 DEF LoopInv, LoopTypes, SetMeta
<1>7. StoreInv' /\ Grows /\ writing' = writing
  BY SameStore DEF FileInv, SetMeta, storage
<1>8. LoopTypes'
  <2>1. loop' \in [Node -> Idle \cup Inside]
    BY <1>1, <1>5 DEF LoopInv, LoopTypes, SetMeta
  <2>2. table' \in [Node -> [File -> Record \cup {None}]]
    BY <1>1, <1>2, <1>3 DEF LoopInv, LoopTypes, SetMeta, Record
  <2> QED
    BY <1>1, <2>1, <2>2 DEF LoopInv, LoopTypes, SetMeta
<1>9. DownInv'
  BY <1>7, SameDownloads DEF FileInv, SetMeta
<1>10. ASSUME NEW m \in Node PROVE Own(m)'
  <2>1. CASE m = n
    <3>1. Carries(l.reply)'
      BY <1>3, <1>7, SoundKept DEF Carries
    <3> QED
      BY <1>1, <1>3, <1>5, <1>6, <2>1, <3>1 DEF Own, Carries
  <2>2. CASE m # n
    BY <1>4, <1>6, <1>7, <2>2, SameLoop DEF FileInv, LoopInv
  <2> QED
    BY <2>1, <2>2
<1>11. \A p \in net' : p.kind = "reply" => Carries(p)'
  BY <1>1, <1>7, SoundKept DEF LoopInv, SetMeta, Carries
<1> QED
  BY <1>7, <1>8, <1>9, <1>10, <1>11 DEF FileInv, LoopInv

(* Where the loop's send and the receive of a download meet.               *)
LEMMA MeetStep ==
  ASSUME FileInv, NEW n \in Node, NEW o \in Order, Meet(n, o), Grows
  PROVE  LoopInv' /\ By[o] = n /\ Carries(loop[n].reply) /\ loop[n].reply \in Reply
<1>1. LoopInv /\ Own(n) /\ table' = table /\ net' = net /\ early' = early
      /\ loop[n].pc = "send" /\ loop[n].ch = o
  BY DEF FileInv, LoopInv, Meet
<1>2. PICK rest : rest = loop[n].rest
  OBVIOUS
<1>3. loop' = [loop EXCEPT ![n] = Onward(n, rest)]
  BY <1>2 DEF Meet
<1>4. loop' \in [Node -> Idle \cup Inside] /\ \A m \in Node : Own(m)'
  BY <1>1, <1>2, <1>3, GoesOn
<1>5. \A p \in net' : p.kind = "reply" => Carries(p)'
  BY <1>1, SoundKept DEF LoopInv, Carries
<1>6. LoopInv'
  BY <1>1, <1>4, <1>5 DEF LoopInv, LoopTypes
<1>7. loop[n] \in Inside
  BY <1>1 DEF LoopInv, LoopTypes, Idle
<1> QED
  BY <1>1, <1>6, <1>7 DEF Own, Inside

LEMMA TakeNothingStep ==
  ASSUME FileInv, NEW n \in Node, NEW o \in Order, TakeNothing(n, o)
  PROVE  FileInv'
<1>1. StoreInv' /\ Grows /\ writing' = writing
  BY SameStore DEF FileInv, TakeNothing, Meet, storage
<1>2. LoopInv'
  BY <1>1, MeetStep DEF TakeNothing
<1>3. PICK d \in Download : d = dl[o]
  BY DEF FileInv, DownInv
<1>4. /\ dl'[o] = [d EXCEPT !.pc = "missing"] /\ dl' = [dl EXCEPT ![o] = dl'[o]]
      /\ \A q \in Order \ {o} : dl'[q] = dl[q]
  BY <1>3 DEF FileInv, DownInv, TakeNothing
<1>5. /\ dl'[o] \in Download /\ dl'[o].pc = "missing"
      /\ dl'[o].total = d.total /\ dl'[o].data = d.data
  BY <1>3, <1>4 DEF Download
<1>6. ASSUME NEW q \in Order PROVE Counts(q)' /\ Taken(q)'
  <2>1. Counts(q) /\ Taken(q) /\ Busy(q)' = Busy(q)
    BY <1>1 DEF FileInv, DownInv, Busy
  <2>2. CASE q = o
    <3>1. Counts(q)'
      BY <1>3, <1>5, <2>1, <2>2 DEF Counts, TakeNothing, Meet, Waiting
    <3>2. By[q] \in Node /\ store[By[q]] \subseteq store'[By[q]]
      BY <1>1, Orders DEF Grows
    <3> QED
      BY <1>1, <1>3, <1>5, <2>1, <2>2, <3>1, <3>2, SoundKept DEF Taken
  <2>3. CASE q # o
    BY <1>1, <1>4, <2>1, <2>3, SameDownload
  <2> QED
    BY <2>2, <2>3
<1>7. DownInv'
  BY <1>4, <1>5, <1>6 DEF FileInv, DownInv
<1> QED
  BY <1>1, <1>2, <1>7 DEF FileInv

LEMMA TakeMetaStep ==
  ASSUME FileInv, NEW n \in Node, NEW o \in Order, TakeMeta(n, o)
  PROVE  FileInv'
<1>1. /\ Of[o] \in Hash /\ Of[o] # None /\ o \in Writer /\ By[o] \in Node /\ Home(o) = By[o]
      /\ Size(Of[o]) = Len(Whole[o]) /\ Len(Whole[o]) \in Nat
  BY Orders, Homes, NameAssumption DEF Writer
<1>2. /\ loop[n].pc = "send" /\ loop[n].ch = o /\ loop[n].reply.hash = Of[o]
      /\ dl[o].pc = "wait" /\ ~Busy(o) /\ ~GotMeta(o) /\ shared' = shared
  BY DEF TakeMeta, Carried, Meet, Waiting
<1>3. loop[n].reply \in Reply /\ Carries(loop[n].reply)
  <2>1. loop[n] \in Inside
    BY <1>2 DEF FileInv, LoopInv, LoopTypes, Idle
  <2> QED
    BY <1>2, <2>1 DEF FileInv, LoopInv, Own, Inside
<1>4. PICK size \in Nat : size = loop[n].reply.size /\ Sound(Of[o], size)
  BY <1>1, <1>2, <1>3 DEF Carries, Reply
<1>5. PICK copy \in Copy : copy = [hash |-> Of[o], size |-> size]
  BY <1>1 DEF Copy
<1>6. /\ StoreInv' /\ Grows /\ Of[o] \in store'[By[o]] /\ Busy(o)'
      /\ \A q \in Order \ {o} : Busy(q)' = Busy(q)
  <2>1. Publish(o, copy) /\ Sound(copy.hash, copy.size) /\ shared' \in [File -> Nat]
    BY <1>2, <1>4, <1>5 DEF FileInv, StoreInv, StoreTypes, TakeMeta
  <2>2. /\ StoreInv' /\ Grows /\ copy.hash \in store'[Home(o)] /\ writing'[o] = copy
        /\ \A v \in Writer \ {o} : writing'[v] = writing[v]
    BY <1>1, <1>2, <2>1, Publishes DEF FileInv
  <2> QED
    BY <1>1, <1>5, <2>2 DEF Busy, Writer
<1>7. LoopInv'
  BY <1>6, MeetStep DEF TakeMeta
<1>8. PICK d \in Download : d = dl[o]
  BY DEF FileInv, DownInv
<1>9. /\ dl'[o] = [d EXCEPT !.total = size] /\ dl' = [dl EXCEPT ![o] = dl'[o]]
      /\ \A q \in Order \ {o} : dl'[q] = dl[q]
  BY <1>4, <1>8 DEF FileInv, DownInv, TakeMeta
<1>10. dl'[o] \in Download /\ dl'[o].pc = d.pc /\ dl'[o].total = size /\ dl'[o].data = d.data
  BY <1>8, <1>9 DEF Download
<1>11. Len(d.data) = 0 /\ d.pc = "wait"
  BY <1>2, <1>8, Lengths DEF FileInv, GotMeta, Index
<1>12. size <= Len(Whole[o]) /\ Sound(Of[o], size)'
  BY <1>1, <1>4, <1>6, SoundKept DEF Sound
<1>13. ASSUME NEW q \in Order PROVE Counts(q)' /\ Taken(q)'
  <2>1. CASE q = o
    BY <1>6, <1>8, <1>10, <1>11, <1>12, <2>1 DEF Counts, Taken
  <2>2. CASE q # o
    BY <1>6, <1>9, <2>2, SameDownload DEF FileInv, DownInv
  <2> QED
    BY <2>1, <2>2
<1>14. DownInv'
  BY <1>9, <1>10, <1>13 DEF FileInv, DownInv
<1> QED
  BY <1>6, <1>7, <1>14 DEF FileInv

(* What taking the chunk that is waited for makes of a download.           *)
LEMMA ChunkTaken ==
  ASSUME FileInv, NEW n \in Node, NEW o \in Order, TakeChunk(n, o)
  PROVE  \E copy \in Piece :
           /\ copy.hash = Whole[o][Index(o) + 1] /\ Carries(copy) /\ Publish(o, copy)
           /\ Index(o) \in Nat /\ Index(o) < dl[o].total /\ dl[o].pc = "wait"
           /\ dl'[o] = [dl[o] EXCEPT !.data = Append(@, copy)]
           /\ \A q \in Order \ {o} : dl'[q] = dl[q]
           /\ dl' = [dl EXCEPT ![o] = dl'[o]]
<1>1. /\ loop[n].pc = "send" /\ loop[n].reply.hash = Wanted(o)
      /\ dl[o].pc = "wait" /\ ~Busy(o) /\ GotMeta(o)
  BY DEF TakeChunk, Carried, Meet, Waiting
<1>2. Index(o) \in Nat /\ Index(o) < dl[o].total
  BY <1>1, Lengths DEF FileInv, DownInv, Counts, Index, GotMeta
<1>3. Wanted(o) \in Chunk /\ Wanted(o) = Whole[o][Index(o) + 1]
  BY <1>1, <1>2, Wants DEF FileInv
<1>4. loop[n].reply \in Reply /\ Carries(loop[n].reply)
  <2>1. loop[n] \in Inside
    BY <1>1 DEF FileInv, LoopInv, LoopTypes, Idle
  <2> QED
    BY <1>1, <2>1 DEF FileInv, LoopInv, Own, Inside
<1>5. PICK copy \in Piece : copy = [hash |-> Wanted(o), size |-> loop[n].reply.size]
  BY <1>3, <1>4 DEF Reply, Piece
<1>6. Publish(o, copy) /\ dl' = [dl EXCEPT ![o].data = Append(@, copy)]
  BY <1>5 DEF TakeChunk, Take
<1>7. /\ dl'[o] = [dl[o] EXCEPT !.data = Append(@, copy)]
      /\ \A q \in Order \ {o} : dl'[q] = dl[q]
      /\ dl' = [dl EXCEPT ![o] = dl'[o]]
  BY <1>6 DEF FileInv, DownInv
<1>8. copy.hash = Whole[o][Index(o) + 1] /\ Carries(copy)
  BY <1>1, <1>3, <1>4, <1>5 DEF Carries
<1> QED
  BY <1>1, <1>2, <1>6, <1>7, <1>8

LEMMA TakeChunkStep ==
  ASSUME FileInv, NEW n \in Node, NEW o \in Order, TakeChunk(n, o)
  PROVE  FileInv'
<1>1. PICK copy \in Piece :
        /\ copy.hash = Whole[o][Index(o) + 1] /\ Carries(copy) /\ Publish(o, copy)
        /\ Index(o) \in Nat /\ Index(o) < dl[o].total /\ dl[o].pc = "wait"
        /\ dl'[o] = [dl[o] EXCEPT !.data = Append(@, copy)]
        /\ \A q \in Order \ {o} : dl'[q] = dl[q]
        /\ dl' = [dl EXCEPT ![o] = dl'[o]]
  BY ChunkTaken
<1>2. /\ o \in Writer /\ By[o] \in Node /\ Home(o) = By[o] /\ copy \in Copy /\ copy.hash # None
  BY Orders, Homes, NameAssumption DEF Writer, Copy, Hash, Piece
<1>3. Sound(copy.hash, copy.size)
  BY <1>1, <1>2 DEF Carries
<1>4. /\ StoreInv' /\ Grows /\ copy.hash \in store'[By[o]] /\ Busy(o)'
      /\ \A q \in Order \ {o} : Busy(q)' = Busy(q)
  <2>1. ~Busy(o) /\ shared' \in [File -> Nat]
    BY DEF FileInv, StoreInv, StoreTypes, TakeChunk, Meet, Waiting
  <2>2. /\ StoreInv' /\ Grows /\ copy.hash \in store'[Home(o)] /\ writing'[o] = copy
        /\ \A v \in Writer \ {o} : writing'[v] = writing[v]
    BY <1>1, <1>2, <1>3, <2>1, Publishes DEF FileInv
  <2> QED
    BY <1>2, <2>2 DEF Busy, Writer
<1>5. LoopInv'
  BY <1>4, MeetStep DEF TakeChunk
<1>6. PICK d \in Download, data \in Seq(Piece) : d = dl[o] /\ data = d.data
  BY Pieces DEF FileInv
<1>7. PICK k \in Nat : k = Len(data) /\ k = Index(o) /\ k < d.total
  BY <1>1, <1>6 DEF Index
<1>8. PICK e \in Seq(Piece) :
        e = Append(data, copy) /\ Len(e) = k + 1 /\ e[k + 1] = copy /\ \A i \in 1 .. k : e[i] = data[i]
  <2>1. k = Len(data)
    BY <1>7
  <2>2. PICK e \in Seq(Piece) : e = Append(data, copy)
    BY PieceAppended
  <2> QED
    BY <2>1, <2>2, PieceAppended
<1>9. dl'[o] \in Download /\ dl'[o].pc = "wait" /\ dl'[o].total = d.total /\ dl'[o].data = e
  BY <1>1, <1>6, <1>8 DEF Download, Piece
<1>10. d.total \in Nat /\ d.total <= Len(Whole[o]) /\ Len(Whole[o]) \in Nat
  BY <1>6, Lengths DEF FileInv
<1>11. ASSUME NEW q \in Order PROVE Counts(q)' /\ Taken(q)'
  <2>1. CASE q = o
    <3>1. Counts(o)'
      BY <1>4, <1>7, <1>8, <1>9, <1>10 DEF Counts
    <3>2. ASSUME NEW i \in 1 .. k + 1
          PROVE  /\ e[i].hash = Whole[o][i] /\ Sound(Whole[o][i], e[i].size)'
                 /\ Whole[o][i] \in store'[By[o]]
      <4>1. CASE i = k + 1
        BY <1>1, <1>3, <1>4, <1>7, <1>8, <4>1, SoundKept
      <4>2. CASE i \in 1 .. k
        <5>1. data[i].hash = Whole[o][i] /\ Sound(Whole[o][i], data[i].size) /\ Whole[o][i] \in store[By[o]]
          BY <1>6, <1>7, <4>2 DEF FileInv, DownInv, Taken
        <5>2. Whole[o][i] \in store'[By[o]]
          BY <1>2, <1>4, <5>1 DEF Grows
        <5> QED
          BY <1>4, <1>8, <4>2, <5>1, <5>2, SoundKept
      <4> QED
        BY <1>7, <4>1, <4>2
    <3>3. Sound(Of[o], d.total)' /\ Of[o] \in store'[By[o]]
      <4>1. Sound(Of[o], d.total) /\ Of[o] \in store[By[o]]
        BY <1>6, <1>7, <1>10 DEF FileInv, DownInv, Taken
      <4> QED
        BY <1>2, <1>4, <4>1, SoundKept DEF Grows
    <3>4. Taken(o)'
      BY <1>8, <1>9, <3>2, <3>3 DEF Taken
    <3> QED
      BY <2>1, <3>1, <3>4
  <2>2. CASE q # o
    BY <1>1, <1>4, <2>2, SameDownload DEF FileInv, DownInv
  <2> QED
    BY <2>1, <2>2
<1>12. DownInv'
  BY <1>1, <1>9, <1>11 DEF FileInv, DownInv
<1> QED
  BY <1>4, <1>5, <1>12 DEF FileInv

LEMMA TakeOtherStep ==
  ASSUME FileInv, NEW n \in Node, NEW o \in Order, TakeOther(n, o)
  PROVE  FileInv'
<1>1. StoreInv' /\ Grows /\ writing' = writing
  BY SameStore DEF FileInv, TakeOther, Meet, storage
<1>2. LoopInv'
  BY <1>1, MeetStep DEF TakeOther
<1>3. DownInv'
  BY <1>1, SameDownloads DEF FileInv, TakeOther
<1> QED
  BY <1>1, <1>2, <1>3 DEF FileInv

(* A download whose storeChunk has come to its end.                        *)
LEMMA WrittenStep ==
  ASSUME FileInv, NEW o \in Order, Written(o), shared' = shared
  PROVE  /\ StoreInv' /\ Grows /\ Busy(o) /\ ~Busy(o)' /\ dl[o].pc = "wait"
         /\ \A q \in Order \ {o} : Busy(q)' = Busy(q)
<1>1. o \in Writer /\ shared' \in [File -> Nat]
  BY DEF FileInv, StoreInv, StoreTypes, Writer
<1>2. /\ StoreInv' /\ Grows /\ Busy(o)
      /\ writing'[o].hash = None /\ \A v \in Writer \ {o} : writing'[v] = writing[v]
  BY <1>1, Writes DEF FileInv
<1> QED
  BY <1>2 DEF FileInv, DownInv, Counts, Busy, Writer

(* The download itself does not change, and goes on.                       *)
LEMMA WrittenGoesOn ==
  ASSUME FileInv, NEW o \in Order, Written(o), shared' = shared, dl' = dl,
         dl[o].total = 0 \/ Index(o) < dl[o].total
  PROVE  StoreInv' /\ Grows /\ DownInv'
<1>1. /\ StoreInv' /\ Grows /\ ~Busy(o)' /\ dl[o].pc = "wait"
      /\ \A q \in Order \ {o} : Busy(q)' = Busy(q)
  BY WrittenStep
<1>2. ASSUME NEW q \in Order PROVE Counts(q)' /\ Taken(q)'
  <2>0. Counts(q) /\ Taken(q)
    BY DEF FileInv, DownInv
  <2>1. CASE q = o
    <3>1. Counts(q)'
      BY <1>1, <2>0, <2>1 DEF Counts, Index
    <3>2. By[q] \in Node /\ store[By[q]] \subseteq store'[By[q]]
      BY <1>1, Orders DEF Grows
    <3> QED
      BY <1>1, <2>0, <3>1, <3>2, SoundKept DEF Taken
  <2>2. CASE q # o
    BY <1>1, <2>0, <2>2, SameDownload
  <2> QED
    BY <2>1, <2>2
<1> QED
  BY <1>1, <1>2 DEF FileInv, DownInv

LEMMA StoredEmptyMetaStep ==
  ASSUME FileInv, NEW o \in Order, StoredEmptyMeta(o)
  PROVE  FileInv'
<1>1. dl[o].total = 0
  BY Lengths DEF FileInv, StoredEmptyMeta, GotMeta
<1>2. StoreInv' /\ Grows /\ DownInv'
  BY <1>1, WrittenGoesOn DEF StoredEmptyMeta
<1>3. By[o] \in Node
  BY Orders
<1>4. loop'[By[o]] = Ended /\ \A m \in Node \ {By[o]} : loop'[m] = loop[m]
  BY <1>3 DEF FileInv, LoopInv, LoopTypes, StoredEmptyMeta
<1>5. loop' \in [Node -> Idle \cup Inside]
  BY <1>3 DEF FileInv, LoopInv, LoopTypes, StoredEmptyMeta, Ended, Idle
<1>6. ASSUME NEW m \in Node PROVE Own(m)'
  <2>1. CASE m = By[o]
    BY <1>4, <2>1 DEF FileInv, LoopInv, Own, Ended, StoredEmptyMeta
  <2>2. CASE m # By[o]
    BY <1>2, <1>4, <2>2, SameLoop DEF FileInv, LoopInv, StoredEmptyMeta
  <2> QED
    BY <2>1, <2>2
<1>7. \A p \in net' : p.kind = "reply" => Carries(p)'
  BY <1>2, SoundKept DEF FileInv, LoopInv, StoredEmptyMeta, Carries
<1>8. LoopInv'
  BY <1>5, <1>6, <1>7 DEF FileInv, LoopInv, LoopTypes, StoredEmptyMeta
<1> QED
  BY <1>2, <1>8 DEF FileInv

LEMMA StoredLastStep ==
  ASSUME FileInv, NEW o \in Order, StoredLast(o)
  PROVE  FileInv'
<1>1. /\ StoreInv' /\ Grows /\ ~Busy(o)' /\ dl[o].pc = "wait"
      /\ \A q \in Order \ {o} : Busy(q)' = Busy(q)
  BY WrittenStep DEF StoredLast
<1>2. PICK d \in Download : d = dl[o] /\ Len(d.data) = d.total /\ d.total > 0
  BY DEF FileInv, DownInv, StoredLast, GotMeta, Index
<1>3. /\ dl'[o] = [d EXCEPT !.pc = "done"] /\ dl' = [dl EXCEPT ![o] = dl'[o]]
      /\ \A q \in Order \ {o} : dl'[q] = dl[q]
  BY <1>2 DEF FileInv, DownInv, StoredLast
<1>4. dl'[o] \in Download /\ dl'[o].pc = "done" /\ dl'[o].total = d.total /\ dl'[o].data = d.data
  BY <1>2, <1>3 DEF Download
<1>5. ASSUME NEW q \in Order PROVE Counts(q)' /\ Taken(q)'
  <2>0. Counts(q) /\ Taken(q)
    BY DEF FileInv, DownInv
  <2>1. CASE q = o
    <3>1. Counts(q)'
      BY <1>1, <1>2, <1>4, <2>0, <2>1 DEF Counts
    <3>2. By[q] \in Node /\ store[By[q]] \subseteq store'[By[q]]
      BY <1>1, Orders DEF Grows
    <3> QED
      BY <1>1, <1>2, <1>4, <2>0, <2>1, <3>1, <3>2, SoundKept DEF Taken
  <2>2. CASE q # o
    BY <1>1, <1>3, <2>0, <2>2, SameDownload
  <2> QED
    BY <2>1, <2>2
<1>6. DownInv'
  BY <1>3, <1>4, <1>5 DEF FileInv, DownInv
<1>7. LoopInv'
  BY <1>1, SameLoops, {} \subseteq Request, net' \subseteq net \cup {} DEF FileInv, StoredLast
<1> QED
  BY <1>1, <1>6, <1>7 DEF FileInv

LEMMA StoredMoreStep ==
  ASSUME FileInv, NEW o \in Order, StoredMore(o)
  PROVE  FileInv'
<1>1. StoreInv' /\ Grows /\ DownInv'
  BY WrittenGoesOn DEF StoredMore
<1>2. Ask(o, Index(o), Wanted(o)) \in Request
  BY Wants DEF FileInv, StoredMore
<1>3. PICK asked : asked = {Ask(o, Index(o), Wanted(o))} /\ asked \subseteq Request
  BY <1>2
<1>4. LoopInv'
  BY <1>1, <1>3, SameLoops DEF FileInv, StoredMore
<1> QED
  BY <1>1, <1>4 DEF FileInv

LEMMA FileStep == FileInv /\ [Next]_vars => FileInv'
<1> SUFFICES ASSUME FileInv, [Next]_vars PROVE FileInv'
  OBVIOUS
<1>1. ASSUME NEW f \in File, Share(f) \/ SharedOne(f) PROVE FileInv'
  BY <1>1, ShareStep, SharedOneStep
<1>2. ASSUME NEW o \in Order, Begin(o) \/ Retransmit(o) PROVE FileInv'
  BY <1>2, BeginStep, RetransmitStep
<1>3. ASSUME NEW o \in Order, Stored(o) PROVE FileInv'
  BY <1>3, StoredEmptyMetaStep, StoredLastStep, StoredMoreStep DEF Stored
<1>4. ASSUME NEW n \in Node, Answer(n) \/ Enter(n) \/ SetMeta(n) PROVE FileInv'
  BY <1>4, AnswerStep, EnterStep, SetMetaStep
<1>5. ASSUME NEW n \in Node, NEW f \in File, Visit(n, f) PROVE FileInv'
  BY <1>5, VisitStep
<1>6. ASSUME NEW n \in Node, NEW o \in Order, TakeNothing(n, o) \/ TakeMeta(n, o) PROVE FileInv'
  BY <1>6, TakeNothingStep, TakeMetaStep
<1>7. ASSUME NEW n \in Node, NEW o \in Order, TakeChunk(n, o) \/ TakeOther(n, o) PROVE FileInv'
  BY <1>7, TakeChunkStep, TakeOtherStep
<1>8. CASE UNCHANGED <<storage, dl, table, loop, early>> /\ net' \subseteq net
  <2>1. StoreInv' /\ Grows /\ writing' = writing
    BY <1>8, SameStore DEF FileInv, storage
  <2>2. DownInv'
    BY <1>8, <2>1, SameDownloads DEF FileInv
  <2>3. LoopInv'
    BY <1>8, <2>1, SameLoops, {} \subseteq Request, net' \subseteq net \cup {} DEF FileInv
  <2> QED
    BY <2>1, <2>2, <2>3 DEF FileInv
<1>9. CASE Lose
  BY <1>8, <1>9 DEF Lose
<1>10. CASE UNCHANGED vars
  BY <1>8, <1>10 DEF vars
<1> QED
  BY <1>1, <1>2, <1>3, <1>4, <1>5, <1>6, <1>7, <1>9, <1>10 DEF Next, Handle

LEMMA FilesKept == Spec => []FileInv
BY FileInit, FileStep, PTL DEF Spec

-----------------------------------------------------------------------------
(* A download that returned has written its file byte for byte, unless a   *)
(* read or a write of its metafile or of one of its chunks came out short  *)
(* somewhere, and all it has written can be asked for: for any files,      *)
(* chunk size and orders, also of the same file, whatever the network      *)
(* loses or reorders, whichever answers of other downloads come in between *)
(* and whenever a disk fails (file.go:50-130, 195-251).                    *)
THEOREM DownloadsAreWhole == Spec => []WholeFile
<1>1. FileInv => WholeFile
  <2> SUFFICES ASSUME FileInv PROVE WholeFile
    OBVIOUS
  <2>1. ASSUME NEW o \in Order, dl[o].pc = "done", ~Spoiled(o) PROVE Output(o) = Content[Of[o]]
    <3>1. PICK w \in Seq(Chunk) : w = Whole[o] /\ w = Metafile[Of[o]] /\ Len(w) \in Nat \ {0}
      BY Orders
    <3>2. PICK data \in Seq(Piece) : data = dl[o].data
      BY Pieces DEF FileInv
    <3>3. Of[o] \notin torn /\ \A i \in 1 .. Len(w) : w[i] \notin torn
      BY <2>1, <3>1 DEF Spoiled
    <3>4. Len(data) = Len(w)
      <4>1. dl[o].total > 0 /\ Len(data) = dl[o].total
        BY <2>1, <3>2 DEF FileInv, DownInv, Counts
      <4>2. Sound(Of[o], dl[o].total)
        BY <4>1 DEF FileInv, DownInv, Taken
      <4> QED
        BY <3>1, <3>3, <4>1, <4>2, Orders DEF Sound
    <3>5. ASSUME NEW i \in 1 .. Len(w) PROVE SubSeq(data[i].hash, 1, data[i].size) = w[i]
      <4>1. data[i].hash = w[i] /\ Sound(w[i], data[i].size)
        BY <3>1, <3>2, <3>4 DEF FileInv, DownInv, Taken
      <4>2. w[i] \in Chunk /\ w[i] \in Hash
        BY <3>1 DEF Hash
      <4>3. data[i].size = Len(w[i])
        BY <3>3, <4>1, <4>2, Sizes DEF Sound
      <4>4. PICK c \in Seq(Byte) : c = w[i]
        BY <4>2, ChunksAreBytes
      <4>5. SubSeq(c, 1, Len(c)) = c
        OBVIOUS
      <4> QED
        BY <4>1, <4>3, <4>4, <4>5
    <3>6. DOMAIN data = 1 .. Len(w)
      BY <3>2, <3>4
    <3>7. [i \in DOMAIN data |-> SubSeq(data[i].hash, 1, data[i].size)] = w
      <4>1. [i \in 1 .. Len(w) |-> SubSeq(data[i].hash, 1, data[i].size)] = [i \in 1 .. Len(w) |-> w[i]]
        BY <3>5
      <4>2. [i \in 1 .. Len(w) |-> w[i]] = w
        BY <3>1
      <4> QED
        BY <3>6, <4>1, <4>2
    <3>8. Output(o) = Joined(w)
      BY <3>2, <3>7 DEF Output
    <3> QED
      BY <3>1, <3>8, Orders, FilesCut
  <2>2. ASSUME NEW o \in Order
        PROVE  /\ GotMeta(o) => Of[o] \in store[By[o]]
               /\ \A i \in DOMAIN dl[o].data : Whole[o][i] \in store[By[o]]
    <3>1. PICK data \in Seq(Piece) : data = dl[o].data /\ DOMAIN data = 1 .. Len(data)
      BY Pieces DEF FileInv
    <3>2. Taken(o)
      BY DEF FileInv, DownInv
    <3> QED
      BY <3>1, <3>2 DEF Taken, GotMeta
  <2>3. ASSUME NEW n \in Node, NEW h \in store[n]
        PROVE  disk[n][h] = Size(h) \/ h \in torn \/ Storing(n, h) # {}
    BY DEF FileInv, StoreInv, StoreTypes, OnDisk, Sound
  <2> QED
    BY <2>1, <2>2, <2>3, Types DEF WholeFile
<1> QED
  BY <1>1, FilesKept, PTL

(* A download learns once how many chunks it is to take, takes that many   *)
(* of the file in order and none twice, and its end is final, even if what *)
(* it is sent is cut short: each step of the packet loops and of           *)
(* DownloadFile is a step of Fetch or leaves it unchanged                  *)
(* (file.go:66-130, 171-228).                                              *)
THEOREM DownloadsFetch == Spec => ImplementsFetch
<1> DEFINE status == [o \in Order |-> dl[o].pc]
           length == [o \in Order |-> dl[o].total]
           got == [o \in Order |-> Hashes(dl[o].data)]
<1>1. Init => FetchSpec!Init
  <2> SUFFICES ASSUME Init PROVE FetchSpec!Init
    OBVIOUS
  <2>1. \A o \in Order : dl[o] = [pc |-> "new", total |-> 0, data |-> << >>]
    BY DEF Init
  <2>2. Hashes(<< >>) = << >>
    BY DEF Hashes
  <2>3. \A o \in Order : dl[o].pc = "new" /\ dl[o].total = 0 /\ Hashes(dl[o].data) = << >>
    BY <2>1, <2>2
  <2> QED
    BY <2>3 DEF FetchSpec!Init
<1>2. FileInv /\ [Next]_vars => [FetchSpec!Next]_<<status, length, got>>
  <2> SUFFICES ASSUME FileInv, [Next]_vars
               PROVE  FetchSpec!Next \/ UNCHANGED <<status, length, got>>
    OBVIOUS
  <2>1. ASSUME dl' = dl PROVE UNCHANGED <<status, length, got>>
    BY <2>1
  <2>2. ASSUME NEW o \in Order, Begin(o) PROVE FetchSpec!Next
    <3>1. PICK d \in Download : d = dl[o] /\ d.pc = "new"
      BY <2>2 DEF FileInv, DownInv, Begin
    <3>2. dl'[o] = [d EXCEPT !.pc = "wait"] /\ (\A q \in Order \ {o} : dl'[q] = dl[q])
      BY <2>2, <3>1 DEF Begin, FileInv, DownInv
    <3>3. dl'[o].pc = "wait" /\ dl'[o].total = d.total /\ dl'[o].data = d.data
      BY <3>2 DEF Download
    <3>4. FetchSpec!Start(o)
      BY <3>1, <3>2, <3>3 DEF FetchSpec!Start
    <3> QED
      BY <3>4 DEF FetchSpec!Next
  <2>3. ASSUME NEW n \in Node, NEW o \in Order, TakeNothing(n, o) PROVE FetchSpec!Next
    <3>1. PICK d \in Download : d = dl[o] /\ d.pc = "wait"
      BY <2>3 DEF FileInv, DownInv, TakeNothing, Meet, Waiting
    <3>2. dl'[o] = [d EXCEPT !.pc = "missing"] /\ (\A q \in Order \ {o} : dl'[q] = dl[q])
      BY <2>3, <3>1 DEF TakeNothing, FileInv, DownInv
    <3>3. dl'[o].pc = "missing" /\ dl'[o].total = d.total /\ dl'[o].data = d.data
      BY <3>2 DEF Download
    <3>4. FetchSpec!Fail(o)
      BY <3>1, <3>2, <3>3 DEF FetchSpec!Fail
    <3> QED
      BY <3>4 DEF FetchSpec!Next
  <2>4. ASSUME NEW n \in Node, NEW o \in Order, TakeMeta(n, o)
        PROVE  FetchSpec!Next \/ UNCHANGED <<status, length, got>>
    <3>1. PICK d \in Download : d = dl[o] /\ d.pc = "wait" /\ d.total = 0
      BY <2>4, Lengths DEF FileInv, DownInv, TakeMeta, Meet, Waiting, GotMeta
    <3>2. FileInv'
      BY <2>4, TakeMetaStep
    <3>3. PICK k : k = loop[n].reply.size
      OBVIOUS
    <3>4. dl'[o] = [d EXCEPT !.total = k] /\ (\A q \in Order \ {o} : dl'[q] = dl[q])
      BY <2>4, <3>1, <3>3 DEF TakeMeta, FileInv, DownInv
    <3>5. dl'[o].pc = d.pc /\ dl'[o].total = k /\ dl'[o].data = d.data
      BY <3>4 DEF Download
    <3>6. k \in Nat /\ k <= Len(Whole[o])
      BY <3>2, <3>5 DEF FileInv, DownInv, Download, Counts
    <3>7. CASE k = 0
      BY <3>1, <3>4, <3>5, <3>7
    <3>8. CASE k # 0
      <4>1. k \in 1 .. Len(Whole[o])
        BY <3>6, <3>8, Orders
      <4>2. FetchSpec!Learn(o, k)
        BY <3>1, <3>4, <3>5, <4>1 DEF FetchSpec!Learn
      <4> QED
        BY <4>1, <4>2 DEF FetchSpec!Next
    <3> QED
      BY <3>7, <3>8
  <2>5. ASSUME NEW n \in Node, NEW o \in Order, TakeChunk(n, o) PROVE FetchSpec!Next
    <3>1. PICK copy \in Piece :
            /\ copy.hash = Whole[o][Index(o) + 1]
            /\ Index(o) \in Nat /\ Index(o) < dl[o].total /\ dl[o].pc = "wait"
            /\ dl'[o] = [dl[o] EXCEPT !.data = Append(@, copy)]
            /\ \A q \in Order \ {o} : dl'[q] = dl[q]
      BY <2>5, ChunkTaken
    <3>2. PICK d \in Download, data \in Seq(Piece) : d = dl[o] /\ data = d.data
      BY Pieces DEF FileInv
    <3>3. PICK e : e = Append(data, copy)
      OBVIOUS
    <3>4. dl'[o].pc = d.pc /\ dl'[o].total = d.total /\ dl'[o].data = e
      BY <3>1, <3>2, <3>3 DEF Download
    <3>5. Hashes(e) = Append(Hashes(data), copy.hash) /\ Len(Hashes(data)) = Len(data)
      BY <3>2, <3>3, HashesAppend, HashesOf
    <3>6. status[o] = "wait" /\ Len(got[o]) < length[o]
      BY <3>1, <3>2, <3>5 DEF Index
    <3>7. got' = [got EXCEPT ![o] = Append(got[o], Whole[o][Len(got[o]) + 1])]
      <4>1. copy.hash = Whole[o][Len(got[o]) + 1] /\ got[o] = Hashes(data)
        BY <3>1, <3>2, <3>5 DEF Index
      <4>2. got'[o] = Append(got[o], Whole[o][Len(got[o]) + 1])
        BY <3>4, <3>5, <4>1
      <4>3. \A q \in Order \ {o} : got'[q] = got[q]
        BY <3>1
      <4> QED
        BY <4>2, <4>3
    <3>8. UNCHANGED <<status, length>>
      BY <3>1, <3>2, <3>4
    <3>9. FetchSpec!Extend(o)
      BY <3>6, <3>7, <3>8 DEF FetchSpec!Extend
    <3> QED
      BY <3>9 DEF FetchSpec!Next
  <2>6. ASSUME NEW o \in Order, StoredLast(o) PROVE FetchSpec!Next
    <3>1. PICK d \in Download, data \in Seq(Piece) : d = dl[o] /\ data = d.data
      BY Pieces DEF FileInv
    <3>2. d.pc = "wait" /\ d.total > 0 /\ Len(data) = d.total
      <4>1. Written(o) /\ shared' = shared /\ GotMeta(o) /\ Index(o) = dl[o].total
        BY <2>6 DEF StoredLast
      <4> QED
        BY <3>1, <4>1, WrittenStep DEF GotMeta, Index
    <3>3. dl'[o] = [d EXCEPT !.pc = "done"] /\ (\A q \in Order \ {o} : dl'[q] = dl[q])
      BY <2>6, <3>1 DEF StoredLast, FileInv, DownInv
    <3>4. dl'[o].pc = "done" /\ dl'[o].total = d.total /\ dl'[o].data = d.data
      BY <3>3 DEF Download
    <3>5. Len(Hashes(data)) = Len(data)
      BY HashesOf
    <3>6. status[o] = "wait" /\ length[o] > 0 /\ Len(got[o]) = length[o]
      BY <3>1, <3>2, <3>5
    <3>7. status' = [status EXCEPT ![o] = "done"] /\ UNCHANGED <<length, got>>
      BY <3>1, <3>3, <3>4
    <3>8. FetchSpec!Finish(o)
      BY <3>6, <3>7 DEF FetchSpec!Finish
    <3> QED
      BY <3>8 DEF FetchSpec!Next
  <2>7. ASSUME NEW f \in File, Share(f) \/ SharedOne(f) PROVE dl' = dl
    BY <2>7 DEF Share, SharedOne
  <2>8. ASSUME NEW o \in Order, Retransmit(o) \/ StoredEmptyMeta(o) \/ StoredMore(o) PROVE dl' = dl
    BY <2>8 DEF Retransmit, StoredEmptyMeta, StoredMore
  <2>9. ASSUME NEW n \in Node, Answer(n) \/ Enter(n) \/ SetMeta(n) PROVE dl' = dl
    BY <2>9 DEF Answer, Enter, SetMeta
  <2>10. ASSUME NEW n \in Node, NEW f \in File, Visit(n, f) PROVE dl' = dl
    BY <2>10 DEF Visit
  <2>11. ASSUME NEW n \in Node, NEW o \in Order, TakeOther(n, o) PROVE dl' = dl
    BY <2>11 DEF TakeOther
  <2>12. CASE Lose \/ UNCHANGED vars
    BY <2>1, <2>12 DEF Lose, vars
  <2>13. CASE \E o \in Order : Begin(o) \/ Retransmit(o) \/ Stored(o)
    BY <2>1, <2>2, <2>6, <2>8, <2>13 DEF Stored
  <2>14. CASE \E n \in Node : Answer(n) \/ Enter(n) \/ Handle(n)
    BY <2>1, <2>3, <2>4, <2>5, <2>9, <2>10, <2>11, <2>14 DEF Handle
  <2> QED
    BY <2>1, <2>7, <2>12, <2>13, <2>14 DEF Next
<1> QED
  BY <1>1, <1>2, FilesKept, PTL DEF Spec, ImplementsFetch, FetchSpec!Spec
=============================================================================
