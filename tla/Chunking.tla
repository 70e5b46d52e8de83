------------------------------ MODULE Chunking ------------------------------
(***************************************************************************)
(* GetFile (file.go): a file is cut into chunks of CHUNK_SIZE bytes, and   *)
(* the metafile lists the hashes of the chunks.  A chunk stands for its    *)
(* own hash: SHA-256 is taken to be free of collisions.  The chunk count   *)
(* is a uint64, so N - 1 wraps when there is no chunk.                     *)
(***************************************************************************)
EXTENDS Integers, Sequences

CONSTANTS
  ChunkSize,  \* CHUNK_SIZE
  Word        \* how many values a uint64 has

ASSUME ChunkSizeAssumption == ChunkSize \in Nat \ {0}
ASSUME WordAssumption == Word \in Nat \ {0}

-----------------------------------------------------------------------------
(* N, the number of chunks of a file of len bytes.                         *)
ChunkCount(len) ==
  IF len % ChunkSize = 0 THEN len \div ChunkSize ELSE len \div ChunkSize + 1

(* N - 1 in uint64 arithmetic, the index of the last chunk.                *)
LastIndex(len) == (ChunkCount(len) - 1 + Word) % Word

(* The slices content[low:high] that GetFile takes, in order: those of the *)
(* loop, and the rest of the file.  A loop that leaves the file stops at   *)
(* the first slice out of range, so only that many are written out.        *)
Slices(len) ==
  LET last  == LastIndex(len)
      whole == IF last * ChunkSize <= len THEN last ELSE len \div ChunkSize + 1
  IN  [i \in 1..whole |-> [low |-> (i - 1) * ChunkSize, high |-> i * ChunkSize]]
      \o <<[low |-> last * ChunkSize, high |-> len]>>

(* Go panics on a slice whose bounds are not 0 <= low <= high <= len.      *)
Panics(len) ==
  \E i \in DOMAIN Slices(len) : LET s == Slices(len)[i] IN s.low > s.high \/ s.high > len

(* The chunks of the metafile, each standing for its hash.                 *)
ChunksOf(content) ==
  LET cut == Slices(Len(content))
  IN  [i \in DOMAIN cut |-> SubSeq(content, cut[i].low + 1, cut[i].high)]
=============================================================================
