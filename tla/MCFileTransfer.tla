--------------------------- MODULE MCFileTransfer ---------------------------
(* Small sets of nodes, files and downloads for TLC. *)
EXTENDS FileTransfer, TLC

CONSTANTS a, b,      \* nodes
          f, g,      \* files
          o1, o2     \* downloads

(* f begins with the chunk that g, which was shared before, is made of:    *)
(* when f is shared, the chunk is stored again.  The last chunk is short.  *)
Sharing == f :> <<1, 1, 1>> @@ g :> <<1, 1>>

FromB  == o1 :> <<b, b>> @@ o2 :> <<b>>
ByA    == o1 :> a @@ o2 :> a
OfFG   == o1 :> f @@ o2 :> g
OwnerB == f :> b @@ g :> b

(* GetFile on every file of up to seven bytes over two values: only the    *)
(* empty one makes it fail, since the index of the last chunk wraps.       *)
(* Otherwise the chunks make the file, and only the last one may be short. *)
ASSUME ChunkingChecked ==
  \A len \in 0..7 : \A content \in [1..len -> {0, 1}] :
    /\ Panics(len) <=> len = 0
    /\ len > 0 =>
         LET chunks == ChunksOf(content)
         IN  /\ Joined(chunks) = content
             /\ \A i \in DOMAIN chunks : Len(chunks[i]) \in 1..ChunkSize
             /\ \A i \in DOMAIN chunks : i < Len(chunks) => Len(chunks[i]) = ChunkSize
=============================================================================
