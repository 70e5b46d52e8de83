---------------------------- MODULE FileTransfer ----------------------------
(***************************************************************************)
(* Sharing and downloading files (file.go, main.go): GetFile, storeChunk,  *)
(* the packet loop's part in data requests and replies, and the goroutines *)
(* searchHashAndSend and DownloadFile.                                     *)
(*                                                                         *)
(* handleDataReplies runs inside the packet loop of a node: it goes over   *)
(* downloadTable, whose iterator holds the table's lock until its last     *)
(* entry is taken, and hands the reply to the channels it belongs to, each *)
(* of which blocks the loop until the download takes it.                   *)
(*                                                                         *)
(* storeChunk says that a hash can be had before it creates (and so        *)
(* empties) its file and writes it, so storing takes two steps here.       *)
(* searchHashAndSend sends what it read under the hash it was asked for,   *)
(* even if the read failed or found only the beginning, and DownloadFile   *)
(* never compares data with their hash: it passes damaged data on.         *)
(*                                                                         *)
(* A metafile is named by its file and is made of the hashes of its        *)
(* chunks; a chunk is named by its content.  All data sent under a hash    *)
(* are a prefix of what the hash stands for, so a copy is a hash and a     *)
(* size.  Packets go from end to end in one hop (Forwarding models the     *)
(* hops), can be lost and overtake one another; a goroutine's sends are    *)
(* part of its step.                                                       *)
(***************************************************************************)
EXTENDS Chunking, FiniteSets, SequencesExt

CONSTANTS
  Node, File, None,
  Order,     \* FILE_DOWNLOAD commands that users give, each once
  By,        \* By[o]: the node that gets the command
  Of,        \* Of[o]: the file it asks for
  From,      \* From[o][i]: where chunk i is asked for (dstArr)
  Byte,      \* what files are made of
  Content,   \* Content[f]: the bytes of file f
  Owner,     \* Owner[f]: the node whose user shares f, once
  Before,    \* files that were shared before any download was ordered
  MaxEarly,  \* bound: time-outs while a request is still being answered
  Lossy,     \* may packets be lost?
  DiskFails  \* may a read or a write of a chunk file fail or stop half-way?

ASSUME ContentAssumption ==
  \A f \in File : /\ Content[f] \in Seq(Byte) /\ Content[f] # <<>>
                  /\ ChunkCount(Len(Content[f])) <= Word
ASSUME BoundAssumption == MaxEarly \in Nat

(* A file's metafile, the hashes a download takes, and all there are.      *)
Metafile == [f \in File |-> ChunksOf(Content[f])]
Whole    == [o \in Order |-> Metafile[Of[o]]]
Chunk    == UNION {{Metafile[f][i] : i \in 1..ChunkCount(Len(Content[f]))} : f \in File}
Hash     == File \cup Chunk

ASSUME NameAssumption ==
  /\ None \notin Node \cup Order \cup Hash
  /\ File \cap Chunk = {} /\ File \cap Order = {}
ASSUME OrderAssumption ==
  \A o \in Order : /\ By[o] \in Node /\ Of[o] \in File
                   /\ From[o] \in [1..Len(Whole[o]) -> Node \ {By[o]}]
ASSUME OwnerAssumption == Before \subseteq File /\ \A f \in File : Owner[f] \in Node

VARIABLES
  store,    \* store[n]: hashSearchMap, the metafiles and chunks that n says it has
  disk,     \* disk[n][h]: the size of the file of h in _Chunks
  writing,  \* writing[w]: what storeChunk is writing for a share or a download w
  shared,   \* shared[f]: how much of f GetFile has begun to store
  dl,       \* dl[o]: the goroutine DownloadFile of o
  table,    \* table[n][f]: downloadTable, the record of metahash f
  loop,     \* loop[n]: where the packet loop is inside handleDataReplies
  net,      \* packets on their way
  early,    \* time-outs that raced their answer, for the bound
  torn      \* history: hashes of which a read or a write came out short

storage == <<store, disk, writing, shared, torn>>
vars    == <<storage, dl, table, loop, net, early>>

Joined(chunks) == FlattenSeq(chunks)

-----------------------------------------------------------------------------
Writer == File \cup Order

(* The size of what a hash stands for: hashes of a metafile, bytes of a    *)
(* chunk; and a copy of it, or of its beginning.                           *)
Size(h) == IF h \in File THEN Len(Metafile[h]) ELSE Len(h)
Copy    == [hash : Hash, size : Nat]

(* A record of downloadTable: its channel is named by the download that    *)
(* reads it; total: how many hashes MetaFileString has.                    *)
Record == [ch : Order, total : Nat]

(* The goroutine of a download: total is 0 until gotMeta is set; data is   *)
(* what it has written.                                                    *)
Download == [pc : {"new", "wait", "done", "missing"}, total : Nat,
             data : Seq([hash : Chunk, size : Nat])]

Request == [kind : {"request"}, src : Node, dst : Node, hash : Hash]

(* about is what the reply answers: only properties read it.               *)
Reply == [kind : {"reply"}, src : Node, dst : Node, hash : Hash \cup {None},
          size : Nat, about : Hash]

(* The loop in handleDataReplies: entries the iterator still holds, the    *)
(* reply, and the channel of the entry it is at; or the process has ended. *)
Idle   == [pc : {"idle", "ended"}, rest : {{}}]
Inside == [pc : {"visit", "set", "send"}, rest : SUBSET File, reply : Reply,
           at : File \cup {None}, ch : Order \cup {None}]

TypeOK ==
  /\ store \in [Node -> SUBSET Hash]
  /\ disk \in [Node -> [Hash -> Nat]]
  /\ writing \in [Writer -> [hash : Hash \cup {None}, size : Nat]]
  /\ shared \in [File -> Nat]
  /\ torn \subseteq Hash
  /\ dl \in [Order -> Download]
  /\ table \in [Node -> [File -> Record \cup {None}]]
  /\ loop \in [Node -> Idle \cup Inside]
  /\ net \subseteq Request \cup Reply
  /\ early \in 0..MaxEarly

IdleLoop == [pc |-> "idle", rest |-> {}]
Ended    == [pc |-> "ended", rest |-> {}]
Nothing  == [hash |-> None, size |-> 0]

(* What GetFile stores, in this order: the chunks, then the metafile.      *)
ToStore(f) == Append(Metafile[f], f)

Init ==
  /\ store = [n \in Node |-> UNION {{ToStore(f)[i] : i \in DOMAIN ToStore(f)} :
                                       f \in {f \in Before : Owner[f] = n}}]
  /\ disk = [n \in Node |-> [h \in Hash |-> IF h \in store[n] THEN Size(h) ELSE 0]]
  /\ writing = [w \in Writer |-> Nothing]
  /\ shared = [f \in File |-> IF f \in Before THEN Len(ToStore(f)) ELSE 0]
  /\ torn = {}
  /\ dl = [o \in Order |-> [pc |-> "new", total |-> 0, data |-> <<>>]]
  /\ table = [n \in Node |-> [f \in File |-> None]]
  /\ loop = [n \in Node |-> IdleLoop]
  /\ net = {}
  /\ early = 0

-----------------------------------------------------------------------------
(* Helpers. *)

Up(n) == loop[n].pc # "ended"

(* The lock of downloadTable is free: no iterator is holding it.           *)
LockFree(n) == loop[n].rest = {}

(* The node of a writer; whether storeChunk is at work for it; and who is  *)
(* storing h at n just now.                                                *)
Home(w)       == IF w \in File THEN Owner[w] ELSE By[w]
Busy(w)       == writing[w].hash # None
Storing(n, h) == {w \in Writer : Home(w) = n /\ writing[w].hash = h}

(* storeChunk says that it has the hash, and creates its file, empty.      *)
Publish(w, copy) ==
  /\ store' = [store EXCEPT ![Home(w)] = @ \cup {copy.hash}]
  /\ disk' = [disk EXCEPT ![Home(w)][copy.hash] = 0]
  /\ writing' = [writing EXCEPT ![w] = copy]
  /\ UNCHANGED torn

(* What a read or a write that meets with the sizes in sizes may give.     *)
Outcomes(sizes, undisturbed) == IF undisturbed THEN sizes ELSE UNION {0..k : k \in sizes}
Tear(h, size) == torn' = IF size < Size(h) THEN torn \cup {h} ELSE torn

(* storeChunk has written its file, from the beginning: of two that write  *)
(* the same file the longer one is left.                                   *)
Written(w) ==
  LET h == writing[w].hash
  IN  /\ Busy(w)
      /\ \E size \in Outcomes({writing[w].size}, ~DiskFails) :
           /\ disk' = [disk EXCEPT ![Home(w)][h] = IF @ < size THEN size ELSE @]
           /\ Tear(h, size)
      /\ writing' = [writing EXCEPT ![w] = Nothing]
      /\ UNCHANGED store

(* What ReadFile returns of h: its file, or any part of what is there or   *)
(* is being written if it is just being stored.                            *)
ReadSizes(n, h) ==
  Outcomes({disk[n][h]} \cup {writing[w].size : w \in Storing(n, h)},
           Storing(n, h) = {} /\ ~DiskFails)

(* gotMeta, and the download at its select; index, the chunks written; the *)
(* hash it waits for, and the request for it.                              *)
GotMeta(o) == dl[o].total > 0
Waiting(o) == dl[o].pc = "wait" /\ ~Busy(o)
Index(o)   == Len(dl[o].data)
Wanted(o)  == IF GotMeta(o) THEN Whole[o][Index(o) + 1] ELSE Of[o]
Ask(o, i, hash) == [kind |-> "request", src |-> By[o], dst |-> From[o][i + 1], hash |-> hash]

(* The loop after the entry it is at: on to the next one, or out.          *)
Onward(n, rest) ==
  IF rest = {} THEN IdleLoop ELSE [loop[n] EXCEPT !.pc = "visit", !.rest = rest, !.at = None, !.ch = None]

(* The hash of the reply occurs in MetaFileString (strings.Contains): the  *)
(* empty hash of a negative answer occurs in every string.                 *)
OccursIn(hash, f, entry) ==
  hash = None \/ \E i \in 1..entry.total : hash = Metafile[f][i]

-----------------------------------------------------------------------------
(* FILE: GetFile stores what is next of f; the client loop does not take   *)
(* another command before it has stored all of it.                         *)
Share(f) ==
  /\ Up(Owner[f]) /\ ~Busy(f) /\ shared[f] < Len(ToStore(f))
  /\ \A g \in File \ {f} : Owner[g] = Owner[f] => ~Busy(g) /\ shared[g] \in {0, Len(ToStore(g))}
  /\ LET hash == ToStore(f)[shared[f] + 1]
     IN  Publish(f, [hash |-> hash, size |-> Size(hash)])
  /\ shared' = [shared EXCEPT ![f] = @ + 1]
  /\ UNCHANGED <<dl, table, loop, net, early>>

SharedOne(f) ==
  /\ Up(Owner[f]) /\ Written(f)
  /\ UNCHANGED <<shared, dl, table, loop, net, early>>

(* FILE_DOWNLOAD: DownloadFile sets its record, replacing one of the same  *)
(* file, and asks for the metafile.                                        *)
Begin(o) ==
  /\ dl[o].pc = "new" /\ Up(By[o])
  /\ LockFree(By[o])
  /\ table' = [table EXCEPT ![By[o]][Of[o]] = [ch |-> o, total |-> 0]]
  /\ dl' = [dl EXCEPT ![o].pc = "wait"]
  /\ net' = net \cup {Ask(o, 0, Of[o])}
  /\ UNCHANGED <<storage, loop, early>>

(* searchHashAndSend: what it read, under the hash it was asked for; or an *)
(* empty hash for what is not in hashSearchMap.                            *)
Answer(n) ==
  \E p \in net :
    LET reply(hash, size) == [kind |-> "reply", src |-> n, dst |-> p.src, about |-> p.hash,
                              hash |-> hash, size |-> size]
    IN  /\ p.kind = "request" /\ p.dst = n
        /\ loop[n].pc = "idle"
        /\ \/ /\ p.hash \notin store[n]
              /\ net' = (net \ {p}) \cup {reply(None, 0)}
              /\ UNCHANGED torn
           \/ /\ p.hash \in store[n]
              /\ \E size \in ReadSizes(n, p.hash) :
                   /\ net' = (net \ {p}) \cup {reply(p.hash, size)}
                   /\ Tear(p.hash, size)
        /\ UNCHANGED <<store, disk, writing, shared, dl, table, loop, early>>

(* A data reply enters handleDataReplies, which starts an iterator.        *)
Enter(n) ==
  \E p \in net :
    /\ p.kind = "reply" /\ p.dst = n
    /\ loop[n].pc = "idle"
    /\ net' = net \ {p}
    /\ LET entries == {f \in File : table[n][f] # None}
       IN  loop' = [loop EXCEPT ![n] =
             IF entries = {} THEN IdleLoop
             ELSE [pc |-> "visit", rest |-> entries, reply |-> p, at |-> None, ch |-> None]]
    /\ UNCHANGED <<storage, dl, table, early>>

(* The loop takes an entry from the iterator, in any order.                *)
Visit(n, f) ==
  /\ loop[n].pc = "visit" /\ f \in loop[n].rest
  /\ LET hash == loop[n].reply.hash
         go(pc) == [loop[n] EXCEPT !.pc = pc, !.rest = @ \ {f}, !.at = f, !.ch = table[n][f].ch]
     IN  \/ /\ hash = f
            /\ loop' = [loop EXCEPT ![n] = go("set")]
         \/ /\ hash # f /\ OccursIn(hash, f, table[n][f])
            /\ loop' = [loop EXCEPT ![n] = go("send")]
         \/ /\ hash # f /\ ~OccursIn(hash, f, table[n][f])
            /\ loop' = [loop EXCEPT ![n] = Onward(n, loop[n].rest \ {f})]
  /\ UNCHANGED <<storage, dl, table, net, early>>

(* downloadTable.Set inside the iteration needs the lock, and writes back  *)
(* the channel of the entry that was read, with the data of the reply.     *)
SetMeta(n) ==
  /\ loop[n].pc = "set"
  /\ LockFree(n)
  /\ table' = [table EXCEPT ![n][loop[n].at] = [ch |-> loop[n].ch, total |-> loop[n].reply.size]]
  /\ loop' = [loop EXCEPT ![n].pc = "send"]
  /\ UNCHANGED <<storage, dl, net, early>>

-----------------------------------------------------------------------------
(* The loop's send and a download's receive meet: o takes the reply.       *)
Meet(n, o) == /\ loop[n].pc = "send" /\ loop[n].ch = o
              /\ Waiting(o)
              /\ loop' = [loop EXCEPT ![n] = Onward(n, loop[n].rest)]
              /\ UNCHANGED <<shared, table, net, early>>

Carried(n, o, hash) == loop[n].pc = "send" /\ loop[n].ch = o /\ loop[n].reply.hash = hash

(* An empty hash ends the download; its record stays.                      *)
TakeNothing(n, o) ==
  /\ Carried(n, o, None)
  /\ Meet(n, o)
  /\ dl' = [dl EXCEPT ![o].pc = "missing"]
  /\ UNCHANGED <<store, disk, writing, torn>>

(* The metafile, as long as it came: it is stored under its hash.          *)
TakeMeta(n, o) ==
  /\ ~GotMeta(o) /\ Carried(n, o, Of[o])
  /\ Meet(n, o)
  /\ dl' = [dl EXCEPT ![o].total = loop[n].reply.size]
  /\ Publish(o, [hash |-> Of[o], size |-> loop[n].reply.size])

(* A chunk is written to the file, and stored under its hash.              *)
Take(o, copy) ==
  /\ dl' = [dl EXCEPT ![o].data = Append(@, copy)]
  /\ Publish(o, copy)

(* Mutant: any chunk is taken for the one that is waited for. *)
TakeChunkUnchecked(n, o) ==
  /\ GotMeta(o) /\ Waiting(o) /\ loop[n].pc = "send" /\ loop[n].reply.hash \in Chunk
  /\ Meet(n, o)
  /\ Take(o, [hash |-> loop[n].reply.hash, size |-> loop[n].reply.size])

(* The chunk that is waited for, as long as it came.                       *)
TakeChunk(n, o) ==
  /\ GotMeta(o) /\ Waiting(o) /\ Carried(n, o, Wanted(o))
  /\ Meet(n, o)
  /\ Take(o, [hash |-> Wanted(o), size |-> loop[n].reply.size])

(* Anything else is not understood.                                        *)
TakeOther(n, o) ==
  /\ Waiting(o) /\ loop[n].pc = "send"
  /\ loop[n].reply.hash \notin {None, Wanted(o)}
  /\ Meet(n, o)
  /\ UNCHANGED <<store, disk, writing, torn, dl>>

(* The rest of the handler, once storeChunk is done.  A metafile without a *)
(* single hash ends the process at fileHash[:32]; with the last chunk the  *)
(* download returns and leaves its record; or the next chunk is asked for. *)
StoredEmptyMeta(o) ==
  /\ Up(By[o]) /\ ~GotMeta(o) /\ Written(o)
  /\ loop' = [loop EXCEPT ![By[o]] = Ended]
  /\ UNCHANGED <<shared, dl, table, net, early>>

(* Mutant: the chunk before the last one ends the download. *)
StoredLastEarly(o) ==
  /\ Up(By[o]) /\ GotMeta(o) /\ Index(o) >= dl[o].total - 1 /\ Written(o)
  /\ dl' = [dl EXCEPT ![o].pc = "done"]
  /\ UNCHANGED <<shared, table, loop, net, early>>

StoredLast(o) ==
  /\ Up(By[o]) /\ GotMeta(o) /\ Index(o) = dl[o].total /\ Written(o)
  /\ dl' = [dl EXCEPT ![o].pc = "done"]
  /\ UNCHANGED <<shared, table, loop, net, early>>

StoredMore(o) ==
  /\ Up(By[o]) /\ GotMeta(o) /\ Index(o) < dl[o].total /\ Written(o)
  /\ net' = net \cup {Ask(o, Index(o), Wanted(o))}
  /\ UNCHANGED <<shared, dl, table, loop, early>>

(* The download is quiet when neither a packet nor the loop can bring it   *)
(* an answer; 5 s are then sure to pass.                                   *)
Quiet(o) == /\ Waiting(o)
            /\ loop[By[o]].pc = "idle"
            /\ \A p \in net : p.hash # Wanted(o) /\ (p.kind = "reply" => p.about # Wanted(o))

(* Mutant: a time-out asks for the metafile even when it is there. *)
RetransmitMetaOnly(o) ==
  /\ Waiting(o) /\ Up(By[o])
  /\ early' = IF Quiet(o) THEN early ELSE early + 1
  /\ early' <= MaxEarly
  /\ net' = net \cup {Ask(o, 0, Of[o])}
  /\ UNCHANGED <<storage, dl, table, loop>>

Retransmit(o) ==
  /\ Waiting(o) /\ Up(By[o])
  /\ early' = IF Quiet(o) THEN early ELSE early + 1
  /\ early' <= MaxEarly
  /\ net' = net \cup {Ask(o, Index(o), Wanted(o))}
  /\ UNCHANGED <<storage, dl, table, loop>>

Lose == /\ Lossy
        /\ \E p \in net : net' = net \ {p}
        /\ UNCHANGED <<storage, dl, table, loop, early>>

-----------------------------------------------------------------------------
Handle(n) == \/ \E f \in File : Visit(n, f)
             \/ SetMeta(n)
             \/ \E o \in Order : TakeNothing(n, o) \/ TakeMeta(n, o) \/ TakeChunk(n, o) \/ TakeOther(n, o)

Stored(o) == StoredEmptyMeta(o) \/ StoredLast(o) \/ StoredMore(o)

Next == \/ \E f \in File : Share(f) \/ SharedOne(f)
        \/ \E o \in Order : Begin(o) \/ Retransmit(o) \/ Stored(o)
        \/ \E n \in Node : Answer(n) \/ Enter(n) \/ Handle(n)
        \/ Lose

Spec == Init /\ [][Next]_vars

(* The scheduler runs every goroutine that can run, timers fire, users     *)
(* give their commands, and the network does not lose every copy of what   *)
(* is sent again and again.                                                *)
Fairness == /\ \A f \in File : WF_vars(Share(f)) /\ WF_vars(SharedOne(f))
            /\ \A o \in Order : /\ WF_vars(Begin(o)) /\ WF_vars(Stored(o))
                                /\ WF_vars(Quiet(o) /\ Retransmit(o))
            /\ \A n \in Node : WF_vars(Handle(n)) /\ SF_vars(Answer(n)) /\ SF_vars(Enter(n))

FairSpec == Spec /\ Fairness
-----------------------------------------------------------------------------
(* Properties. *)

(* What a download has written, and whether a read or a write of anything  *)
(* it is made of came out short, at any node.                              *)
Output(o)  == Joined([i \in DOMAIN dl[o].data |-> SubSeq(dl[o].data[i].hash, 1, dl[o].data[i].size)])
Spoiled(o) == Of[o] \in torn \/ \E i \in DOMAIN Whole[o] : Whole[o][i] \in torn

(* A download that returned has written the file byte for byte, whatever   *)
(* was lost, delayed, asked for twice or answered to another download, and *)
(* whichever chunks are equal or not full, unless a copy of the metafile   *)
(* or of a chunk was read while it was being stored or its disk failed:    *)
(* nothing else damages a file, at any node (file.go:66-130, 195-213,      *)
(* 244-251).  The node can be asked for all it has written, the indices    *)
(* that fileData claims in search replies.  The state keeps its types.     *)
WholeFile ==
  /\ TypeOK
  /\ \A o \in Order :
       /\ dl[o].pc = "done" => Output(o) = Content[Of[o]] \/ Spoiled(o)
       /\ GotMeta(o) => Of[o] \in store[By[o]]
       /\ \A i \in DOMAIN dl[o].data : Whole[o][i] \in store[By[o]]
  /\ \A n \in Node : \A h \in store[n] :
       disk[n][h] = Size(h) \/ h \in torn \/ Storing(n, h) # {}

(* Downloads implement Fetch: as many chunks are taken as the metafile     *)
(* that came names, in the order of the file, none is skipped or taken     *)
(* twice, and the end is final.                                            *)
Hashes(data) == [i \in DOMAIN data |-> data[i].hash]
FetchSpec == INSTANCE Fetch
  WITH status <- [o \in Order |-> dl[o].pc],
       length <- [o \in Order |-> dl[o].total],
       got <- [o \in Order |-> Hashes(dl[o].data)]
ImplementsFetch == FetchSpec!Spec

(* The packet loop hangs: at the lock that its own iterator holds while    *)
(* another record is left, or with a reply for a download that has ended;  *)
(* or an empty metafile has ended the process.                             *)
Hung(n) ==
  \/ loop[n].pc = "set" /\ ~LockFree(n)
  \/ loop[n].pc = "send" /\ dl[loop[n].ch].pc # "wait"
  \/ ~Up(n)

(* Another order of the same file has taken the download's record.         *)
Replaced(o) == table[By[o]][Of[o]] # None /\ table[By[o]][Of[o]].ch # o

(* Every download ends, with its file or without, unless a packet loop it  *)
(* needs hangs or its record is replaced: a lost request or answer is made *)
(* up for by the retransmission (file.go:219-228).  Only a metafile that   *)
(* once came short may keep downloads waiting: when that reply comes late, *)
(* MetaFileString forgets chunks that are still asked for (file.go:57-59). *)
DownloadEnds ==
  \A o \in Order : <>(\/ dl[o].pc \in {"done", "missing"} \/ Replaced(o)
                      \/ torn \cap File # {} \/ \E n \in Node : Hung(n))
=============================================================================
