# Verification of the peer-to-peer learning gossiper

TLA+ models, TLC runs and TLAPS proofs for the Go program in `src/` (package
`main`): a gossiper that spreads messages by rumor mongering, routes with a
distance-vector table, shares and searches files, keeps a block chain of file
names and trains a model together with its peers.

Line numbers below refer to `src/`.

## 1. Inventory

Every gossiper is one process; all of its state is in memory, nothing is read
back after a restart, so a restarted process is a new participant. Its
goroutines share global variables, most of them without a lock:

* `handleGossiper` (main.go:129), the *packet loop*: one packet at a time;
* `handleClient` (main.go:316), the *client loop*: one client message at a time,
  from the client's UDP port, the web page, the route-rumor ticker and the
  training loop;
* `antiEntropy` (gossip.go:123), a one-second ticker;
* one `antiEntropyReceiver` per peer (gossip.go:144);
* short-lived goroutines: `rumorMongering`, `compareStatusAndSend`, downloads,
  searches, gradients;
* HTTP handlers, when started with `-gui`.

Datagrams are UDP: they may be lost, duplicated and reordered, and no part of the
program but rumor gossip repairs that.

| component | state | operations | what is hard | what makes it correct |
|---|---|---|---|---|
| rumor mongering, anti-entropy (gossip.go, main.go) | `status.Want`, `nodeName_msgs`, goroutines | publish, receive rumor, receive status, monger, time out, compare, tick | datagram faults; packet loop, client loop and comparisons share `Want` and `nodeName_msgs` | copies of a log agree and have no gaps; the vector clock counts what is held and never goes back; every rumor reaches every node |
| next-hop table (dsdv.go) | `nextHopTable` | `updateNextHop` | routes are taken from rumors that arrive late, or by another way | no loops, no dead ends |
| peer table (main.go, gui.go) | `peer_list`, `peer_index`, `recv_channels` | learn from a datagram, add from the web page | both writers run unsynchronised | list and index agree; a peer is listed once |
| private messages, requests, replies (main.go:214-270) | hop limit in the packet | forward or deliver | several hops over changing tables | delivered or dropped after at most 10 hops |
| simple mode (main.go:158-176) | none | flood | no duplicate detection | every copy dies out (it does not on every network) |
| distributed training (ml.go:73-365) | `gradCh`, `nameIDTable`, `dataset`, weights, gathered gradients | start, flood weights, answer, gather K, update | lost answers, late answers, several trainings, shared `grad` | each update uses K gradients of the current weights; a training ends |
| Byzantine training (ml.go:367-628) | per-peer Lipschitz state, `recentPeers`, `weightHistory` | filter a gradient, update | stale gradients; too few peers | no peer twice in any 2F + 1 updates in a row, so no Byzantine majority; progress with enough peers |
| block chain (blockchain.go) | `newBlockChain` with `mainChain`, `blockChain`, `parentBlockMap`, `nextBlock`, `tmpbcFileMap` | publish file, receive transaction, receive block, mine (mining is not started) | blocks out of order, forks | the main chain is the longest one and linked |
| file sharing (file.go) | `hashSearchMap`, `fileData`, `downloadTable`, chunk files | index, request, answer, download with retry | time-out against late reply; a chunk that is read while it is stored; lock held while a channel is offered | a download takes the right chunks in order and ends; its bytes are right unless a read or write came short |
| file search (file_search.go) | `keywordsTable`, `searchProcessMap`, `searchReplyTable`, budget | search, forward with split budget, reply, expire | late replies, duplicates, expanding ring | budget is conserved; late replies are harmless |
| containers (datastruct.go) | an `RWMutex` and a slice or map | append, get, iterate | `Iter` holds the lock while its reader works | no deadlock |
| numerical code (matrix.go, nn.go, ml.go:660-943, ml_dataset.go) | parameters and gradients of a layer | losses, gradients, layers, flat vectors, loading | signs, factors and layouts that a training hides | the gradient is the slope of the loss; the host's step is the layer's |
| web page, client, flags (gui.go, client/, main) | none of their own | turn requests into client messages | - | - |

Interaction: the packet loop calls every component; training, files and search
send their answers along `nextHopTable`, which only rumors fill; training results
and route rumors come back as client messages and become rumors.

The hazards of the code, each at its line, with the properties that cover them, are
listed in `PROJECT.json`.

## 2. Plan

In this order; each module comes with its TLC runs, then its proofs.

1. `RumorLog`, `Gossip` (done): gossip and routes, on which everything else rests.
   Abstract specification: replicated logs. Proofs: types, loop-freedom, refinement.
2. `Workers`, `Training` (done): the weight flood, answers, K-gathering, several
   trainings. Proved: types; when no node trains twice, gradients of other nodes are at the
   current weights, count once, and come from nodes that had the weights.
3. `Chunking`, `Fetch`, `FileTransfer` (done, with proofs): downloads against late replies,
   with the lock of `downloadTable` as steps. Abstract specification: `Fetch`, proved.
4. `SearchProcess`, `SearchFlood` (done, with proofs): a search at its origin, and its flood.
5. `BlockChain`, `FileNames` (done, with proofs): the tree of blocks, and the flood of names.
6. `ByzantineSGD` (done, with proofs): the two filters.
7. `Forwarding` (done, with proofs): hop-limited packets over changing tables;
   `PeerTable` (done, with proofs), `SimpleBroadcast` (done).
8. `Containers` (done, with proofs): the locks and iterators that 3 and 4 rest on.
9. `Matrices`, `LinearModel`, `Layers` (done, with proofs): the arithmetic of a training.

Each `MC` module gives a module its instance; `MCBlockChain` runs `BlockChain` and
`FileNames` side by side, `MCParts` the modules of 7 to 9. What runs and proofs share
of such a sum is in `ChainAndNames` (`N`, an instance of `FileNames`, beside `BlockChain`),
`SharedState` (`Table`, an instance of `PeerTable`, beside `Calls`, one of `Containers`) and
`Arithmetic` (`Linear` and `Net`, instances of `LinearModel` and `Layers`).

How they compose: `Training` extends `Workers`; `FileTransfer` extends `Chunking` and
implements `Fetch`; `Gossip` implements `RumorLog`; `LinearModel` and `Layers` extend
`Matrices`. `Forwarding` takes from `Gossip` only that a node counts the rumors of an
origin in order, from peers that have them. `FileTransfer`, `SearchProcess` and
`Training` take from `Forwarding` that a packet arrives, late, or is lost.
`ByzantineSGD` takes from `Workers` that a worker answers a round once.

## 3. What is modelled

### `RumorLog.tla` - what gossip promises

`log[n][o]` is what node `n` holds of the rumors of origin `o`. `Publish` lets an
owner append; `Learn` lets another node append the owner's next entry. No step
skips, alters or removes an entry.

### `Gossip.tla` - gossip.go, dsdv.go and their callers

| variable | code |
|---|---|
| `alive` | the process has not ended in a panic |
| `peers` | `peer_list`, `peer_index`, and an entry of `recv_channels` with its `antiEntropyReceiver` for each |
| `want` | `status.Want` through `status_index`; 0 for an origin not listed |
| `msgs` | `nodeName_msgs` |
| `hop` | `nextHopTable`; `via = None` when there is no entry |
| `handler` | the place of the packet loop inside the rumor branch: `idle`, `grow` (inside the `append` of gossip.go:158), `store` (between main.go:191 and 192) |
| `tasks` | goroutines: `monger` (rumorMongering before it sends), `wait` (in its `select`), `compare` (compareStatusAndSend) |
| `net` | datagrams in flight |

Actions: `PublishRumor` (client loop, case "RUMOR", which also serves the route
rumors of `routeRumor`, with an empty text), `AddPeer` (web page), `AntiEntropy`
(ticker), `RecvRumor` / `AssignWant` / `StoreRumor` (rumor branch of the packet
loop), `RecvStatus` (status branch and the goroutine that reads the channel),
`StartMonger`, `MongerTimeout` (rumorMongering), `SendMissing`, `AskOrStop`
(compareStatusAndSend), `MapRace` (the runtime's fatal error on overlapping map
accesses).

Decisions:

* The name of a gossiper and its address are one value; both are unique per process.
* The rumor branch is split where another goroutine can see the difference: between
  the count (main.go:191) and the storage (192), and, when `DataRaces` is TRUE,
  inside the `append` that copies `Want`. With `DataRaces = FALSE` the accesses of
  two goroutines to `Want` and `nodeName_msgs` do not overlap; the counted-but-not-stored
  gap is an interleaving, not an overlap, and stays.
* An `append` reallocates or not; both are possible. Only the own entry of `Want` has
  a second writer, so it is what the copy may lose.
* The order in which `Want` lists origins is the order in which they became known,
  except the own name, which is first. `FirstListed` therefore lets a comparison pick
  the own name if it is in the difference and any other origin otherwise.
* A status received while a rumorMongering waits for that peer goes to either reader of
  the channel, as Go's scheduler decides.
* The web page's lists (`ordered_msgs`, `id_list`) and the printed lines are left out:
  nothing reads them back.
* The coin of `continueSending` and the choice of `randomPeer` are free.
* `sendPacketToAddr` ends the process on a local socket error; peers have well-formed
  addresses, so this is left out, and a failed send is a lost datagram.

### `Workers.tla`, `Training.tla` - ml.go

`Workers` is what every gossiper does with the packets of a training; `Training` extends
it with the loop of the trainer. The gossip that settled the routes before is not part of
the state: `Peers` and `NextHop` are constants.

| variable | code |
|---|---|
| `seen` | the keys of `nameIDTable` |
| `chan` | `gradCh`: which training made the current channel; 0 is nil |
| `waiting` | goroutines blocked in `gradCh <- ...`, per channel, in the order they came |
| `answers` | goroutines of `handleWeight` asleep before they send their gradient |
| `net` | weight and gradient packets in flight |
| `loop` | per training: the place in `distributedSGD`, its round, the channel it receives from, the gradients of the round, the shared variable `grad` |
| `own` | goroutines that compute the trainer's own gradient, before and after they assign `grad` |

Actions: `HandleWeight`, `HandleGradient` (packet loop), `SendAnswer` (the sleeping
goroutine), `StartTraining` (newTraining), `SendWeights`, `Gather`, `UpdateWeights` (the
loop of `distributedSGD`), `ComputeOwn`, `OfferOwn` (the goroutine of a round).

Decisions:

* The key of `nameIDTable` is the name of the origin and the number of the round, one after the
  other (ml.go:95), which is a constant, `Concat[o][i]`: of one origin two keys differ, of two
  origins they may be equal. In the runs no name ends with a digit, so that none are.
* Weights are known by their trainer, training and number of rounds, a gradient by the
  weights it was computed from: all that the properties tell apart. A Byzantine gradient
  is one of no weights.
* Only the data set `mnist` is modelled. With `uci` the evaluation before the first round
  uses a nil test matrix (ml.go:257) and the process panics.
* Go evaluates the operand of a receive once. The loop therefore waits on the channel
  that was current when it began to wait, even after `newTraining` made another;
  `loop[n][t].ch` is that channel.
* Blocked senders of a channel are served first come, first served, as the runtime does.
* A missing next hop loses the gradient (`sendGradient` finds no address).
* The report at the end of a round is a client message, that is a `PublishRumor` of
  `Gossip`; `globalWeight` is only read by `newTesting`. Both are left out.
* `Byz` nodes answer at once with a reversed gradient, as `handleWeight` does for `-byz`.

### `Chunking.tla`, `Fetch.tla`, `FileTransfer.tla` - file.go

`Chunking` is the arithmetic of `GetFile`, uint64 wrap-around included. `Fetch` says what a
download promises: as many chunks of the file as its metafile names, in order, and then an
end that is final.

| variable | code |
|---|---|
| `store` | `hashSearchMap`: the hashes that a node says it has |
| `disk` | the files in `_Chunks`, by how much of each is there |
| `writing` | the call of `storeChunk` of a share or a download, after `hashSearchMap` is set |
| `shared` | the loop of `GetFile`: how many chunks it has begun to store |
| `dl` | the goroutine `DownloadFile`: whether it waits, how many hashes its metafile has, the chunks written |
| `table` | `downloadTable`: per metahash the channel and how many hashes `MetaFileString` has |
| `loop` | the packet loop inside `handleDataReplies`: entries the iterator holds, the reply, the entry it is at |
| `net` | requests and replies |
| `torn` | for the properties: hashes of which a read or a write came out short |

Actions: `Share`, `SharedOne` (GetFile, per chunk, then the metafile), `Begin`,
`TakeNothing`, `TakeMeta`, `TakeChunk`, `TakeOther`, `StoredEmptyMeta`, `StoredLast`,
`StoredMore`, `Retransmit` (DownloadFile), `Answer` (searchHashAndSend), `Enter`, `Visit`,
`SetMeta` (handleDataReplies; its send and a download's receive are one step of both).

Decisions:

* Storing takes two steps, since `storeChunk` sets `hashSearchMap` and creates the file,
  empty, before it writes it (file.go:125-128); `Share` and the `Take` actions do the first,
  `SharedOne` and the `Stored` actions the second and what the caller does next.
* `searchHashAndSend` sends what it read, whatever that is, under the hash it was asked for
  (244-251), and `DownloadFile` compares no data with their hash. A read that meets with a
  store, and with `DiskFails` any read or write, gives any beginning of the file, so that a
  copy is a hash and a size; damage then spreads with the copy. A metafile is cut
  between two hashes, since the code uses nothing of a part of one (176).
* The iterator holds the lock of `downloadTable` until its last entry is taken, and the loop
  takes entries in any order, since it ranges over a map.
* `strings.Contains` finds the empty hash of a negative answer in every record.
* A file is shared at any time, so a download may start before it is; those of `Before` were
  shared at the start. `MaxEarly` bounds how often 5 s may pass while an answer is still on
  its way.

### `SearchProcess.tla` - file_search.go:160-286

| variable | code |
|---|---|
| `proc` | the goroutine `newSearchProcess`: place, budget, round, `fileTraceTable` (`found`), matches |
| `open` | `searchProcessMap`, with a channel that is not closed |
| `listed` | `keywordsTable` |
| `tasks` | goroutines `handleSearchReplies`: the answer, entries the iterator holds, the entry it is at |
| `results` | `searchFileTable` |
| `alive` | the process has not panicked |

Actions: `Check`, `ListKeywords`, `OpenChannel`, `Tick`, `Receive`, `Finish`, `Unlist` (the
search), `Arrive`, `Iterate`, `Visit`, `GetChannel`, `SendClosed` (an answer). A file name is a
value and keywords are the names they match. A peer may answer any number of times, as it does
when a request reaches it again; `MaxAnswers` bounds the answers of a run. `close` and `Delete`
of a channel are one step, since an answer panics in between as it does after them.

### `SearchFlood.tla` - file_search.go:54-158

`seen`, `spawned` and `timers` are `duplicateCheckMap` and the goroutines
`registerNewSearchRequest` before and after they put their key in; `net` is a bag of requests.
The goroutine runs when the scheduler likes, so copies may come before it has. `Start` is a
round of `newSearchProcess`, `Handle` and `Ignore` are `handleSearchRequest` with
`distributeSearch`, `Register` and `Expire` the goroutine. Which peers get the remainder of a
split is free. `spent` exists only for `BudgetKept`.

### `BlockChain.tla` - blockchain.go:141-388

A block stands for its hash. `len` is `Len` of `cBlockMap`, `main` is `mainChain`,
`listed` is the older list `blockChain`, `nextPrev` is `nextBlock.PrevHash`. `Receive`
is `handleBlock` with `updateMainChain`: the two lists decide apart whether a block is
accepted, and it is passed on as the older one says. A lost packet, here and in
`FileNames` and `SimpleBroadcast`, is one that is never received. `Mine` is one success of `PoW`, at
any time; `main.go` starts no miner at present, so this is what it would do.

### `FileNames.tla` - blockchain.go:97-139

`table` is `tmpbcFileMap`, `txs` is `nextBlock.Transactions`, `pub` the goroutine
`publishFile` (`PublishNote`, `PublishRead`, `PublishAppend`, `PublishSend`), `loop` the
packet loop inside `handlebcFile` (`ReceiveKnown`, `ReceiveNew`, `HandleRead`,
`HandleAppend`). On the nodes of `Racy` an append is a read and a write.

### `ByzantineSGD.tla` - ml.go:367-628

`lc` is `peersLC`, `heard` the keys of `lastPeerGradients`, `recent` is `recentPeers`, `used`
the senders of the gradients that made the weights what they are (for the properties), `coming`
everything that waits for `gradCh` or is on its way to it. Actions: `Begin`, `Take` (the body of
the loop of a round, both filters included), `TakeUnknownRound` (`weightHistory` indexed out of
range), `Update`, `StartAgain` (newTraining; `Again` bounds its rounds), `Answer` (a worker). A
Lipschitz number is any value of `LCOf` below infinity: it depends on weights and gradients,
which are left out.

### `Forwarding.tla` - main.go:214-270, 402-411, dsdv.go

One destination, since tables of different ones do not touch. `hop` is the table, `heard`
the count of the destination's rumors; `Announce` and `Rumor` change them as `Gossip` does,
`Send` is the client's message, `Forward` one turn of the packet loop with the packet.
`trail` records where the packet was and what those nodes had counted then.

### `PeerTable.tla` - main.go:146-152, 446-457, gui.go:149-161

One addition is `Look`, `AppendPeer`, `SetIndex`, `MakeChannel`, by the packet loop and, with
the `-gui` flag, by the web page; `StartPick` and `FinishPick` are the two reads of the length in
`randomPeer`.

### `SimpleBroadcast.tla` - main.go:158-176, 332-340

`ClientMessage`, `Receive` (learn the sender, show, pass on). Nothing is remembered about
messages; only the origin recognises its own. Equal packets under way count as one.

### `Containers.tla` - datastruct.go

Callers run scripts of calls (`MCParts` takes them from the program). `SimpleCall` is
an operation between Lock and Unlock; a loop is `StartLoop`, then the goroutine of `Iter`
takes the lock (`Acquire`), hands over items (`HandOver`) between which the body may call
(`Body`), and unlocks (`Close`). `Exist` of a slice and `DeleteAll` start a loop
while they hold the lock themselves.

### `Matrices.tla`, `LinearModel.tla`, `Layers.tla`, `Arithmetic.tla` - matrix.go, nn.go, ml.go:660-943

Integers in the place of reals: a loss or gradient is multiplied by what it is divided by
in the code, and a slope is an exact difference, which it is for polynomials of degree two.
`LinearModel` is `f`, `mse_loss`, `grad_f`, `grad_mse` and the step of a round. `Layers` is
the fully connected layer (`Forward`, `Backward`, `UpdatePara`), the flat vectors, and the
backwards of softmax and cross entropy for any probabilities, so that no `exp` is needed.
`Arithmetic` puts the two side by side.

`passes` exists only for the properties: the inputs and gradients of the backwards since the
last `updatePara`. Sizes, data, weights and probabilities are constants; their assumptions
(`ConstantsOK`) say what the Go types and the callers give: rectangular matrices with at
least one row and column, inputs as wide as the layer, labels that are classes, and rows of
positive probabilities, `q / Total`, that add up to 1. `Scale` is a common multiple of the
`q`, so that the `1 / p` of the cross entropy is an integer.

## 4. Runs

Twelve runs, three of which show that the code does not do what it says; each instance holds as
many of the hard cases at a time as TLC explores in about two minutes. The configuration is
named in brackets.

| run | instance | shows |
|---|---|---|
| `race` (Routes) | triangle, one node publishes two rumors, `DataRaces = TRUE`, any loss, repetition and reordering | `NoRoutingLoop`, `RelaysHaveRoutes` |
| `logs` (Logs) | two nodes, one of which learns of the other through the web page; two rumors of two texts | `CountMatchesLog`, `RefinesRumorLog`, `NextIDNeverDrops`, `Converges` |
| `clock` (Clock) | two nodes that both publish, `DataRaces = TRUE` | **violated**: `NextIDNeverDrops` |
| `training` (Training) | triangle, one node Byzantine and answering through another, two rounds, `K = 2` | `WorkersUseCurrentWeights`, `EachWorkerOnce`, `RoundsAnswered`, `TrainingEnds`, `FloodDies` |
| `training_again` (TrainingAgain) | two nodes, two trainings of one of them | **violated**: `TrainingEnds` |
| `download` (Download) | two downloads of one node from another; files of full and short chunks that share one, which is stored again while it is asked for; losses and an early time-out | `WholeFile`, `ImplementsFetch`, `DownloadEnds` |
| `search` (Search) | two searches that overlap, two peers, a file whose chunks they share, four answers | `FoundIsWhole`, `AnswerFindsChannel`, `SearchEnds` |
| `flood` (Flood) | triangle, two rounds by two nodes, budgets 2 and 5, losses | `BudgetKept`, `FloodEnds` |
| `duplicates` (Duplicates) | the same without losses | **violated**: `DuplicatesIgnored` |
| `blocks` (Blocks) | two miners and four blocks; beside it four nodes, a triangle with a tail, with two names | `MainIsChain`, `ListInOrder`, `SameBlocksSameLength`, `MainOnlyGrows`, `NotedIsListed`, `NamesSpread` |
| `byzantine` (Byzantine) | trainer, two honest workers, a Byzantine one, `F = 1`, five rounds, then a second training | `WindowsDistinct`, `ByzantineBounded`, `FirstTrainingSafe`, `TrainingEnds` |
| `parts` (Parts) | private packets on a ring of four, peer table, containers, simple mode, arithmetic | `NeverStranded`, `RevisitNeedsNews`, `Arrives`, `PeersInOrder`, `IterSeesOneState`, `StuckOnlyOnItself`, `GradientsAreSlopes`, `EveryoneGoesOn`, `StepsLikeLayer` |

Type invariants that TLC checks are conjuncts of other invariants (`WholeFile`, for one);
those of gossip, training and forwarding are theorems of their own. For
safety, a lost packet is one that is never received, so that runs without an action of
loss cover it; where a time-out or a counter can tell (`download`, `flood`), loss is an
action. `blocks` and `parts` are sums: parts that share no state stand side by side, and a
behaviour is one of the part that the first state chooses.

Deadlock is not checked except in `logs`: the other systems stop when everything is
published, trained, downloaded or mined. Where one may stop and should not, a liveness
property says so.

### `race`, `logs`, `clock`

Bounds: `MaxID[n]` rumors published by `n`; at most `MaxNet` datagrams in flight, an older
one being lost when there would be more; at most `MaxTasks` goroutines per gossiper, a
further one being started when there is room. `MaxNet = 1` is less of a restriction than it
looks: any datagram can still be delivered, lost, or delivered again after either side moved
on, and two that would be in flight together are reordered by choosing which survives.
`MaxTasks = 1` makes the goroutines of a gossiper run one after the other; they share no
state but `want` and `msgs`, which they only read. `logs` has `MaxTasks = 2`.

The triangle is the smallest network in which a node hears a rumor by two ways and may
switch its route; two rumors are needed to move a route. In `logs` two texts tell a mixed-up
entry.

Fairness of `logs` (`FairSpec`): the packet loop and goroutines are scheduled (weak); the
ticker of `antiEntropy` chooses each peer again and again, since `randomPeer` is uniform; a
datagram that is sent again and again arrives in the end (strong, what UDP on a working
network gives), asked only of statuses and of rumors that are news to the receiver. Nothing
is assumed of the mongered copies, nor of the web page. `Converges` is checked on two nodes:
strong fairness for each pair of three is beyond what TLC does in minutes, and with three
nodes the bound on goroutines could keep one waiting for ever, which the code does not. It
allows for a gossiper that panics in compareStatusAndSend: a comparison between main.go:191
(count) and 192 (store) takes element `NextID-1` of a log that is one shorter.

Finding `clock`. `updateStatus` copies `status.Want` in the packet loop (gossip.go:158)
while the client loop increments `status.Want[0].NextID` (main.go:352). The increment is
lost; the node has stored its rumor but announces the old NextID, and gives the next rumor
the same ID. The nodes that know the first one ignore the second for ever.

### `training`, `training_again`

Bounds: `Trainings` per node and `Rounds` of a training (30 in the code: what can go wrong
lies between two consecutive rounds, or between the last packets of one training and the
next). The code has `K = 3`; `training` has `K = 2` of three nodes, so that a round ends
without its slowest worker and late answers occur. The cycle of peers is what a flood could
run around for ever. `Duplicates` is FALSE: `handleGradient` does not detect a repeated
gradient, so `EachWorkerOnce` and `RoundsAnswered` are only claimed of a network that repeats
nothing, and `Lossy` is FALSE, since a training waits for what was lost.
`OneTrainingIsCurrent` covers both values of both, the theorems that count answers both
values of `Lossy`. All theorems allow equal keys (`Concat`), where the runs have none.

Fairness: weak fairness of the packet loop, of the goroutines and of the training loop, that
is of Go's scheduler; a packet is received in the end because these runs lose none. The
client is free not to start a training.

Finding `training_again`. `nameIDTable` is keyed by origin and round and never cleared
(ml.go:115): no node answers the second training of a trainer, which waits for ever.

### `download`

Bounds: one goroutine for each of two downloads, of a file of two chunks, the second of them
short, and of one whose only chunk is the first of the other, so that a reply fits more than
one place and a node that stores the one file empties a chunk of the other, which it had
(`Before`); `Word = 16` values are enough for every index; `MaxEarly` time-outs while
a request is still being answered. A download that retransmits adds no packet that is there
already. Reads come short here when they meet with a store; disks that fail as well
(`DiskFails = TRUE`) and any other instance are the matter of the theorems. The arithmetic
of `GetFile` is checked apart, by `ChunkingChecked` in `MCFileTransfer`, on every file of up
to seven bytes over two values.

`WholeFile` does not say that a download that returns has the file: nothing in the code
ensures that. It says what can spoil it, a read or a write of the metafile or of one of
its chunks that came short, at any node, and that nothing else does: not loss, not
repetition, not a reply meant for another download. `ImplementsFetch` says the same of the
order of the chunks without an exception.

Fairness: goroutines run and timers fire (weak); a packet that is sent again and again is
not lost every time (strong, on `Answer` and `Enter`). `DownloadEnds` excuses what does stop
downloads (see Known limits): a packet loop that hangs or a process that has ended (`Hung`),
a record that a second order of the same file replaced (`Replaced`), and a metafile that once
came short.

### `search`, `flood`, `duplicates`

Bounds: two searches, two peers, two file names of two and one chunks, budgets that are
doubled and end at `Limit = 4` in the place of 32, `MaxTasks` answers handled at a time and
`MaxAnswers = 4` in all: one of each peer to each search, or the same one again. One start
budget is doubled once, the other passes the limit at once, and both may be expired when an
answer comes. In the flood the second request comes back to its origin on the triangle, and
5 does not divide evenly.

Fairness: goroutines run and tickers fire, and in the flood packets arrive (weak). A peer
need not answer.

Finding `duplicates`. `handleSearchRequest` is to "ignore duplicate within 0.5 second"
(file_search.go:62). It looks for the key (58) and leaves the registration to a goroutine
(63): a copy of the request over another way that the packet loop handles before that
goroutine runs is answered and passed on again. `BudgetKept` and `FloodEnds` hold all the
same.

### `blocks`

Bounds: four blocks (a fork, a longer fork, an orphan and a second root need four), two
miners, for blocks a hop limit of 2 in the place of 20. Blocks are interchangeable, hence
symmetry; the names are not. A name of `a` comes to `c` straight and by way of `b`, in copies
of different hop limits, whichever is first makes the other a duplicate, and `NameHops = 3`
in the place of 10 is just what the longer way to `d` takes: with one hop less it would
not be told. `d` publishes a name that meets the other one on the way, and the appends of
`a` overlap. `NamesSpread` is about the state in which no packet is left, so needs no
fairness.

### `byzantine`

Five rounds make three windows of 2F + 1 senders and the passages between them, and are as
many as it takes until all honest peers have numbers and the Byzantine gradient may be used
once more. `Late` and `Capacity` bound how many rounds old the weights of an answer may be
and how many gradients are on their way when a worker sends another one. `Again` bounds the
rounds of the second training, which is there for `FirstTrainingSafe`. `ByzantineBounded`
is about a step: the gradient that an update uses. `TrainingEnds` needs 3F + 1 peers that the
trainer knows and numbers that do not change. Fairness: goroutines, the loop and the arrival
of packets (weak).

### `parts`

* Private packets (`Forwarding`): a ring of four, three rumors of the destination and a hop
  limit of 3, because that is the shortest that reaches every node of the ring by either
  way; 10 in the code is more than four nodes and a few rumors use up, so that a limit one too
  low would not show. Three rumors turn a packet back at different places. Fairness: packets
  arrive (weak).
* Peer table: three addresses, none or one of them in the `-peers` flag, with and without the
  web page, while one is picked.
* Containers: four callers on a slice and two maps, with scripts taken from the program; and
  callers that are in their own way (the loop of `handleDataReplies`, `DeleteAll`, `Exist`).
  `EveryoneGoesOn` includes that a caller can go on unless it waits for a lock.
* Simple mode: two senders on a ring whose only cycle passes both. Weak fairness of
  `Arriving`, that packets arrive, is the only fairness of this part.
* Arithmetic: the linear model over data sets of up to three samples and two features with
  values from -2 to 1, plain and lasso; a layer of three units and two inputs over two
  passes and an update, and every batch of one or two samples. Small shapes are enough
  because every formula is a sum over samples, units and inputs: two of each, and a third
  unit, tell a wrong index, sign, factor or transpose.

### Known limits of the code

The models have these, and TLC shows most of them when a property does not excuse them. They
are why the properties are stated as they are. Two contradict a comment: that a copy of a
search request may be handled again (file_search.go:62, "ignore duplicate within 0.5 second")
is the finding `duplicates`; the gradient with ridge (ml.go:831, "+ lambda *
d(regularization)") is not in a run, since no call of the program trains with ridge. Of the
others no document of the repository says otherwise.

* Gossip: a comparison between main.go:191 and 192 ends the process, as do overlapping
  accesses to the logs.
* A second training counts a late answer to the same round of the first (ml.go:301). The
  trainer's own gradient may be of earlier weights, since the goroutines of successive rounds
  share `grad` (ml.go:287). Names that end in digits may give two origins one key (ml.go:95):
  a node that has answered the one then ignores the other.
* Byzantine training: when Lipschitz numbers change, or a peer joins with its second
  gradient, a round may find no gradient that passes both filters (ml.go:486, 492) and wait
  for ever; in a second training a gradient of the first can index `weightHistory` out of
  its range (ml.go:421, 470).
* Chunks: a hash is published before its file is written (file.go:125), what a failed or early
  read gave is sent all the same (244-251), and a download takes it unchecked, stores it and
  passes it on. A metafile that comes without a hash ends the process (189). One that comes
  late and shorter than the first overwrites `MetaFileString` (57): chunks that are still
  asked for are not understood any more, and the download waits for ever.
* Downloads: with two records in the table, `Set` inside the loop over it blocks the packet
  loop (file.go:57). A reply for a download that has ended is offered for ever (file.go:60).
  The empty hash of a negative answer fits every record, and ends other downloads (file.go:59).
  A second order of the same file takes over the record, and the first may wait for ever
  (file.go:155).
* Searches: an answer that comes when a search has no channel yet, or a closed one, ends the
  process (file_search.go:283). A file found complete at two peers is counted twice (232). A
  copied mutex that is locked stops the second search (182). Files of one name and different
  contents are merged (226). A request that comes back to its origin may find no route for
  an answer (105).
* Blocks and names: the first block of a second miner, with the zero `PrevHash`, is refused
  (blockchain.go:214). Two files of one name: one node may list both (131).
* The next block to mine may extend the shorter fork (blockchain.go:220). Of two appends of
  names that overlap one is lost (137).
* Peers: packet loop and web page together list a peer twice (gui.go:154). A peer can be picked
  before it has a channel (main.go:150, 153): the rumorMongering then waits for its time-out.
* Linear model: with ridge, `grad_f` has half the slope (ml.go:839); `f` adds the penalty a
  second time (ml.go:708-714).
* Simple mode: a message circulates for ever on a cycle that does not pass its origin.

## 5. Proofs

`GossipProofs.tla` (no assumption but those on the constants, `DataRaces` included):

* `TypeCorrect`: `Spec => []TypeOK`.
* `LoopFree`: `Spec => []NoRoutingLoop`, for every set of nodes and every initial
  peers. That the routes have no loop is not inductive. `RouteInv` adds why: whoever
  passes on a rumor, in a datagram, a goroutine or the packet loop, has counted it or
  is its origin (`RumorsHeld`); a node has a route exactly to the origins it has counted
  a rumor of, with a `SeqNum` below its count (`RoutesKnown`); and so the next hop has
  counted at least as much as the node (`RelayIsAhead`). A step that moves a
  route does so for a rumor that the new relay has and this node did not: relay's
  count is strictly larger, and a loop through this node would make it larger than itself.
* `RelaysAhead`: `Spec => []RelayIsAhead`, a part of `RouteInv`.
* `RelaysRoute`: `Spec => []RelaysHaveRoutes`, from `RelayIsAhead` and `RoutesKnown`.

* `LogsAgree`, `CountsMatch`, for `DataRaces = FALSE` (`clock` shows why it is needed): from
  `LogInv`, which adds that every rumor under way is an entry of its owner's log
  (`RumorsGenuine`) and that the one being stored is the next entry of its log
  (`StoresNext`).
* `Refinement`, for `DataRaces = FALSE`: `Spec => RefinesRumorLog`: `PublishRumor` is
  `Publish`, `StoreRumor` is `Learn`, every other step stutters.
* `ClockNeverDrops`, for `DataRaces = FALSE`: `Spec => NextIDNeverDrops`.

and, in the same module, of the peer table that gossip picks from (`Table`, an instance of
`PeerTable`), for any peers and `-peers` flags, with and without the web page:

* `PeerTableInOrder`: `Table!Spec => []PeersInOrder`, which has two parts. The bounds hold
  always. Packet loop and web page may list a peer twice, since a look for it and its append
  are two steps. `Authored` says how often at most: every place of an address is the work of
  another writer, which has not begun with that address again since. The order needs that
  the packet loop is the only writer (`WebOff`). `InPlace`: the index of a peer is its place,
  or the writer is about to set it (`Places`), what is being appended is not listed yet
  (`Adding`), and the pick under way counts from the place of the excluded peer (`Passed`).
  That a listed peer has its channel is not part of it and not so: the code makes the channel
  after the append (main.go:150, 153).

`TrainingProofs.tla`, for every network, routes, K and losses:

* `TrainingTypeCorrect`: `Spec => []TypeOK`.
* `OneTrainingIsCurrent`: if `Trainings <= 1`, `Spec => []WorkersUseCurrentWeights`
  (a second one may count a late answer to the first). `TrainingInv` is the inductive invariant:
  a weight packet carries the weights of its origin at its round (`PacketsSound`), so
  every answer that sleeps, travels or waits was computed from the weights of its round
  (`AnswersSound`, `WaitingSound`), and only those of the current round are gathered
  (`GatheredSound`). TLC checked it on the network of `training` first.
* `WorkersCountOnce`: if also no datagram is received twice, `Spec => []EachWorkerOnce`. A
  worker answers a round once (`nameIDTable`), but the loop that counts does not look at
  origins, so what has to be shown is that the one answer exists once: `OnceInv` says that
  the gradient of `o` for round `r` of `n` is asleep, on its way, waiting at a channel or
  counted, at only one of the four (`PlacesDiffer`), once there (`AnswersOnce`, `OwnOnce`,
  `PacketsOnce`, `QueuesOnce`, `CountedOnce`), and only if `o` had the weights. Both
  hypotheses are needed: `handleGradient` takes a repeated datagram for a second worker, and
  a second training takes an answer to the first for one to itself.
* `RoundsHaveAnswers`: under the same conditions, in a finite network, `Spec =>
  []RoundsAnswered`: a step is taken with K gradients (`FullUpdates`), which by `OnceInv` are of
  K nodes that had the weights, and a node that had them keeps its key, also where keys collide.
  (Finite, since the property counts the nodes.)

`ByzantineProofs.tla`, for every number of workers, `F`, trainings and rounds:

* `SendersDistinct`: `Spec => []WindowsDistinct`. The inductive invariant adds that
  `recent` is the end of `used`, of length 2F or all of it (`RecentIsEnd`): the frequency
  filter then refuses exactly the senders that a window of 2F + 1 must not repeat.
* `NoByzantineMajority`: `Spec => []HonestMajority`, a consequence: the senders of a window are
  distinct, so that those of them that are Byzantine are no more than `Byz` has members.
* `ByzantineNumbersBounded`: `Spec => []ByzantineBounded`, for at most F Byzantine workers: a
  gradient of one of them is used only if some honest peer has a larger Lipschitz number. F
  peers of the table have larger numbers than a sender that passes the filter; the sender is
  none of them, so at most F - 1 of them are Byzantine (`SomeHonestAbove`).
* `OnlyOldTrainingsPanic`: `Spec => []FirstTrainingSafe`. In the first training no weights
  and no gradient are of a round after the present one (`RoundsBegun`), so that an index of
  `weightHistory` is in its range; that is not so of the gradients of an earlier training.

`ForwardingProofs.tla`, for every network, destination, number of packets and rumors:

* `TypeCorrect`: `Spec => []TypeOK`.
* `Routable`: `Spec => []NeverStranded`. A next hop has counted at least one rumor of the
  destination, so has a route (`RoutesInv`).
* `OnlyNewsTurnsBack`: `Spec => []RevisitNeedsNews`. That routes form no loop at any moment
  is not enough, since a packet sees tables of different moments. `TrailInv` adds
  that around the last node of a trail there is a set that routes do not leave at the level
  of that node's count, and that holds no earlier stop of the trail at that level: the
  packet may only go to nodes that are new to it or have counted a rumor since. A rumor
  that changes a route moves the node itself above the level, so that the set stays closed.

`BlockChainProofs.tla`, for every number of blocks, miners and hops, in whatever order
blocks come and whatever forks they make:

* `MainChainsHold`, `ListsStayInOrder`: `Spec => []MainIsChain`, `Spec => []ListInOrder`. The
  two are proved together, since a block is judged by both lists; `ChainInv` adds that
  `Len` is the distance to the first block and there is one first block (`LenCounts`), and
  that what is known or under way was mined (`Mined`), so that a block has one parent.
* `MainChainsOnlyGrow`: `Spec => MainOnlyGrows`, a property of a step that needs `LenCounts`
  before it.
* `SameBlocksAgree`: `Spec => []SameBlocksSameLength`. By induction on the length, two nodes
  with the same blocks and the same first one give a block the same `Len`.

and, in the same module, of the names that are to be blocks (`N`, an instance of `FileNames`),
for every network and all shares of distinct names (`NamesDiffer`; with two files of one name
a node may list both):

* `NotedNamesListed`: `N!Spec => []NotedIsListed`. The property is of a node at rest, its
  appends are spread over several steps, so `NamesInv` says what every list of names
  holds while they run: in `Transactions`, and in what any goroutine has read of them, are
  only names whose append is over, once each, and all of those where appends do not overlap
  (`ListsSettled`); a name whose append is to come is noted (`NotesInTime`) and travels with
  its owner only after that (`Origins`). Where appends overlap, a list may lack names but
  repeats none.
* `SharedNamesSpread`: `N!Spec => []NamesSpread`, if the network is connected and has at most
  one node more than the hop limit (`NetworkFits`), which is 11 nodes for the 10 of the code.
  `SpreadInv`: whoever knows a name has told its peers or is about to (`Told`), and as many
  nodes know the name as a copy has hops behind it (`HopsCount`), so that a copy that has used
  up its hops finds everybody knowing the name. The bound on the nodes is sufficient, and
  `blocks` is at it, with four nodes and three hops. `NamesSpread` says nothing when a packet is
  lost: it is about the state in which all have arrived, and a lost packet stays in `net`.

`FileTransferProofs.tla`, for all files and chunk sizes, any number of downloads and nodes,
and any loss and order of packets:

* `ChunksJoin`: the chunks of a file, one after the other, are the file, if it is not empty
  and its chunk count fits the index. `OnlyEmptyFilesPanic`: and then no slice is out of
  range, while an empty file always panics. `ChunksAreFull`: every chunk but the last one has
  the full size, and the last one has at least one byte.
* `DownloadsAreWhole`: `Spec => []WholeFile`, for disks that fail and those that do not. The
  inductive invariant `FileInv` has three parts. `StoreInv`: what is stored or being stored is
  whole, or a read or a write of it came out short (`Sound`), and so is what is on disk unless
  it is being stored just now. `LoopInv`: so is what a reply carries, and the loop of a node
  only offers to its own downloads (`Own`). `DownInv`: a download has taken the first chunks
  of its file, all of them `Sound`, as many as its metafile names when it returns (`Counts`,
  `Taken`). What once came short counts as such for good (`Grows`), so that no step of the proof
  has to follow how damage spreads.
* `DownloadsFetch`: `Spec => ImplementsFetch`: `Begin` is the start of `Fetch`, `TakeMeta`
  learns how many chunks there are, `TakeChunk` adds one, `StoredLast` ends, `TakeNothing` is
  the failure, every other step stutters.

`SearchProcessProofs.tla`, for any searches, peers, files and answers:

* `FoundFilesAreWhole`: `Spec => []FoundIsWhole`, if files of one name are the same file at
  every peer (`SameFile`). Without it the property fails, since answers are merged by name
  (file_search.go:226). `Gathered` says that every place that was noted for a chunk holds it.
* `AnswersFindChannels`: `Spec => []AnswerFindsChannel`. `Registrations` says which of the
  two registrations a search has, by where its goroutine is, and that what an iterator
  holds was registered.

and, in the same module, of the containers that searches, downloads and the packet loop
share (`Calls`, an instance of `Containers`), for any containers, callers and programs:

* `LoopsSeeOneState`: `Calls!Spec => []IterSeesOneState`. The inductive invariant `LoopsInv`
  says what an iterator has at every stage (`Hands`). Until it has the lock, a slice can only
  have grown since the loop began (`OnlyGrows`; nothing deletes from one). While it sends, it
  alone holds the lock, so that what was received and what is to come stays what the
  container holds, in order for a slice and in any order for a map (`Sends`): a caller that
  writes needs the lock free (`Operates`), and another iterator that unlocks holds another
  one. What was there at the beginning is then part of what was received when it closes. A
  map keeps each key once (`RemovedLeaves`), which is why an order of its keys has as many
  items as the map (`RangedIs`).
* `OnlyOwnLoopsBlock`: `Calls!Spec => []StuckOnlyOnItself`, for programs whose loop bodies use
  only containers of a lower rank than the one they go over, or that one (`BodiesDescend`).
  The bodies of the code are of this kind: that of `handleDataReplies` writes the map it goes
  over, that of `handleSearchReplies` goes over `keywordsTable` and reads `searchProcessMap`;
  in a program where two loops each use the container of the other, two callers could block
  each other. `Held`: a lock is held by a loop over that container that has not closed its
  channel. Among the containers that are locked take one of least rank: its holder waits for
  a lock of no lower rank, so for that of its own loop. What `Waits` calls waiting is just
  when no step of a caller is enabled, which TLC checks (`StopsOnlyForLocks`).

`SumProofs.tla` holds what rests on finite sums. Of the flood of a search, for any finite
graph of peers, searches, budgets and losses:

* `BudgetsHold`: `Spec => []BudgetKept`, however often nodes handle the same request. A round
  that was not sent out has nothing under way (`UnsentRounds`), a node passes on at most the
  budget less 1 (`ShareSum`), and the requests that are added to or taken from the bag change
  the sum by just their budgets (`RequestsJoin`, `RequestLeaves`). The lemmas on sums before
  them (a sum can be taken in any order, over other names of the same things, and so on) are
  about `SumFunction` of the community modules.

and, in the same module, of the arithmetic of a training (`Linear` and `Net`), for matrices of
every size and all data, weights, outputs and probabilities (`ConstantsOK`):

* `GradientsHold`: `Linear!Spec /\ Net!Spec => []GradientsAreSlopes`. Every gradient is the
  exact difference of what it is the derivative of:
  - of the linear model without penalty and with lasso (`LinearSlope`): a change of one weight
    adds a multiple of one column to the residual, and the square of a sum is opened under
    the sum over the samples;
  - of a layer (`LayerAddsUp`). What `DW` and `DB` are is not visible in one state: they are
    what several backwards left, each with the input of its own forward, though `X` is
    overwritten by the next. `LayerInv` therefore says that they are sums over `passes`
    (`SumsUp`); `Backward` adds one summand, `UpdatePara` empties both sides, and `Forward`
    changes neither. That a layer is affine in one weight, in one bias and in one input
    (`WeightSlope`, `BiasSlope`, `InputSlope`, the last giving `BackSlopes`) does the rest;
  - of softmax and cross entropy together (`NetworkSlopes`): the product of a row of the
    Jacobian with the one entry that is not zero (`JacobianIs`, `RowBack`) leaves the
    probabilities less the label, `Scale` being divided by the probability of the label
    and multiplied with it again, and the place of each in the flat vector is that of
    its weight (`WholeGradient`).
* `StepsHold`: `Net!ConstantsOK => (Net!Spec => StepsLikeLayer)`. `TakenApart` says that
  `deFlatten` undoes `flattenWB`, whatever the numbers of units and inputs; a step on the flat
  vector is then the step on each part (`StepLikeLayer`). That a step makes a loss smaller is
  not claimed: it depends on the data, and the code chooses its step length `gamma` by hand
  (ml.go:248-250, 509-511).

The lemmas before them are about the operators of `Matrices`: `SumFunction` adds, scales and
picks out a single entry (`SumPlus`, `SumScale`, `SumSingle`), and products, sums and
transposes have the entries one expects (`MulIs`, `AddIs`, `TransposeIs`). They are stated
for integers, and so are the theorems: rounding of `float64` is not in the models.

Proved and in no run, since the proofs cover more than an instance would: the type
invariants of gossip, training and forwarding, `RelayIsAhead`, `Agreement`, and
`HonestMajority`, which follows from `WindowsDistinct`. `ChunksJoin`,
`OnlyEmptyFilesPanic` and `ChunksAreFull` are checked as an assumption (`ChunkingChecked`).

Induction. The induction theorems of the library take the formula as a parameter, which the
provers here cannot instantiate. Where a proof needs induction (lengths of chains, chunks of
a file, sums) it is made for the members of a set: the least member of a set of numbers
exists because `<` is well-founded on `Nat` (`WFMin`), and `FromOneUp`, `RangeInduction` and
`SubsetsUp` follow from that.

Every invariant and every action property of the runs that hold is a theorem, and so are both
refinements. Model-checked only: the types of simple mode (in `EveryoneGoesOn`). Liveness
(`Converges`, `TrainingEnds`, `FloodDies`, `DownloadEnds`, `SearchEnds`,
`FloodEnds`, `Arrives`, `EveryoneGoesOn`) is out of TLAPS's reach, and so is ENABLED
(`StopsOnlyForLocks`, a part of `EveryoneGoesOn`).

## 6. Not modelled

* Reading and standardizing data sets (ml_dataset.go, ml.go), the logistic loss, and `exp`,
  `log`, norms and rounding: functions over reals without a state. `newTesting` only reads.
* `MSELoss` of nn.go, which nothing uses; its backward is half the slope of its forward.
* The web page, the client program and start-up: they turn requests and flags into the
  client messages that the models begin with.
* Overlapping accesses to plain Go maps (`hashSearchMap`, `fileData`, `nextHopTable`, and
  `duplicateCheckMap` under copied locks), at which the runtime ends the process. `Gossip`
  has that event (`MapRace`); elsewhere it would only add that any run may end.
* Restarts: nothing is persisted, and a restarted gossiper reuses its name and IDs from 1,
  which no part of the code handles. `uint32` wrap-around of IDs: 2^32 rumors of one node.
