------------------------------ MODULE MCParts -------------------------------
(***************************************************************************)
(* Small parts of the program for TLC, side by side: the peer table, the   *)
(* containers that goroutines share, simple mode, forwarding, and the      *)
(* arithmetic of training.  They share no state; a behaviour is one of the *)
(* part that the first state chooses, some parts with several instances.   *)
(***************************************************************************)
EXTENDS Forwarding, SharedState, Arithmetic, TLC

CONSTANTS a, b, c, d,                      \* nodes and addresses
          p,                               \* a packet
          loop, page, search, reply, x, y  \* callers, and items

VARIABLES part,
  peers, sent, shown, net                       \* SimpleBroadcast

broadVars  == <<peers, sent, shown, net>>
allVars    == <<part, peerVars, callVars, broadVars, vars, linearVars, layerVars>>

-----------------------------------------------------------------------------
SomeFlags == {<<>>, <<a>>}

-----------------------------------------------------------------------------
Do(op, on, item) == [op |-> op, on |-> on, item |-> item]
Loop(on) == [op |-> "Loop", on |-> on]
LoopWith(on, body) == [op |-> "Loop", on |-> on, body |-> body]

(* The packet loop learns a peer and broadcasts (main.go:150, 471), the    *)
(* web page adds one and lists them (gui.go:154, 164); searches come and   *)
(* go (file_search.go) while a reply goes over them (:276).                *)
Program ==
  loop   :> <<Do("Append", "peers", x), Loop("peers"), Do("Read", "peers", x)>> @@
  page   :> <<Do("Append", "peers", y), Loop("peers")>> @@
  search :> <<Do("Set", "keywords", x), Do("Set", "keywords", y), Do("Delete", "keywords", x)>> @@
  reply  :> <<LoopWith("keywords", Do("Read", "processes", x)), Loop("keywords")>>

(* handleDataReplies goes over downloadTable and writes it (file.go:54);   *)
(* other callers use it too, and one calls what datastruct.go offers and   *)
(* nobody calls.                                                           *)
InItsWay ==
  loop   :> <<LoopWith("keywords", Do("Set", "keywords", x))>> @@
  page   :> <<Do("Set", "keywords", x), Loop("keywords")>> @@
  search :> <<Do("Set", "keywords", y), LoopWith("peers", Do("Read", "keywords", x))>> @@
  reply  :> <<Do("Append", "peers", x), Do("DeleteAll", "keywords", x), Do("Exist", "peers", x)>>

Programs == {Program, InItsWay}

-----------------------------------------------------------------------------
(* A ring, whose only cycle passes every origin.                           *)
Ring == a :> {b} @@ b :> {c} @@ c :> {d} @@ d :> {a}
Cast == INSTANCE SimpleBroadcast WITH Node <- {a, b, c, d}, PeerFlag <- Ring, Senders <- {a, c}

-----------------------------------------------------------------------------
(* Forwarding, on a ring with news both ways.                              *)
TwoWay == a :> {b, d} @@ b :> {a, c} @@ c :> {b, d} @@ d :> {a, c}

-----------------------------------------------------------------------------
(* One to three samples with up to two features.                           *)
Short  == { <<<<1>>, <<1>>>>, <<<<1, 0>>, <<0, -1>>>>, <<<<1, 1>>>>, <<<<0, 1>>, <<1, 0>>, <<0, 0>>>> }
Values == -2 .. 1

(* Three units and two inputs: passes over three batches in any order.       *)
SmallBatches == { <<<<1, -1>>>>, <<<<0, 2>>>>, <<<<2, 0>>, <<-1, 3>>>> }
SomeSlopes == { <<<<1, 0, -2>>>>, <<<<0, 1, 1>>, <<3, -1, 0>>>> }
SomeProbs  == { <<1, 2, 3>>, <<4, 1, 1>>, <<2, 2, 2>> }

ASSUME PartsAssumption ==
  /\ Table!ConstantsOK /\ Calls!ConstantsOK /\ Cast!ConstantsOK
  /\ Linear!ConstantsOK /\ Net!ConstantsOK
  /\ \E rank \in [Container -> 0 .. 2] : Calls!BodiesDescend(rank)

-----------------------------------------------------------------------------
PartInit ==
  /\ part \in {"table", "calls", "broadcast", "route", "linear", "layers"}
  /\ Table!Init /\ (part # "table" => list = <<>> /\ writer["web"] = Table!Off)
  /\ Calls!Init /\ (part # "calls" => left = Program)
  /\ Cast!Init
  /\ Init
  /\ part # "linear" => samples = <<<<1>>, <<1>>>> /\ outputs = <<0, 0>> /\ weights = <<0>> /\ reg = "lasso"
  /\ Linear!Init
  /\ Net!Init

PartNext ==
  \/ part = "table"     /\ Table!Next  /\ UNCHANGED <<part, callVars, broadVars, vars, linearVars, layerVars>>
  \/ part = "calls"     /\ Calls!Next  /\ UNCHANGED <<part, peerVars, broadVars, vars, linearVars, layerVars>>
  \/ part = "broadcast" /\ Cast!Next   /\ UNCHANGED <<part, peerVars, callVars, vars, linearVars, layerVars>>
  \/ part = "route"     /\ Next        /\ UNCHANGED <<part, peerVars, callVars, broadVars, linearVars, layerVars>>
  \/ part = "linear"    /\ Linear!Next /\ UNCHANGED <<part, peerVars, callVars, broadVars, vars, layerVars>>
  \/ part = "layers"    /\ Net!Next    /\ UNCHANGED <<part, peerVars, callVars, broadVars, vars, linearVars>>

(* In the broadcast, whatever is sent arrives; in forwarding, every packet *)
(* loop runs for ever.                                                     *)
Arriving == /\ part = "broadcast" /\ UNCHANGED <<part, peerVars, callVars, vars, linearVars, layerVars>>
            /\ \E m \in net : Cast!Receive(m.dst, m)
MovingOn(k) == /\ part = "route" /\ UNCHANGED <<part, peerVars, callVars, broadVars, linearVars, layerVars>>
               /\ Forward(k)

PartSpec == /\ PartInit /\ [][PartNext]_allVars
            /\ WF_allVars(Arriving) /\ \A k \in Packet : WF_allVars(MovingOn(k))

-----------------------------------------------------------------------------
(* In simple mode a message gets everywhere and dies out on this ring      *)
(* (main.go:158-176; SimpleBroadcast.tla), and no node is a peer of its    *)
(* own.  A caller of a container goes on unless it waits for a lock        *)
(* (datastruct.go:112-127; Containers.tla).                                *)
EveryoneGoesOn ==
  /\ Cast!EveryoneHears
  /\ [](part = "broadcast" => Cast!TypeOK)
  /\ [](part = "calls" => Calls!StopsOnlyForLocks)
=============================================================================
