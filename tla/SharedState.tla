---------------------------- MODULE SharedState -----------------------------
(***************************************************************************)
(* What the goroutines of one gossiper share: its peer table, and the      *)
(* containers of datastruct.go.  The two share no state.                   *)
(***************************************************************************)
EXTENDS Integers

CONSTANTS
  Addr, NoIndex, Flags,              \* PeerTable
  Caller, Container, Maps, Scripts   \* Containers

VARIABLES
  list, index, channel, writer, pick,
  items, lock, left, at, iter, before, got

peerVars == <<list, index, channel, writer, pick>>
callVars == <<items, lock, left, at, iter, before, got>>

Table == INSTANCE PeerTable WITH None <- NoIndex
Calls == INSTANCE Containers

(* The peer table keeps its order without the web page, and its bounds     *)
(* always (main.go:146-156, 446-457; PeerTable.tla).                       *)
PeersInOrder == Table!TableInOrder /\ Table!TableInBounds

(* A loop over a container goes over the items of one moment               *)
(* (datastruct.go:112-127, 314-329; Containers.tla).                       *)
IterSeesOneState == Calls!IterSeesOneState

(* A call that never returns is in its own way (datastruct.go:100, 305;    *)
(* Containers.tla).                                                        *)
StuckOnlyOnItself == Calls!StuckOnlyOnItself
=============================================================================
