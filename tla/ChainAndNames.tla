--------------------------- MODULE ChainAndNames ----------------------------
(***************************************************************************)
(* The two parts of blockchain.go side by side: the block chain, and the   *)
(* flood of the names that the next block is to hold, in a network of its  *)
(* own.  They share no state.                                              *)
(***************************************************************************)
EXTENDS BlockChain

CONSTANTS
  NameNode, NamePeers,   \* the network of the names
  Name, Shares, NameHops, Racy

VARIABLES table, txs, pub, loop, names

nameVars == <<table, txs, pub, loop, names>>

N == INSTANCE FileNames WITH Node <- NameNode, Peers <- NamePeers,
                             Hops <- NameHops, net <- names

(* Between two packets a node's next block holds every name it noted, once *)
(* each and nothing else; where two appends may overlap, a name may be     *)
(* missing (blockchain.go:97-155; FileNames.tla).                          *)
NotedIsListed == N!NotedIsListed

(* When all is sent and received, every node has noted every shared name   *)
(* with its owner (blockchain.go:140-154; FileNames.tla).                  *)
NamesSpread == N!NamesSpread
=============================================================================
