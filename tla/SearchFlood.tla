---------------------------- MODULE SearchFlood -----------------------------
(***************************************************************************)
(* How a search request spreads (file_search.go): every round of a search  *)
(* sends a budget to the peers of its origin; a node that gets a request   *)
(* takes 1 of its budget, answers if it has a matching file, and splits    *)
(* the rest over its other peers.  duplicateCheckMap holds the keys of the *)
(* requests of the last 0.5 s; a goroutine puts a key in and out.          *)
(*                                                                         *)
(* Requests are lost and overtake one another; equal ones are kept apart   *)
(* in a bag.  An answer is sent along nextHopTable (Forwarding models its  *)
(* way) and is recorded in answered.                                       *)
(***************************************************************************)
EXTENDS Integers, FiniteSets, Functions, Bags

CONSTANTS
  Node, None,
  Peers,    \* Peers[n]: peer_list of n
  Routes,   \* Routes[n]: names with an entry in nextHopTable of n
  Round,    \* calls of distributeSearch by newSearchProcess
  Org,      \* Org[r]: the node that searches
  Budget,   \* Budget[r]: the budget of round r
  Holders,  \* nodes with a file that matches
  Lossy

ASSUME NoneAssumption == None \notin Node
ASSUME PeersAssumption ==
  \A n \in Node : Peers[n] \subseteq Node \ {n} /\ IsFiniteSet(Peers[n])
ASSUME RoutesAssumption == \A n \in Node : Routes[n] \subseteq Node \ {n}
ASSUME RoundAssumption == Org \in [Round -> Node] /\ Budget \in [Round -> Nat \ {0}]

VARIABLES
  alive,     \* alive[n]: the process of n has not panicked
  started,   \* rounds that were sent out
  seen,      \* seen[n]: origins whose key is in duplicateCheckMap
  spawned,   \* spawned[n][o]: registrations of o's key that have not run yet
  timers,    \* timers[n][o]: registrations that wait for their 0.5 s
  net,       \* requests on their way
  answered,  \* answered[r]: nodes that have answered round r
  spent      \* spent[r]: requests of round r that were handled, for BudgetKept,
             \* not counted beyond Budget[r] + 1

vars == <<alive, started, seen, spawned, timers, net, answered, spent>>

-----------------------------------------------------------------------------
(* A request; round is what budget it is part of, which no code reads.     *)
Request == [src : Node, dst : Node, org : Node, budget : Nat \ {0}, round : Round]

TypeOK ==
  /\ alive \in [Node -> BOOLEAN]
  /\ started \subseteq Round
  /\ seen \in [Node -> SUBSET Node]
  /\ spawned \in [Node -> [Node -> Nat]] /\ timers \in [Node -> [Node -> Nat]]
  /\ BagToSet(net) \subseteq Request
  /\ answered \in [Round -> SUBSET Node]
  /\ spent \in [Round -> Nat]

Init ==
  /\ alive = [n \in Node |-> TRUE]
  /\ started = {}
  /\ seen = [n \in Node |-> {}]
  /\ spawned = [n \in Node |-> [o \in Node |-> 0]]
  /\ timers = [n \in Node |-> [o \in Node |-> 0]]
  /\ net = EmptyBag
  /\ answered = [r \in Round |-> {}]
  /\ spent = [r \in Round |-> 0]

-----------------------------------------------------------------------------
(* distributeSearch sends to all peers but the one the request came from.  *)
Receivers(n, relaySender) == Peers[n] \ {relaySender}

(* Mutant: the budget is not reduced on the way. *)
SharesOfAll(n, relaySender, budget) ==
  LET to  == Receivers(n, relaySender)
      tmp == Cardinality(to)
  IN  IF tmp = 0 THEN {[p \in to |-> 0]}
      ELSE {[p \in to |-> IF p \in more THEN budget \div tmp + 1 ELSE budget \div tmp] :
              more \in {S \in SUBSET to : Cardinality(S) = budget % tmp}}

(* Mutant: every receiver gets the rounded-up share. *)
SharesRoundedUp(n, relaySender, budget) ==
  LET left == budget - 1
      to   == Receivers(n, relaySender)
      tmp  == Cardinality(to)
  IN  IF left = 0 \/ tmp = 0 THEN {[p \in to |-> 0]}
      ELSE {[p \in to |-> IF left % tmp = 0 THEN left \div tmp ELSE left \div tmp + 1]}

(* The budget less 1 in equal shares; as many receivers as the remainder   *)
(* says, drawn at random, get one more.                                    *)
Shares(n, relaySender, budget) ==
  LET left == budget - 1
      to   == Receivers(n, relaySender)
      tmp  == Cardinality(to)
  IN  IF left = 0 \/ tmp = 0 THEN {[p \in to |-> 0]}
      ELSE {[p \in to |-> IF p \in more THEN left \div tmp + 1 ELSE left \div tmp] :
              more \in {S \in SUBSET to : Cardinality(S) = left % tmp}}

Requests(n, share, org, r) ==
  SetToBag({[src |-> n, dst |-> p, org |-> org, budget |-> share[p], round |-> r] :
              p \in {p \in DOMAIN share : share[p] # 0}})

(* newSearchProcess sends a round out with budget + 1.                     *)
Start(r) ==
  /\ alive[Org[r]]
  /\ r \notin started
  /\ started' = started \cup {r}
  /\ \E share \in Shares(Org[r], None, Budget[r] + 1) :
       net' = net (+) Requests(Org[r], share, Org[r], r)
  /\ UNCHANGED <<alive, seen, spawned, timers, answered, spent>>

(* handleSearchRequest of a key that is in the map.                        *)
Ignore(n, m) ==
  /\ m.org \in seen[n]
  /\ net' = net (-) SetToBag({m})
  /\ UNCHANGED <<alive, started, seen, spawned, timers, answered, spent>>

(* sendSearchReplies looks nextHopTable up without a check, and there is   *)
(* no entry for the node itself.                                           *)
CanAnswer(n, org) == n \notin Holders \/ org \in Routes[n]

Handle(n, m) ==
  /\ m.org \notin seen[n]
  /\ spawned' = [spawned EXCEPT ![n][m.org] = @ + 1]
  /\ spent' = [spent EXCEPT ![m.round] = IF @ > Budget[m.round] THEN @ ELSE @ + 1]
  /\ \/ /\ ~CanAnswer(n, m.org)
        /\ alive' = [alive EXCEPT ![n] = FALSE]
        /\ net' = net (-) SetToBag({m})
        /\ UNCHANGED answered
     \/ /\ CanAnswer(n, m.org)
        /\ answered' = [answered EXCEPT ![m.round] = IF n \in Holders THEN @ \cup {n} ELSE @]
        /\ \E share \in Shares(n, m.src, m.budget) :
             net' = (net (-) SetToBag({m})) (+) Requests(n, share, m.org, m.round)
        /\ UNCHANGED alive
  /\ UNCHANGED <<started, seen, timers>>

Receive(n) == \E m \in BagToSet(net) : m.dst = n /\ alive[n] /\ (Ignore(n, m) \/ Handle(n, m))

(* registerNewSearchRequest: the key goes in, and out after 0.5 s.         *)
Register(n, o) ==
  /\ alive[n] /\ spawned[n][o] > 0
  /\ spawned' = [spawned EXCEPT ![n][o] = @ - 1]
  /\ timers' = [timers EXCEPT ![n][o] = @ + 1]
  /\ seen' = [seen EXCEPT ![n] = @ \cup {o}]
  /\ UNCHANGED <<alive, started, net, answered, spent>>

Expire(n, o) ==
  /\ alive[n] /\ timers[n][o] > 0
  /\ timers' = [timers EXCEPT ![n][o] = @ - 1]
  /\ seen' = [seen EXCEPT ![n] = @ \ {o}]
  /\ UNCHANGED <<alive, started, spawned, net, answered, spent>>

Lose == /\ Lossy
        /\ \E m \in BagToSet(net) : net' = net (-) SetToBag({m})
        /\ UNCHANGED <<alive, started, seen, spawned, timers, answered, spent>>

Next == \/ \E r \in Round : Start(r)
        \/ \E n \in Node : Receive(n) \/ \E o \in Node : Register(n, o) \/ Expire(n, o)
        \/ Lose

Spec == Init /\ [][Next]_vars

(* Packets arrive, goroutines run and their timers fire.                   *)
FairSpec == /\ Spec
            /\ \A r \in Round : WF_vars(Start(r))
            /\ \A n \in Node : WF_vars(Receive(n)) /\ WF_vars(\E o \in Node : Register(n, o) \/ Expire(n, o))

-----------------------------------------------------------------------------
(* Properties. *)

InFlight(r) == SumFunction([m \in {m \in BagToSet(net) : m.round = r} |-> m.budget * net[m]])

(* A round never costs more than its budget: the requests that were        *)
(* handled and the budget still on its way add up to at most what was sent *)
(* out, whatever the graph, whatever is lost and however often a node      *)
(* handles one (file_search.go:112-158).  The state keeps its types.       *)
BudgetKept ==
  /\ TypeOK
  /\ \A r \in Round : spent[r] + InFlight(r) <= Budget[r]

(* A node does not handle a request whose key came in less than 0.5 s ago, *)
(* as the comment at file_search.go:62 says.  The check and the            *)
(* registration, which a goroutine does, are two steps (58, 63).           *)
DuplicatesIgnored ==
  [][\A n, o \in Node : spawned'[n][o] > spawned[n][o] => spawned[n][o] + timers[n][o] = 0]_vars

(* Every round dies out, on cycles too, where a request comes again after  *)
(* its key has gone: a budget cannot go round for ever.                    *)
FloodEnds == <>[](\A m \in BagToSet(net) : ~alive[m.dst])
=============================================================================
