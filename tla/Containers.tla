----------------------------- MODULE Containers -----------------------------
(***************************************************************************)
(* ConcurrentSlice, ConcurrentSliceString and ConcurrentMap of             *)
(* datastruct.go.  Every operation takes the container's lock.  Iter       *)
(* returns a channel at once; a goroutine of its own takes the lock, hands *)
(* the items over one by one, closes the channel and only then unlocks, so *)
(* the lock is held for as long as the caller's loop takes.                *)
(*   The callers make the calls of a script.  Its loops may have a body    *)
(* that calls another operation for each item (file.go:54-63).             *)
(***************************************************************************)
EXTENDS Integers, Sequences, SequencesExt

CONSTANTS
  Caller, Container,
  Maps,    \* the containers that are maps: a set, in no order
  Scripts  \* what the callers may do: script[p], calls as [op, on, item], a
           \* loop with a body as well

Simple == {"Append", "Set", "Delete", "Read"}

Written == UNION {ToSet(script[p]) : script \in Scripts, p \in Caller}

(* Append is there for slices, Set and Delete for maps.                    *)
Offered(call) == /\ call.on \in Container
                 /\ call.op = "Append" => call.on \notin Maps
                 /\ call.op \in {"Set", "Delete"} => call.on \in Maps

ConstantsOK ==
  /\ Maps \subseteq Container
  /\ Scripts \subseteq [Caller -> Seq(Written)]
  /\ \A call \in Written :
       /\ call.op \in Simple \cup {"Loop", "Exist", "DeleteAll"} /\ Offered(call)
       /\ "body" \in DOMAIN call => call.body.op \in Simple /\ Offered(call.body)

VARIABLES
  items,  \* items[c]: what c holds; of a map, each key once
  lock,   \* lock[c]: who holds it, if any: a caller or the iterator of one
  left,   \* left[p]: the calls p has not finished
  at,     \* at[p]: where p is in its call: "call", "looping" or "body"
  iter,   \* iter[p]: the goroutine that p's loop started
  before, \* before[p]: what the container held when p's loop began
  got     \* got[p]: what the loop has received

vars == <<items, lock, left, at, iter, before, got>>

-----------------------------------------------------------------------------
Holder == [who : Caller, as : {"caller", "iterator"}]
Stage  == {"none", "starting", "sending", "closed"}

TypeOK ==
  /\ lock \in [Container -> SUBSET Holder]
  /\ at \in [Caller -> {"call", "looping", "body"}]
  /\ \E script \in Scripts : \A p \in Caller : IsSuffix(left[p], script[p])
  /\ \A p \in Caller : iter[p].stage \in Stage
  /\ \A c \in Maps : \A i, j \in DOMAIN items[c] : items[c][i] = items[c][j] => i = j

NoIter == [stage |-> "none", pending |-> <<>>]

Init ==
  /\ items = [c \in Container |-> <<>>]
  /\ lock = [c \in Container |-> {}]
  /\ left \in Scripts
  /\ at = [p \in Caller |-> "call"]
  /\ iter = [p \in Caller |-> NoIter]
  /\ before = [p \in Caller |-> <<>>]
  /\ got = [p \in Caller |-> <<>>]

Call(p) == Head(left[p])
Return(p) == left' = [left EXCEPT ![p] = Tail(@)]

(* Mutant: Append, Set and Delete do not lock. *)
FreeAlways(c) == TRUE

(* cs.Lock(), which waits *)
Free(c) == lock[c] = {}

Appended(c, x) == Append(items[c], x)

WithKey(c, x) == IF Contains(items[c], x) THEN items[c] ELSE Append(items[c], x)

Without(c, x) == RemoveFirst(items[c], x)

(* What c holds after an operation that locks and unlocks.                 *)
Result(c, call) ==
  CASE call.op = "Append" -> Appended(c, call.item)
    [] call.op = "Set"    -> WithKey(c, call.item)
    [] call.op = "Delete" -> Without(c, call.item)
    [] OTHER              -> items[c]

Operate(call) ==
  /\ Free(call.on)
  /\ items' = [items EXCEPT ![call.on] = Result(call.on, call)]

(* Append, Set, Delete, and Get, Exist, Len, GetSlice as Read              *)
SimpleCall(p) ==
  /\ at[p] = "call" /\ left[p] # <<>> /\ Call(p).op \in Simple
  /\ Operate(Call(p))
  /\ Return(p)
  /\ UNCHANGED <<lock, at, iter, before, got>>

(* "for x := range c.Iter()": the channel is there before the lock is.     *)
(* ConcurrentSlice.Exist and ConcurrentMap.DeleteAll hold the lock         *)
(* themselves when they call Iter or IterKey.                              *)
StartLoop(p) ==
  LET call == Call(p)
  IN /\ at[p] = "call" /\ left[p] # <<>> /\ call.op \notin Simple
     /\ IF call.op = "Loop" THEN UNCHANGED lock
        ELSE Free(call.on) /\ lock' = [lock EXCEPT ![call.on] = {[who |-> p, as |-> "caller"]}]
     /\ at' = [at EXCEPT ![p] = "looping"]
     /\ iter' = [iter EXCEPT ![p] = [stage |-> "starting", pending |-> <<>>]]
     /\ before' = [before EXCEPT ![p] = items[call.on]]
     /\ got' = [got EXCEPT ![p] = <<>>]
     /\ UNCHANGED <<items, left>>

(* A map in any order.                                                     *)
Ranged(c) == IF c \in Maps THEN SetToSeqs(ToSet(items[c])) ELSE {items[c]}

(* The goroutine of Iter takes the lock and ranges.                        *)
Acquire(p) ==
  LET box == Call(p).on
  IN /\ iter[p].stage = "starting" /\ Free(box)
     /\ lock' = [lock EXCEPT ![box] = {[who |-> p, as |-> "iterator"]}]
     /\ \E order \in Ranged(box) :
          iter' = [iter EXCEPT ![p] = [stage |-> "sending", pending |-> order]]
     /\ UNCHANGED <<items, left, at, before, got>>

(* "c <- value": both sides are needed.                                    *)
HandOver(p) ==
  /\ iter[p].stage = "sending" /\ iter[p].pending # <<>> /\ at[p] = "looping"
  /\ iter' = [iter EXCEPT ![p].pending = Tail(@)]
  /\ got' = [got EXCEPT ![p] = Append(@, Head(iter[p].pending))]
  /\ at' = [at EXCEPT ![p] = IF "body" \in DOMAIN Call(p) THEN "body" ELSE "looping"]
  /\ UNCHANGED <<items, lock, left, before>>

Body(p) ==
  /\ at[p] = "body" /\ Operate(Call(p).body)
  /\ at' = [at EXCEPT ![p] = "looping"]
  /\ UNCHANGED <<lock, left, iter, before, got>>

(* Mutant: the goroutine ends without unlocking. *)
UnlockedNever(c) == lock

(* defer cs.Unlock()                                                       *)
Unlocked(c) == [lock EXCEPT ![c] = {}]

(* "close(c)" and the deferred Unlock; nobody can tell them apart.         *)
Close(p) ==
  /\ iter[p].stage = "sending" /\ iter[p].pending = <<>>
  /\ iter' = [iter EXCEPT ![p].stage = "closed"]
  /\ lock' = Unlocked(Call(p).on)
  /\ UNCHANGED <<items, left, at, before, got>>

EndLoop(p) ==
  /\ at[p] = "looping" /\ iter[p].stage = "closed"
  /\ at' = [at EXCEPT ![p] = "call"]
  /\ iter' = [iter EXCEPT ![p] = NoIter]
  /\ Return(p)
  /\ UNCHANGED <<items, lock, before, got>>

Step(p) == \/ SimpleCall(p) \/ StartLoop(p) \/ Acquire(p) \/ HandOver(p)
           \/ Body(p) \/ Close(p) \/ EndLoop(p)

Next == \E p \in Caller : Step(p)

Spec == Init /\ [][Next]_vars

-----------------------------------------------------------------------------
(* Properties. *)

(* A loop goes over the items of one moment, each exactly once, however    *)
(* many others add and delete meanwhile: until the channel closes, what    *)
(* was received and what is still to come is what the container holds; and *)
(* a loop over a slice misses none that was there when it began            *)
(* (datastruct.go:112-127, 314-329).  The state keeps its types.           *)
IterSeesOneState ==
  /\ TypeOK
  /\ \A p \in Caller : iter[p].stage = "sending" =>
       LET all == got[p] \o iter[p].pending
           now == items[Call(p).on]
       IN Len(all) = Len(now) /\ ToSet(all) = ToSet(now)
  /\ \A p \in Caller : (iter[p].stage = "closed" /\ Call(p).on \notin Maps)
                          => IsPrefix(before[p], got[p])

(* p, or the goroutine of its loop, waits for a lock, and nothing else of  *)
(* p can go on.                                                            *)
Waits(p) ==
  \/ at[p] = "call" /\ left[p] # <<>> /\ Call(p).op # "Loop" /\ ~Free(Call(p).on)
  \/ iter[p].stage = "starting" /\ ~Free(Call(p).on)
  \/ /\ at[p] = "body" /\ ~Free(Call(p).body.on)
     /\ ~(iter[p].stage = "sending" /\ iter[p].pending = <<>>)

Finished(p) == left[p] = <<>>

(* That is all that can stop a caller: the channel of an iterator never    *)
(* does, nor a lock that nobody holds (datastruct.go:112-127).             *)
StopsOnlyForLocks == \A p \in Caller : ENABLED Step(p) <=> ~(Waits(p) \/ Finished(p))

(* p waits for a lock that its own loop holds, or its loop for p's.        *)
OwnLoop(p) ==
  \/ at[p] = "body" /\ lock[Call(p).body.on] = {[who |-> p, as |-> "iterator"]}
  \/ iter[p].stage = "starting" /\ lock[Call(p).on] = {[who |-> p, as |-> "caller"]}

(* The only way to be stuck is a caller in its own way: a body that uses   *)
(* the container it goes over, Exist or DeleteAll.  Two callers never      *)
(* block each other (datastruct.go:100, 305; file.go:54-57).               *)
StuckOnlyOnItself ==
  (\A p \in Caller : Waits(p) \/ Finished(p)) =>
    (\A p \in Caller : Finished(p)) \/ \E p \in Caller : OwnLoop(p)

(* Nor could they, in any program whose loop bodies use containers of a    *)
(* lower rank than the one they go over, or that one, as they do in        *)
(* file.go:54-57 and file_search.go:276-283.                               *)
BodiesDescend(rank) ==
  \A call \in Written :
    "body" \in DOMAIN call => call.body.on = call.on \/ rank[call.body.on] < rank[call.on]
=============================================================================
