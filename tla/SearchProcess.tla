--------------------------- MODULE SearchProcess ----------------------------
(***************************************************************************)
(* A file search at the node that started it (file_search.go): the         *)
(* goroutine newSearchProcess of each search, which asks with a doubled    *)
(* budget every second until it has two matches or the budget is spent,    *)
(* and a goroutine handleSearchReplies for every answer, which goes over   *)
(* keywordsTable and hands the answer to the searches it matches.          *)
(*                                                                         *)
(* The iterator of keywordsTable keeps that table's lock until its last    *)
(* entry is taken.  A round of requests reaches any peers, each of which   *)
(* answers any number of times, or not at all: a request handled again is  *)
(* answered again (SearchFlood models the flood), and UDP repeats.         *)
(***************************************************************************)
EXTENDS Integers, Sequences, FiniteSets

CONSTANTS
  Peer, File, None,
  Search,    \* calls of newSearchProcess
  Matches,   \* Matches[s]: file names the keywords of s match
  Start,     \* Start[s]: the budget that s begins with
  Limit,     \* 32, the budget that is not doubled any more
  Count,     \* Count[f]: chunks of a file named f
  Holds,     \* Holds[p][f]: chunks of f at p; a result lists them
  Meta,      \* Meta[p][f]: metahash of p's file named f
  MaxTasks,  \* bound: answers that are being handled at a time
  MaxAnswers \* bound: answers that come, to all searches

ASSUME NoneAssumption == None \notin Peer \cup Search
ASSUME BudgetAssumption == Limit \in Nat /\ MaxAnswers \in Nat /\ Start \in [Search -> Nat \ {0}]
ASSUME FileAssumption == /\ IsFiniteSet(File)
                         /\ Matches \in [Search -> SUBSET File]
                         /\ Count \in [File -> Nat \ {0}]
                         /\ \A p \in Peer : \A f \in File : Holds[p][f] \subseteq 1..Count[f]

VARIABLES
  alive,    \* the process has not panicked
  proc,     \* proc[s]: the goroutine newSearchProcess of s
  open,     \* searches with an open channel in searchProcessMap
  listed,   \* keywordsTable
  tasks,    \* goroutines handleSearchReplies
  results,  \* searchFileTable: results[f], None when there is no entry
  answers   \* answers that have come

vars == <<alive, proc, open, listed, tasks, results, answers>>

-----------------------------------------------------------------------------
Where(f) == [1..Count[f] -> Peer \cup {None}]       \* AvailableChunk

(* sFile: the metahash that came with the first result, and the chunks.    *)
Nowhere(f) == [meta |-> None, at |-> [i \in 1..Count[f] |-> None]]
IsFile(x, f) == x.at \in Where(f)

Task == [id : Nat, peer : Peer, of : Search, pc : {"iter", "visit", "get", "send"},
         rest : SUBSET Search, at : Search \cup {None}]

TypeOK ==
  /\ alive \in BOOLEAN
  /\ \A s \in Search :
       /\ proc[s].pc \in {"new", "hung", "list", "open", "run", "finish", "unlist",
                          "finished", "expired"}
       /\ proc[s].budget \in Nat /\ proc[s].round \in Nat
       /\ proc[s].complete \in Seq(File) /\ Len(proc[s].complete) <= 2
       /\ \A f \in File : IsFile(proc[s].found[f], f)
  /\ open \subseteq Search /\ listed \subseteq Search
  /\ tasks \subseteq Task
  /\ \A f \in File : results[f] = None \/ IsFile(results[f], f)
  /\ answers \in Nat

Init ==
  /\ alive = TRUE
  /\ proc = [s \in Search |-> [pc |-> "new", budget |-> Start[s], round |-> 0, complete |-> <<>>,
                               found |-> [f \in File |-> Nowhere(f)]]]
  /\ open = {} /\ listed = {} /\ tasks = {}
  /\ results = [f \in File |-> None]
  /\ answers = 0

-----------------------------------------------------------------------------
(* Helpers. *)

(* The lock of keywordsTable is free.                                      *)
KeywordsFree == \A t \in tasks : t.rest = {}

(* No other goroutine is inside searchProcessMap.Get, which holds the lock *)
(* of that map.                                                            *)
MapFree == \A t \in tasks : t.pc # "get"

(* Numbers for one more task. *)
Free == (1 .. MaxTasks) \ {t.id : t \in tasks}

(* Names in the answer of p to s, and what it says of them.                *)
Names(p, s) == {f \in Matches[s] : Holds[p][f] # {}}

Goto(s, pc) == proc' = [proc EXCEPT ![s].pc = pc]

(* t becomes u.                                                            *)
Become(t, u) == tasks' = (tasks \ {t}) \cup {u}

(* Mutant: the iterator does not close its channel. *)
OnwardUnclosed(t, rest) == Become(t, [t EXCEPT !.pc = "visit", !.rest = rest, !.at = None])

(* A task that has taken its last entry returns.                           *)
Onward(t, rest) ==
  tasks' = (tasks \ {t}) \cup
    (IF rest = {} THEN {} ELSE {[t EXCEPT !.pc = "visit", !.rest = rest, !.at = None]})

-----------------------------------------------------------------------------
(* newSearchProcess. *)

(* isDuplicate gets searchProcessMap by value, its lock included: a copy   *)
(* of a lock that is held is never unlocked.  The key is a new pointer, so *)
(* that the answer is always no.                                           *)
Check(s) ==
  /\ proc[s].pc = "new"
  /\ Goto(s, IF MapFree THEN "list" ELSE "hung")
  /\ UNCHANGED <<alive, open, listed, tasks, results, answers>>

ListKeywords(s) ==
  /\ proc[s].pc = "list" /\ KeywordsFree
  /\ listed' = listed \cup {s}
  /\ Goto(s, "open")
  /\ UNCHANGED <<alive, open, tasks, results, answers>>

(* Mutant: the search is not put into searchProcessMap. *)
OpenChannelUnset(s) ==
  /\ proc[s].pc = "open" /\ MapFree
  /\ proc' = [proc EXCEPT ![s].pc = "run", ![s].round = 1]
  /\ UNCHANGED <<alive, open, listed, tasks, results, answers>>

(* searchProcessMap.Set, and the first round.                              *)
OpenChannel(s) ==
  /\ proc[s].pc = "open" /\ MapFree
  /\ open' = open \cup {s}
  /\ proc' = [proc EXCEPT ![s].pc = "run", ![s].round = 1]
  /\ UNCHANGED <<alive, listed, tasks, results, answers>>

(* Mutant: the same budget is tried again and again. *)
TickSameBudget(s) ==
  /\ proc[s].pc = "run" /\ MapFree
  /\ IF Start[s] = 2 /\ proc[s].budget < Limit
     THEN UNCHANGED <<proc, open>>
     ELSE /\ Goto(s, "expired")
          /\ open' = open \ {s}
  /\ UNCHANGED <<alive, listed, tasks, results, answers>>

(* The ticker: another round, or the end without a result.  close and      *)
(* Delete are one step: a task panics in between as it does after them.    *)
Tick(s) ==
  /\ proc[s].pc = "run" /\ MapFree
  /\ IF Start[s] = 2 /\ proc[s].budget < Limit
     THEN /\ proc' = [proc EXCEPT ![s].budget = 2 * @, ![s].round = @ + 1]
          /\ UNCHANGED open
     ELSE /\ Goto(s, "expired")
          /\ open' = open \ {s}
  /\ UNCHANGED <<alive, listed, tasks, results, answers>>

(* The results of an answer are merged one by one, a chunk keeping the     *)
(* first peer that has it; every complete file counts, until there are     *)
(* two.                                                                    *)
Merged(found, p, f) ==
  [meta |-> IF found.meta = None THEN Meta[p][f] ELSE found.meta,
   at   |-> [i \in DOMAIN found.at |->
               IF i \in Holds[p][f] /\ found.at[i] = None THEN p ELSE found.at[i]]]

(* Mutant: one chunk is enough. *)
IsCompleteWithOne(x) == \E i \in DOMAIN x.at : x.at[i] # None

IsComplete(x) == \A i \in DOMAIN x.at : x.at[i] # None

Orders(S) == {q \in [1..Cardinality(S) -> S] : \A i, j \in DOMAIN q : q[i] = q[j] => i = j}

Receive(s, t) ==
  /\ proc[s].pc = "run" /\ t.pc = "send" /\ t.at = s
  /\ LET names    == Names(t.peer, t.of)
         found    == [f \in File |-> IF f \in names THEN Merged(proc[s].found[f], t.peer, f)
                                     ELSE proc[s].found[f]]
         whole    == {f \in names : IsComplete(found[f])}
     IN  \E order \in Orders(whole) :
           LET all == proc[s].complete \o order
               two == SubSeq(all, 1, IF Len(all) < 2 THEN Len(all) ELSE 2)
           IN  proc' = [proc EXCEPT ![s].found = found, ![s].complete = two,
                                    ![s].pc = IF Len(two) = 2 THEN "finish" ELSE "run"]
  /\ Onward(t, t.rest)
  /\ UNCHANGED <<alive, open, listed, results, answers>>

(* Two matches: searchFileTable gets them, the channel is closed and       *)
(* deleted; then the keywords are.                                         *)
Finish(s) ==
  /\ proc[s].pc = "finish" /\ MapFree
  /\ results' = [f \in File |-> IF \E i \in 1..2 : proc[s].complete[i] = f
                                THEN proc[s].found[f] ELSE results[f]]
  /\ open' = open \ {s}
  /\ Goto(s, "unlist")
  /\ UNCHANGED <<alive, listed, tasks, answers>>

Unlist(s) ==
  /\ proc[s].pc = "unlist" /\ KeywordsFree
  /\ listed' = listed \ {s}
  /\ Goto(s, "finished")
  /\ UNCHANGED <<alive, open, tasks, results, answers>>

-----------------------------------------------------------------------------
(* handleSearchReplies. *)

(* An answer of p to a round of s so far arrives, also after s ended.      *)
Arrive(s, p) ==
  /\ proc[s].round > 0 /\ Names(p, s) # {}
  /\ answers < MaxAnswers /\ answers' = answers + 1
  /\ \E id \in Free :
       /\ \A i \in Free : id <= i
       /\ tasks' = tasks \cup {[id |-> id, peer |-> p, of |-> s, pc |-> "iter",
                                rest |-> {}, at |-> None]}
  /\ UNCHANGED <<alive, proc, open, listed, results>>

Iterate(t) ==
  /\ t.pc = "iter" /\ KeywordsFree
  /\ Onward(t, listed)
  /\ UNCHANGED <<alive, proc, open, listed, results, answers>>

(* An entry whose pattern matches every name of the answer.                *)
Visit(t, s) ==
  /\ t.pc = "visit" /\ s \in t.rest
  /\ IF Names(t.peer, t.of) \subseteq Matches[s]
     THEN Become(t, [t EXCEPT !.pc = "get", !.rest = @ \ {s}, !.at = s])
     ELSE Onward(t, t.rest \ {s})
  /\ UNCHANGED <<alive, proc, open, listed, results, answers>>

(* searchProcessMap.Get: nil is no channel, and the process panics.        *)
GetChannel(t) ==
  /\ t.pc = "get"
  /\ Become(t, [t EXCEPT !.pc = "send"])
  /\ alive' = (t.at \in open)
  /\ UNCHANGED <<proc, open, listed, results, answers>>

(* A send on a closed channel panics.                                      *)
SendClosed(t) ==
  /\ t.pc = "send" /\ t.at \notin open
  /\ alive' = FALSE
  /\ UNCHANGED <<proc, open, listed, tasks, results, answers>>

-----------------------------------------------------------------------------
SearchStep(s) == \/ Check(s) \/ ListKeywords(s) \/ OpenChannel(s) \/ Tick(s)
                 \/ Finish(s) \/ Unlist(s)

TaskStep == \E t \in tasks : \/ Iterate(t)
                             \/ \E s \in Search : Visit(t, s) \/ Receive(s, t)
                             \/ GetChannel(t) \/ SendClosed(t)

Next == /\ alive
        /\ \/ \E s \in Search : SearchStep(s)
           \/ \E s \in Search, p \in Peer : Arrive(s, p)
           \/ TaskStep

Spec == Init /\ [][Next]_vars

(* Goroutines are scheduled and tickers fire; a peer need not answer.      *)
FairSpec == /\ Spec
            /\ \A s \in Search : WF_vars(alive /\ SearchStep(s))
            /\ WF_vars(alive /\ TaskStep)

-----------------------------------------------------------------------------
(* Properties. *)

(* A file that a search has found can be downloaded: every chunk is at the *)
(* peer it will be asked of, when files of one name are the same file      *)
(* (file_search.go:212-240, main.go:376-384).  The state keeps its types.  *)
FoundIsWhole ==
  /\ TypeOK
  /\ \A f \in File : results[f] # None =>
       \A i \in 1..Count[f] : LET from == results[f].at[i]
                              IN  /\ from # None /\ i \in Holds[from][f]
                                  /\ Meta[from][f] = results[f].meta

(* An answer finds its searches with open channels, unless one of them is  *)
(* between its two registrations or has closed its channel: only then may  *)
(* the process panic (file_search.go:188-195, 257-266, 283).               *)
AnswerFindsChannel ==
  alive \/ \E s \in Search : proc[s].pc \in {"open", "unlist", "finished", "expired"}

(* Every search ends, by two matches or by its budget, whether or not any  *)
(* peer answers, and nothing keeps keywordsTable locked; or the process    *)
(* panics, or the search has copied a lock that was held (its duplicate    *)
(* check, file_search.go:182).                                             *)
SearchEnds ==
  /\ \A s \in Search : <>(~alive \/ proc[s].pc \in {"finished", "expired", "hung"})
  /\ <>[](~alive \/ tasks = {})
=============================================================================
