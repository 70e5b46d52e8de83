------------------------- MODULE SearchProcessProofs --------------------------
(***************************************************************************)
(* What a search guarantees for any peers, files, searches and number of   *)
(* answers under way: what it found can be downloaded, and an answer finds *)
(* no channel only where the code leaves a gap.  And what a loop over a    *)
(* container guarantees that searches and downloads share.                 *)
(***************************************************************************)
EXTENDS SearchProcess, SharedState, FiniteSetTheorems, SequenceTheorems, WellFoundedInduction,
        TLAPS

Pcs == {"new", "hung", "list", "open", "run", "finish", "unlist", "finished", "expired"}

(* The records of searches keep their fields.                              *)
ProcShape ==
  /\ DOMAIN proc = Search
  /\ \A s \in Search :
       /\ DOMAIN proc[s] = {"pc", "budget", "round", "complete", "found"}
       /\ proc[s].pc \in Pcs
       /\ proc[s].budget \in Nat /\ proc[s].round \in Nat
       /\ proc[s].complete \in Seq(File) /\ Len(proc[s].complete) <= 2
       /\ DOMAIN proc[s].found = File
       /\ \A f \in File : IsFile(proc[s].found[f], f)

Rest == /\ alive \in BOOLEAN
        /\ open \subseteq Search /\ listed \subseteq Search
        /\ tasks \subseteq Task
        /\ answers \in Nat

(* The two registrations of a search, as its goroutine goes along.         *)
Registered(s)   == proc[s].pc \notin {"new", "hung", "list"}
Registrations ==
  /\ \A s \in Search : s \in open <=> proc[s].pc \in {"run", "finish"}
  /\ \A s \in listed : Registered(s)
  /\ \A t \in tasks : /\ \A s \in t.rest : Registered(s)
                      /\ t.pc \in {"get", "send"} => t.at \in Search /\ Registered(t.at)
  /\ AnswerFindsChannel

(* Files of one name are the same file.                                    *)
SameFile == \A p, q \in Peer : \A f \in File : Meta[p][f] = Meta[q][f]

(* The chunks of x are at the peers noted for them; and its metahash is    *)
(* that of every peer's file.                                              *)
AtHolders(x, f) ==
  /\ \A i \in 1 .. Count[f] : x.at[i] # None => x.at[i] \in Peer /\ i \in Holds[x.at[i]][f]
  /\ SameFile =>
       /\ x.meta # None => \A p \in Peer : Meta[p][f] = x.meta
       /\ \A i \in 1 .. Count[f] : x.at[i] # None => Meta[x.at[i]][f] = x.meta

(* What a search has gathered, its complete files, and the results.        *)
Gathered ==
  /\ \A s \in Search :
       /\ \A f \in File : AtHolders(proc[s].found[f], f)
       /\ \A i \in 1 .. Len(proc[s].complete) :
            IsComplete(proc[s].found[proc[s].complete[i]])
       /\ proc[s].pc = "finish" => Len(proc[s].complete) = 2
  /\ \A f \in File : results[f] # None =>
       IsFile(results[f], f) /\ IsComplete(results[f]) /\ AtHolders(results[f], f)

SearchInv == ProcShape /\ Rest /\ Registrations /\ Gathered

-----------------------------------------------------------------------------
(* Records. *)

LEMMA GotoShape ==
  ASSUME ProcShape, NEW s \in Search, NEW pc \in Pcs, Goto(s, pc)
  PROVE  /\ ProcShape'
         /\ proc'[s].pc = pc
         /\ \A x \in Search : x # s => proc'[x] = proc[x]
         /\ \A x \in Search : /\ proc'[x].found = proc[x].found
                              /\ proc'[x].complete = proc[x].complete
<1>1. /\ proc' = [proc EXCEPT ![s] = [proc[s] EXCEPT !.pc = pc]]
      /\ DOMAIN proc = Search
      /\ DOMAIN proc[s] = {"pc", "budget", "round", "complete", "found"}
  BY DEF Goto, ProcShape
<1>2. /\ DOMAIN proc' = Search
      /\ proc'[s] = [proc[s] EXCEPT !.pc = pc]
      /\ \A x \in Search : x # s => proc'[x] = proc[x]
  BY <1>1
<1>3. /\ DOMAIN proc'[s] = {"pc", "budget", "round", "complete", "found"}
      /\ proc'[s].pc = pc /\ proc'[s].budget = proc[s].budget
      /\ proc'[s].round = proc[s].round /\ proc'[s].complete = proc[s].complete
      /\ proc'[s].found = proc[s].found
  BY <1>1, <1>2
<1>4. ProcShape'
  BY <1>2, <1>3 DEF ProcShape, IsFile, Where
<1> QED
  BY <1>2, <1>3, <1>4

(* The same for a step that also sets the budget or the round.             *)
LEMMA RunShape ==
  ASSUME ProcShape, NEW s \in Search, NEW budget \in Nat, NEW round \in Nat,
         proc' = [proc EXCEPT ![s] = [proc[s] EXCEPT !.pc = "run", !.budget = budget,
                                                     !.round = round]]
  PROVE  /\ ProcShape'
         /\ proc'[s].pc = "run"
         /\ \A x \in Search : x # s => proc'[x] = proc[x]
         /\ \A x \in Search : /\ proc'[x].found = proc[x].found
                              /\ proc'[x].complete = proc[x].complete
<1>1. /\ DOMAIN proc = Search
      /\ DOMAIN proc[s] = {"pc", "budget", "round", "complete", "found"}
  BY DEF ProcShape
<1>2. /\ DOMAIN proc' = Search
      /\ proc'[s] = [proc[s] EXCEPT !.pc = "run", !.budget = budget, !.round = round]
      /\ \A x \in Search : x # s => proc'[x] = proc[x]
  BY <1>1
<1>3. /\ DOMAIN proc'[s] = {"pc", "budget", "round", "complete", "found"}
      /\ proc'[s].pc = "run" /\ proc'[s].budget = budget
      /\ proc'[s].round = round /\ proc'[s].complete = proc[s].complete
      /\ proc'[s].found = proc[s].found
  BY <1>1, <1>2
<1>4. ProcShape'
  BY <1>2, <1>3 DEF ProcShape, IsFile, Where, Pcs
<1> QED
  BY <1>2, <1>3, <1>4

(* Nothing is gathered in a step that leaves found and complete alone.     *)
LEMMA GatheredKept ==
  ASSUME SearchInv, UNCHANGED results,
         \A x \in Search : /\ proc'[x].found = proc[x].found
                           /\ proc'[x].complete = proc[x].complete
                           /\ proc'[x].pc = "finish" => proc[x].pc = "finish"
  PROVE  Gathered'
BY DEF SearchInv, Gathered

(* The registrations after a step of the goroutine of s.                   *)
LEMMA RegistrationsAfter ==
  ASSUME SearchInv, NEW s \in Search, alive', UNCHANGED tasks,
         \A x \in Search : x # s => proc'[x] = proc[x],
         Registered(s) => Registered(s)',
         \A x \in Search : x # s => (x \in open' <=> x \in open),
         s \in open' <=> proc'[s].pc \in {"run", "finish"},
         listed' \subseteq listed \cup {s}, s \in listed' => Registered(s)'
  PROVE  Registrations'
<1>1. \A x \in Search : Registered(x) => Registered(x)'
  BY DEF Registered
<1>2. \A x \in Search : x \in open' <=> proc'[x].pc \in {"run", "finish"}
  BY DEF SearchInv, Registrations
<1>3. \A x \in listed' : Registered(x)'
  BY <1>1 DEF SearchInv, Registrations, Rest
<1>4. \A t \in tasks' : /\ \A x \in t.rest : Registered(x)'
                        /\ t.pc \in {"get", "send"} => t.at \in Search /\ Registered(t.at)'
  BY <1>1 DEF SearchInv, Registrations, Rest, Task
<1> QED
  BY <1>2, <1>3, <1>4 DEF Registrations, AnswerFindsChannel

-----------------------------------------------------------------------------
(* newSearchProcess. *)

LEMMA CheckKeeps ==
  ASSUME SearchInv, alive, NEW s \in Search, Check(s)
  PROVE  SearchInv'
<1>1. PICK pc \in {"list", "hung"} : Goto(s, pc)
  BY DEF Check
<1>2. /\ ProcShape' /\ proc'[s].pc = pc /\ proc[s].pc = "new"
      /\ \A x \in Search : x # s => proc'[x] = proc[x]
      /\ \A x \in Search : proc'[x].found = proc[x].found /\ proc'[x].complete = proc[x].complete
  BY <1>1, GotoShape DEF SearchInv, Check, Pcs
<1>3. UNCHANGED <<alive, open, listed, tasks, results, answers>>
  BY DEF Check
<1>4. Gathered'
  BY <1>1, <1>2, <1>3, GatheredKept
<1>5. s \notin open /\ s \notin listed /\ ~Registered(s)
  BY <1>2 DEF SearchInv, Registrations, Registered
<1>6. Registrations'
  BY <1>1, <1>2, <1>3, <1>5, RegistrationsAfter
<1> QED
  BY <1>2, <1>3, <1>4, <1>6 DEF SearchInv, Rest

LEMMA ListKeywordsKeeps ==
  ASSUME SearchInv, alive, NEW s \in Search, ListKeywords(s)
  PROVE  SearchInv'
<1>1. Goto(s, "open") /\ proc[s].pc = "list" /\ listed' = listed \cup {s}
  BY DEF ListKeywords
<1>2. /\ ProcShape' /\ proc'[s].pc = "open"
      /\ \A x \in Search : x # s => proc'[x] = proc[x]
      /\ \A x \in Search : proc'[x].found = proc[x].found /\ proc'[x].complete = proc[x].complete
  BY <1>1, GotoShape DEF SearchInv, Pcs
<1>3. UNCHANGED <<alive, open, tasks, results, answers>>
  BY DEF ListKeywords
<1>4. Gathered'
  BY <1>2, <1>3, GatheredKept
<1>5. s \notin open /\ Registered(s)'
  BY <1>1, <1>2 DEF SearchInv, Registrations, Registered
<1>6. Registrations'
  BY <1>1, <1>2, <1>3, <1>5, RegistrationsAfter
<1> QED
  BY <1>1, <1>2, <1>3, <1>4, <1>6 DEF SearchInv, Rest

LEMMA OpenChannelKeeps ==
  ASSUME SearchInv, alive, NEW s \in Search, OpenChannel(s)
  PROVE  SearchInv'
<1>1. /\ proc[s].pc = "open" /\ open' = open \cup {s}
      /\ proc' = [proc EXCEPT ![s] = [proc[s] EXCEPT !.pc = "run", !.budget = proc[s].budget, !.round = 1]]
  <2>1. /\ DOMAIN proc = Search
        /\ DOMAIN proc[s] = {"pc", "budget", "round", "complete", "found"}
    BY DEF SearchInv, ProcShape
  <2>2. proc' = [proc EXCEPT ![s] = [proc[s] EXCEPT !.pc = "run", !.round = 1]]
    BY <2>1 DEF OpenChannel
  <2>3. [proc[s] EXCEPT !.pc = "run", !.budget = proc[s].budget, !.round = 1]
        = [proc[s] EXCEPT !.pc = "run", !.round = 1]
    BY <2>1
  <2> QED
    BY <2>2, <2>3 DEF OpenChannel
<1>2. /\ ProcShape' /\ proc'[s].pc = "run"
      /\ \A x \in Search : x # s => proc'[x] = proc[x]
      /\ \A x \in Search : proc'[x].found = proc[x].found /\ proc'[x].complete = proc[x].complete
  BY <1>1, RunShape DEF SearchInv, ProcShape
<1>3. UNCHANGED <<alive, listed, tasks, results, answers>>
  BY DEF OpenChannel
<1>4. Gathered'
  BY <1>2, <1>3, GatheredKept
<1>5. Registered(s)'
  BY <1>2 DEF Registered
<1>6. Registrations'
  BY <1>1, <1>2, <1>3, <1>5, RegistrationsAfter
<1> QED
  BY <1>1, <1>2, <1>3, <1>4, <1>6 DEF SearchInv, Rest

LEMMA TickKeeps ==
  ASSUME SearchInv, alive, NEW s \in Search, Tick(s)
  PROVE  SearchInv'
<1>1. proc[s].pc = "run" /\ UNCHANGED <<alive, listed, tasks, results, answers>>
  BY DEF Tick
<1>2. /\ ProcShape' /\ (s \in open' <=> proc'[s].pc = "run")
      /\ proc'[s].pc \in {"run", "expired"}
      /\ open' \subseteq open /\ \A x \in Search : x # s => (x \in open' <=> x \in open)
      /\ \A x \in Search : x # s => proc'[x] = proc[x]
      /\ \A x \in Search : proc'[x].found = proc[x].found /\ proc'[x].complete = proc[x].complete
  <2>1. s \in open
    BY <1>1 DEF SearchInv, Registrations
  <2>2. CASE Start[s] = 2 /\ proc[s].budget < Limit
    <3> PICK budget \in Nat : budget = 2 * proc[s].budget
      BY DEF SearchInv, ProcShape
    <3> PICK round \in Nat : round = proc[s].round + 1
      BY DEF SearchInv, ProcShape
    <3>1. /\ DOMAIN proc = Search
          /\ DOMAIN proc[s] = {"pc", "budget", "round", "complete", "found"}
      BY DEF SearchInv, ProcShape
    <3>2. proc' = [proc EXCEPT ![s] = [proc[s] EXCEPT !.budget = budget, !.round = round]]
      BY <2>2, <3>1 DEF Tick
    <3>3. [proc[s] EXCEPT !.pc = "run", !.budget = budget, !.round = round]
          = [proc[s] EXCEPT !.budget = budget, !.round = round]
      BY <3>1, <1>1
    <3>4. proc' = [proc EXCEPT ![s] = [proc[s] EXCEPT !.pc = "run", !.budget = budget, !.round = round]]
      BY <3>2, <3>3
    <3>5. open' = open
      BY <2>2 DEF Tick
    <3> QED
      BY <2>1, <3>4, <3>5, RunShape DEF SearchInv
  <2>3. CASE ~(Start[s] = 2 /\ proc[s].budget < Limit)
    <3>1. Goto(s, "expired") /\ open' = open \ {s}
      BY <2>3 DEF Tick
    <3> QED
      BY <3>1, GotoShape DEF SearchInv, Pcs
  <2> QED
    BY <2>2, <2>3
<1>3. Gathered'
  BY <1>1, <1>2, GatheredKept
<1>4. Registered(s)'
  BY <1>2 DEF Registered
<1>5. Registrations'
  BY <1>1, <1>2, <1>4, RegistrationsAfter
<1> QED
  BY <1>1, <1>2, <1>3, <1>5 DEF SearchInv, Rest

LEMMA UnlistKeeps ==
  ASSUME SearchInv, alive, NEW s \in Search, Unlist(s)
  PROVE  SearchInv'
<1>1. Goto(s, "finished") /\ proc[s].pc = "unlist" /\ listed' = listed \ {s}
  BY DEF Unlist
<1>2. /\ ProcShape' /\ proc'[s].pc = "finished"
      /\ \A x \in Search : x # s => proc'[x] = proc[x]
      /\ \A x \in Search : proc'[x].found = proc[x].found /\ proc'[x].complete = proc[x].complete
  BY <1>1, GotoShape DEF SearchInv, Pcs
<1>3. UNCHANGED <<alive, open, tasks, results, answers>>
  BY DEF Unlist
<1>4. Gathered'
  BY <1>2, <1>3, GatheredKept
<1>5. s \notin open /\ Registered(s)'
  BY <1>1, <1>2 DEF SearchInv, Registrations, Registered
<1>6. Registrations'
  BY <1>1, <1>2, <1>3, <1>5, RegistrationsAfter
<1> QED
  BY <1>1, <1>2, <1>3, <1>4, <1>6 DEF SearchInv, Rest

LEMMA FinishKeeps ==
  ASSUME SearchInv, alive, NEW s \in Search, Finish(s)
  PROVE  SearchInv'
<1>1. Goto(s, "unlist") /\ proc[s].pc = "finish" /\ open' = open \ {s}
  BY DEF Finish
<1>2. /\ ProcShape' /\ proc'[s].pc = "unlist"
      /\ \A x \in Search : x # s => proc'[x] = proc[x]
      /\ \A x \in Search : proc'[x].found = proc[x].found /\ proc'[x].complete = proc[x].complete
  BY <1>1, GotoShape DEF SearchInv, Pcs
<1>3. UNCHANGED <<alive, listed, tasks, answers>>
  BY DEF Finish
<1>4. Gathered'
  <2>1. \A x \in Search :
          /\ \A f \in File : AtHolders(proc'[x].found[f], f)
          /\ \A i \in 1 .. Len(proc'[x].complete) :
               IsComplete(proc'[x].found[proc'[x].complete[i]])
          /\ proc'[x].pc = "finish" => Len(proc'[x].complete) = 2
    BY <1>1, <1>2 DEF SearchInv, Gathered
  <2>2. ASSUME NEW f \in File, results'[f] # None
        PROVE  /\ IsFile(results'[f], f) /\ IsComplete(results'[f]) /\ AtHolders(results'[f], f)
    <3>1. CASE \E i \in 1 .. 2 : proc[s].complete[i] = f
      <4>1. results'[f] = proc[s].found[f]
        BY <3>1 DEF Finish
      <4>2. IsComplete(proc[s].found[f])
        BY <1>1, <3>1 DEF SearchInv, Gathered
      <4> QED
        BY <4>1, <4>2 DEF SearchInv, Gathered, ProcShape
    <3>2. CASE ~\E i \in 1 .. 2 : proc[s].complete[i] = f
      <4>1. results'[f] = results[f]
        BY <3>2 DEF Finish
      <4> QED
        BY <4>1, <2>2 DEF SearchInv, Gathered
    <3> QED
      BY <3>1, <3>2
  <2> QED
    BY <2>1, <2>2 DEF Gathered
<1>5. s \notin open' /\ Registered(s)' /\ \A x \in Search : x # s => (x \in open' <=> x \in open)
  BY <1>1, <1>2 DEF Registered
<1>6. Registrations'
  BY <1>1, <1>2, <1>3, <1>5, RegistrationsAfter
<1> QED
  BY <1>1, <1>2, <1>3, <1>4, <1>6 DEF SearchInv, Rest

-----------------------------------------------------------------------------
(* Tasks. *)

(* What holds of a task that goes over keywordsTable.                      *)
TaskOK(u) ==
  /\ u \in Task
  /\ \A x \in u.rest : Registered(x)
  /\ u.pc \in {"get", "send"} => u.at \in Search /\ Registered(u.at)

LEMMA TasksAreOK ==
  ASSUME SearchInv, NEW t \in tasks
  PROVE  TaskOK(t)
BY DEF SearchInv, Rest, Registrations, TaskOK

(* A task t goes on as a task that is in order, or is gone.                *)
LEMMA TaskMoves ==
  ASSUME SearchInv, NEW t \in tasks,
         \A u \in tasks' : u \in tasks \/ TaskOK(u),
         UNCHANGED <<proc, open, listed, results, answers>>, alive' \in BOOLEAN,
         AnswerFindsChannel'
  PROVE  SearchInv'
<1>1. tasks' \subseteq Task
  BY DEF SearchInv, Rest, TaskOK
<1>2. ProcShape'
  BY DEF SearchInv, ProcShape
<1>3. Rest'
  BY <1>1 DEF SearchInv, Rest
<1>4. Gathered'
  BY DEF SearchInv, Gathered
<1>5. \A x \in Search : Registered(x)' <=> Registered(x)
  BY DEF Registered
<1>6. \A u \in tasks' : /\ \A x \in u.rest : Registered(x)'
                        /\ u.pc \in {"get", "send"} => u.at \in Search /\ Registered(u.at)'
  BY <1>1, <1>5, TasksAreOK DEF TaskOK, Task
<1>7. /\ \A x \in Search : x \in open' <=> proc'[x].pc \in {"run", "finish"}
      /\ \A x \in listed' : Registered(x)'
  BY <1>5 DEF SearchInv, Registrations, Rest
<1> QED
  BY <1>2, <1>3, <1>4, <1>6, <1>7 DEF SearchInv, Registrations

LEMMA OnwardOK ==
  ASSUME NEW t \in tasks, TaskOK(t), NEW rest, rest \subseteq Search,
         \A x \in rest : Registered(x), Onward(t, rest)
  PROVE  \A u \in tasks' : u \in tasks \/ TaskOK(u)
<1> SUFFICES ASSUME NEW u \in tasks', u \notin tasks PROVE TaskOK(u)
  OBVIOUS
<1>1. u = [t EXCEPT !.pc = "visit", !.rest = rest, !.at = None]
  BY DEF Onward
<1>2. u \in Task /\ u.rest = rest /\ u.pc = "visit"
  BY <1>1 DEF TaskOK, Task
<1> QED
  BY <1>2 DEF TaskOK

LEMMA ArriveKeeps ==
  ASSUME SearchInv, alive, NEW s \in Search, NEW p \in Peer, Arrive(s, p)
  PROVE  SearchInv'
<1>1. PICK id \in Free :
        /\ answers' = answers + 1
        /\ tasks' = tasks \cup {[id |-> id, peer |-> p, of |-> s, pc |-> "iter",
                                 rest |-> {}, at |-> None]}
  BY DEF Arrive
<1>2. answers \in Nat
  BY DEF SearchInv, Rest
<1>3. id \in Nat
  BY DEF Free
<1> DEFINE new == [id |-> id, peer |-> p, of |-> s, pc |-> "iter", rest |-> {}, at |-> None]
<1>4. new \in Task /\ new.rest = {} /\ new.pc = "iter"
  BY <1>3 DEF Task
<1>5. UNCHANGED <<alive, proc, open, listed, results>> /\ tasks' = tasks \cup {new}
  BY <1>1 DEF Arrive
<1> HIDE DEF new
<1>6. ProcShape' /\ Gathered'
  BY <1>5 DEF SearchInv, ProcShape, Gathered
<1>7. Rest'
  BY <1>1, <1>2, <1>4, <1>5 DEF SearchInv, Rest
<1>8. \A x \in Search : Registered(x)' <=> Registered(x)
  BY <1>5 DEF Registered
<1>9. Registrations'
  BY <1>4, <1>5, <1>8 DEF SearchInv, Rest, Registrations, AnswerFindsChannel, Task
<1> QED
  BY <1>6, <1>7, <1>9 DEF SearchInv

LEMMA IterateKeeps ==
  ASSUME SearchInv, alive, NEW t \in tasks, Iterate(t)
  PROVE  SearchInv'
<1>1. listed \subseteq Search /\ \A x \in listed : Registered(x)
  BY DEF SearchInv, Rest, Registrations
<1>2. \A u \in tasks' : u \in tasks \/ TaskOK(u)
  BY <1>1, TasksAreOK, OnwardOK DEF Iterate
<1>3. /\ UNCHANGED <<proc, open, listed, results, answers>> /\ alive' \in BOOLEAN
      /\ AnswerFindsChannel'
  BY DEF Iterate, AnswerFindsChannel
<1> QED
  BY <1>2, <1>3, TaskMoves

LEMMA VisitKeeps ==
  ASSUME SearchInv, alive, NEW t \in tasks, NEW s \in Search, Visit(t, s)
  PROVE  SearchInv'
<1>1. TaskOK(t) /\ s \in t.rest
  BY TasksAreOK DEF Visit
<1>2. t.rest \ {s} \subseteq Search /\ \A x \in t.rest : Registered(x)
  BY <1>1 DEF TaskOK, Task
<1>3. \A u \in tasks' : u \in tasks \/ TaskOK(u)
  <2>1. CASE Become(t, [t EXCEPT !.pc = "get", !.rest = @ \ {s}, !.at = s])
    <3> SUFFICES ASSUME NEW u \in tasks', u \notin tasks PROVE TaskOK(u)
      OBVIOUS
    <3>1. u = [t EXCEPT !.pc = "get", !.rest = t.rest \ {s}, !.at = s]
      BY <2>1 DEF Become
    <3>2. u \in Task /\ u.rest = t.rest \ {s} /\ u.at = s
      BY <3>1, <1>1 DEF TaskOK, Task
    <3> QED
      BY <3>2, <1>1, <1>2 DEF TaskOK
  <2>2. CASE Onward(t, t.rest \ {s})
    BY <2>2, <1>1, <1>2, OnwardOK
  <2> QED
    BY <2>1, <2>2 DEF Visit
<1>4. /\ UNCHANGED <<proc, open, listed, results, answers>> /\ alive' \in BOOLEAN
      /\ AnswerFindsChannel'
  BY DEF Visit, AnswerFindsChannel
<1> QED
  BY <1>3, <1>4, TaskMoves

(* A search without a channel is between its registrations, or at an end.  *)
LEMMA NoChannel ==
  ASSUME SearchInv, NEW s \in Search, Registered(s), s \notin open
  PROVE  proc[s].pc \in {"open", "unlist", "finished", "expired"}
BY DEF SearchInv, ProcShape, Pcs, Registrations, Registered

LEMMA GetChannelKeeps ==
  ASSUME SearchInv, alive, NEW t \in tasks, GetChannel(t)
  PROVE  SearchInv'
<1>1. TaskOK(t) /\ t.pc = "get"
  BY TasksAreOK DEF GetChannel
<1>2. \A u \in tasks' : u \in tasks \/ TaskOK(u)
  <2> SUFFICES ASSUME NEW u \in tasks', u \notin tasks PROVE TaskOK(u)
    OBVIOUS
  <2>1. u = [t EXCEPT !.pc = "send"]
    BY DEF GetChannel, Become
  <2>2. u \in Task /\ u.rest = t.rest /\ u.at = t.at
    BY <2>1, <1>1 DEF TaskOK, Task
  <2> QED
    BY <2>2, <1>1 DEF TaskOK
<1>3. UNCHANGED <<proc, open, listed, results, answers>> /\ alive' = (t.at \in open)
  BY DEF GetChannel
<1>4. AnswerFindsChannel'
  <2>1. t.at \in Search /\ Registered(t.at)
    BY <1>1 DEF TaskOK
  <2> QED
    BY <1>3, <2>1, NoChannel DEF AnswerFindsChannel
<1> QED
  BY <1>2, <1>3, <1>4, TaskMoves

LEMMA SendClosedKeeps ==
  ASSUME SearchInv, alive, NEW t \in tasks, SendClosed(t)
  PROVE  SearchInv'
<1>1. /\ UNCHANGED <<proc, open, listed, tasks, results, answers>> /\ alive' = FALSE
      /\ t.pc = "send" /\ t.at \notin open
  BY DEF SendClosed
<1>2. t.at \in Search /\ Registered(t.at)
  BY <1>1, TasksAreOK DEF TaskOK
<1>3. AnswerFindsChannel'
  BY <1>1, <1>2, NoChannel DEF AnswerFindsChannel
<1>4. \A u \in tasks' : u \in tasks \/ TaskOK(u)
  BY <1>1
<1> QED
  BY <1>1, <1>3, <1>4, TaskMoves

-----------------------------------------------------------------------------
(* An answer that a search takes. *)

LEMMA MergedFile ==
  ASSUME NEW f \in File, NEW p \in Peer, NEW x, IsFile(x, f), AtHolders(x, f)
  PROVE  /\ IsFile(Merged(x, p, f), f)
         /\ AtHolders(Merged(x, p, f), f)
         /\ IsComplete(x) => IsComplete(Merged(x, p, f))
<1>1. DOMAIN x.at = 1 .. Count[f] /\ \A i \in 1 .. Count[f] : x.at[i] \in Peer \cup {None}
  BY DEF IsFile, Where
<1> PICK y : y = Merged(x, p, f)
  OBVIOUS
<1>2. /\ DOMAIN y.at = 1 .. Count[f]
      /\ \A i \in 1 .. Count[f] : y.at[i] = IF i \in Holds[p][f] /\ x.at[i] = None THEN p ELSE x.at[i]
      /\ y.at = [i \in 1 .. Count[f] |-> IF i \in Holds[p][f] /\ x.at[i] = None THEN p ELSE x.at[i]]
      /\ y.meta = IF x.meta = None THEN Meta[p][f] ELSE x.meta
  BY <1>1 DEF Merged
<1>3. IsFile(y, f)
  BY <1>1, <1>2 DEF IsFile, Where
<1>4. AtHolders(y, f)
  <2>1. ASSUME NEW i \in 1 .. Count[f], y.at[i] # None
        PROVE  y.at[i] \in Peer /\ i \in Holds[y.at[i]][f]
    BY <1>2, <2>1 DEF AtHolders
  <2>2. ASSUME SameFile
        PROVE  /\ y.meta # None => \A q \in Peer : Meta[q][f] = y.meta
               /\ Meta[p][f] = y.meta
    BY <1>2, <2>2 DEF AtHolders, SameFile
  <2>3. ASSUME SameFile, NEW i \in 1 .. Count[f], y.at[i] # None
        PROVE  Meta[y.at[i]][f] = y.meta
    BY <1>2, <2>1, <2>2, <2>3 DEF AtHolders, SameFile
  <2> QED
    BY <2>1, <2>2, <2>3 DEF AtHolders
<1>5. IsComplete(x) => IsComplete(y)
  BY <1>1, <1>2 DEF IsComplete
<1> QED
  BY <1>3, <1>4, <1>5

LEMMA OrdersAreSequences ==
  ASSUME NEW S, S \subseteq File, NEW order \in Orders(S)
  PROVE  order \in Seq(S)
<1>1. IsFiniteSet(S)
  BY FileAssumption, FS_Subset
<1>2. Cardinality(S) \in Nat
  BY <1>1, FS_CardinalityType
<1>3. order \in [1 .. Cardinality(S) -> S]
  BY DEF Orders
<1> QED
  BY <1>2, <1>3

(* The first two, at most, of the complete files before and now.           *)
TwoOf(all) == SubSeq(all, 1, IF Len(all) < 2 THEN Len(all) ELSE 2)

LEMMA FirstTwo ==
  ASSUME NEW S, NEW old \in Seq(S), NEW T \in SUBSET S, NEW order \in Seq(T)
  PROVE  /\ TwoOf(old \o order) \in Seq(S) /\ Len(TwoOf(old \o order)) <= 2
         /\ \A i \in 1 .. Len(TwoOf(old \o order)) :
              \/ \E j \in 1 .. Len(old) : TwoOf(old \o order)[i] = old[j]
              \/ TwoOf(old \o order)[i] \in T
<1> PICK all : all = old \o order
  OBVIOUS
<1> PICK two : two = TwoOf(all)
  OBVIOUS
<1>1. order \in Seq(S) /\ \A i \in 1 .. Len(order) : order[i] \in T
  OBVIOUS
<1>2. /\ all \in Seq(S) /\ Len(all) = Len(old) + Len(order)
      /\ \A i \in 1 .. Len(old) : all[i] = old[i]
      /\ \A i \in Len(old) + 1 .. Len(all) : all[i] = order[i - Len(old)]
  BY <1>1
<1> PICK l \in 0 .. 2 : l = (IF Len(all) < 2 THEN Len(all) ELSE 2) /\ l <= Len(all)
  BY <1>2
<1>3. two \in Seq(S) /\ Len(two) = l /\ \A i \in 1 .. l : two[i] = all[i]
  BY <1>2 DEF TwoOf
<1>4. ASSUME NEW i \in 1 .. l
      PROVE  (\E j \in 1 .. Len(old) : all[i] = old[j]) \/ all[i] \in T
  <2>1. CASE i <= Len(old)
    BY <2>1, <1>2
  <2>2. CASE ~(i <= Len(old))
    <3>1. i \in Len(old) + 1 .. Len(all) /\ i - Len(old) \in 1 .. Len(order)
      BY <2>2, <1>2
    <3> QED
      BY <3>1, <1>1, <1>2
  <2> QED
    BY <2>1, <2>2
<1>5. /\ two \in Seq(S) /\ Len(two) <= 2
      /\ \A i \in 1 .. Len(two) : \/ \E j \in 1 .. Len(old) : two[i] = old[j]
                                  \/ two[i] \in T
  BY <1>3, <1>4, SMTT(30)
<1> QED
  BY <1>5

LEMMA ReceiveKeeps ==
  ASSUME SearchInv, alive, NEW t \in tasks, NEW s \in Search, Receive(s, t)
  PROVE  SearchInv'
<1>1. TaskOK(t) /\ t.pc = "send" /\ t.at = s /\ proc[s].pc = "run" /\ t.peer \in Peer /\ t.of \in Search
  BY TasksAreOK DEF Receive, TaskOK, Task
<1>2. Names(t.peer, t.of) \subseteq File
  BY <1>1, FileAssumption DEF Names
<1> DEFINE names == Names(t.peer, t.of)
           found == [f \in File |-> IF f \in names THEN Merged(proc[s].found[f], t.peer, f)
                                    ELSE proc[s].found[f]]
           whole == {f \in names : IsComplete(found[f])}
<1>3. PICK order \in Orders(whole) :
        proc' = [proc EXCEPT ![s].found = found,
                             ![s].complete = TwoOf(proc[s].complete \o order),
                             ![s].pc = IF Len(TwoOf(proc[s].complete \o order)) = 2
                                       THEN "finish" ELSE "run"]
  BY DEF Receive, TwoOf
<1> DEFINE two == TwoOf(proc[s].complete \o order)
<1>0. /\ DOMAIN found = File
      /\ \A f \in File : \/ found[f] = Merged(proc[s].found[f], t.peer, f)
                          \/ found[f] = proc[s].found[f]
      /\ whole \subseteq File /\ \A f \in whole : IsComplete(found[f])
  BY <1>2
<1> HIDE DEF names, found, whole
<1>4. /\ two \in Seq(File) /\ Len(two) <= 2
      /\ \A i \in 1 .. Len(two) : \/ \E j \in 1 .. Len(proc[s].complete) : two[i] = proc[s].complete[j]
                                  \/ two[i] \in whole
  <2>1. proc[s].complete \in Seq(File) /\ whole \subseteq File
    BY <1>0 DEF SearchInv, ProcShape
  <2>2. order \in Seq(whole)
    BY <2>1, OrdersAreSequences
  <2> QED
    BY <2>1, <2>2, FirstTwo
<1> HIDE DEF two
<1>5. \A f \in File : /\ IsFile(found[f], f) /\ AtHolders(found[f], f)
                      /\ IsComplete(proc[s].found[f]) => IsComplete(found[f])
  <2> SUFFICES ASSUME NEW f \in File
               PROVE  /\ IsFile(found[f], f) /\ AtHolders(found[f], f)
                      /\ IsComplete(proc[s].found[f]) => IsComplete(found[f])
    OBVIOUS
  <2>1. IsFile(proc[s].found[f], f) /\ AtHolders(proc[s].found[f], f)
    BY DEF SearchInv, ProcShape, Gathered
  <2> QED
    BY <1>0, <1>1, <2>1, MergedFile
<1>6. \A i \in 1 .. Len(two) : IsComplete(found[two[i]])
  <2> SUFFICES ASSUME NEW i \in 1 .. Len(two) PROVE IsComplete(found[two[i]])
    OBVIOUS
  <2>1. CASE two[i] \in whole
    BY <2>1, <1>0
  <2>2. CASE \E j \in 1 .. Len(proc[s].complete) : two[i] = proc[s].complete[j]
    <3>1. IsComplete(proc[s].found[two[i]])
      BY <2>2 DEF SearchInv, Gathered
    <3>2. two[i] \in File
      BY <1>4
    <3> QED
      BY <3>1, <3>2, <1>5
  <2> QED
    BY <2>1, <2>2, <1>4
<1>7. /\ DOMAIN proc' = Search
      /\ \A x \in Search : x # s => proc'[x] = proc[x]
      /\ DOMAIN proc'[s] = {"pc", "budget", "round", "complete", "found"}
      /\ proc'[s].found = found /\ proc'[s].complete = two
      /\ proc'[s].pc = IF Len(two) = 2 THEN "finish" ELSE "run"
      /\ proc'[s].budget = proc[s].budget /\ proc'[s].round = proc[s].round
  <2>1. /\ DOMAIN proc = Search
        /\ DOMAIN proc[s] = {"pc", "budget", "round", "complete", "found"}
    BY DEF SearchInv, ProcShape
  <2> PICK pc : pc = IF Len(two) = 2 THEN "finish" ELSE "run"
    OBVIOUS
  <2>2. proc' = [proc EXCEPT ![s] = [proc[s] EXCEPT !.found = found, !.complete = two, !.pc = pc]]
    BY <1>3, <2>1 DEF two
  <2> QED
    BY <2>1, <2>2
<1>8. ProcShape'
  BY <1>0, <1>4, <1>5, <1>7 DEF SearchInv, ProcShape, Pcs
<1>9. UNCHANGED <<alive, open, listed, results, answers>> /\ Onward(t, t.rest)
  BY DEF Receive
<1>10. Gathered'
  BY <1>5, <1>6, <1>7, <1>9 DEF SearchInv, Gathered
<1>11. \A u \in tasks' : u \in tasks \/ TaskOK(u)
  BY <1>1, <1>9, OnwardOK DEF TaskOK, Task
<1>12. \A u \in tasks' : TaskOK(u)
  BY <1>11, TasksAreOK
<1>13. \A x \in Search : Registered(x) => Registered(x)'
  BY <1>7 DEF Registered
<1>14. Rest'
  BY <1>9, <1>12 DEF SearchInv, Rest, TaskOK
<1>15. Registrations'
  <2>1. \A x \in Search : x \in open' <=> proc'[x].pc \in {"run", "finish"}
    BY <1>1, <1>7, <1>9 DEF SearchInv, Registrations
  <2>2. \A x \in listed' : Registered(x)'
    BY <1>9, <1>13 DEF SearchInv, Registrations, Rest
  <2>3. \A u \in tasks' : /\ \A x \in u.rest : Registered(x)'
                          /\ u.pc \in {"get", "send"} => u.at \in Search /\ Registered(u.at)'
    BY <1>12, <1>13 DEF TaskOK, Task
  <2> QED
    BY <1>9, <2>1, <2>2, <2>3 DEF Registrations, AnswerFindsChannel
<1> QED
  BY <1>8, <1>10, <1>14, <1>15 DEF SearchInv

-----------------------------------------------------------------------------
LEMMA SearchInit == Init => SearchInv
<1> SUFFICES ASSUME Init PROVE SearchInv
  OBVIOUS
<1> PICK nothing : nothing = [f \in File |-> Nowhere(f)]
  OBVIOUS
<1>1. \A s \in Search :
        /\ proc[s] = [pc |-> "new", budget |-> Start[s], round |-> 0, complete |-> <<>>,
                      found |-> nothing]
        /\ Start[s] \in Nat
  BY BudgetAssumption DEF Init
<1>2. /\ DOMAIN nothing = File
      /\ \A f \in File : IsFile(nothing[f], f) /\ AtHolders(nothing[f], f)
  BY DEF IsFile, Where, Nowhere, AtHolders
<1>3. ProcShape
  <2>1. DOMAIN proc = Search
    BY DEF Init
  <2>2. ASSUME NEW s \in Search
        PROVE  /\ DOMAIN proc[s] = {"pc", "budget", "round", "complete", "found"}
               /\ proc[s].pc \in Pcs
               /\ proc[s].budget \in Nat /\ proc[s].round \in Nat
               /\ proc[s].complete \in Seq(File) /\ Len(proc[s].complete) <= 2
               /\ proc[s].found = nothing
    <3>1. PICK r : /\ r = [pc |-> "new", budget |-> Start[s], round |-> 0, complete |-> <<>>,
                           found |-> nothing]
                   /\ proc[s] = r
      BY <1>1
    <3>2. /\ DOMAIN r = {"pc", "budget", "round", "complete", "found"}
          /\ r.pc = "new" /\ r.budget = Start[s] /\ r.round = 0 /\ r.complete = <<>>
          /\ r.found = nothing
      BY <3>1
    <3> QED
      BY <3>1, <3>2, <1>1 DEF Pcs
  <2>3. ASSUME NEW s \in Search
        PROVE  DOMAIN proc[s].found = File /\ \A f \in File : IsFile(proc[s].found[f], f)
    BY <2>2, <1>2
  <2> QED
    BY <2>1, <2>2, <2>3 DEF ProcShape
<1>4. Rest /\ Registrations
  BY <1>1 DEF Init, Rest, Registrations, AnswerFindsChannel
<1>5. Gathered
  BY <1>1, <1>2 DEF Init, Gathered
<1> QED
  BY <1>3, <1>4, <1>5 DEF SearchInv

LEMMA SearchNext == SearchInv /\ [Next]_vars => SearchInv'
<1> SUFFICES ASSUME SearchInv, [Next]_vars PROVE SearchInv'
  OBVIOUS
<1>1. CASE UNCHANGED vars
  BY <1>1 DEF vars, SearchInv, ProcShape, Rest, Registrations, Registered, Gathered, AnswerFindsChannel
<1>2. ASSUME alive, NEW s \in Search, SearchStep(s)
      PROVE  SearchInv'
  BY <1>2, CheckKeeps, ListKeywordsKeeps, OpenChannelKeeps, TickKeeps, FinishKeeps, UnlistKeeps
     DEF SearchStep
<1>3. ASSUME alive, NEW s \in Search, NEW p \in Peer, Arrive(s, p)
      PROVE  SearchInv'
  BY <1>3, ArriveKeeps
<1>4. ASSUME alive, TaskStep
      PROVE  SearchInv'
  BY <1>4, IterateKeeps, VisitKeeps, ReceiveKeeps, GetChannelKeeps, SendClosedKeeps DEF TaskStep
<1> QED
  BY <1>1, <1>2, <1>3, <1>4 DEF Next

LEMMA SearchAlways == Spec => []SearchInv
  BY SearchInit, SearchNext, PTL DEF Spec

LEMMA SearchTypes == SearchInv => TypeOK
<1>1. SearchInv => \A f \in File : results[f] = None \/ IsFile(results[f], f)
  BY DEF SearchInv, Gathered
<1> QED
  BY <1>1 DEF SearchInv, ProcShape, Rest, TypeOK, Pcs

-----------------------------------------------------------------------------
(* When files of one name are the same file, a file that a search found    *)
(* can be downloaded from the peers noted for its chunks                   *)
(* (file_search.go:212).                                                   *)
THEOREM FoundFilesAreWhole == SameFile => (Spec => []FoundIsWhole)
<1> SUFFICES ASSUME SameFile PROVE Spec => []FoundIsWhole
  OBVIOUS
<1>1. SearchInv => FoundIsWhole
  <2> SUFFICES ASSUME SearchInv, NEW f \in File, results[f] # None, NEW i \in 1 .. Count[f]
               PROVE  LET from == results[f].at[i]
                      IN  /\ from # None /\ i \in Holds[from][f]
                          /\ Meta[from][f] = results[f].meta
    BY SearchTypes DEF FoundIsWhole
  <2>1. IsFile(results[f], f) /\ IsComplete(results[f]) /\ AtHolders(results[f], f)
    BY DEF SearchInv, Gathered
  <2>2. DOMAIN results[f].at = 1 .. Count[f]
    BY <2>1 DEF IsFile, Where
  <2> QED
    BY <2>1, <2>2 DEF IsComplete, AtHolders
<1> QED
  BY SearchAlways, <1>1, PTL

(* The process panics on an answer only while a search is between its two  *)
(* registrations or has closed its channel (file_search.go:188, 257, 283). *)
THEOREM AnswersFindChannels == Spec => []AnswerFindsChannel
<1>1. SearchInv => AnswerFindsChannel
  BY DEF SearchInv, Registrations
<1> QED
  BY SearchAlways, <1>1, PTL

-----------------------------------------------------------------------------
(***************************************************************************)
(* The loops over the containers that searches, downloads and the packet   *)
(* loop share.                                                             *)
(***************************************************************************)
Item == {c.item : c \in Calls!Written} \cup {c.body.item : c \in Calls!Written}

Distinct(s)  == \A i, j \in DOMAIN s : s[i] = s[j] => i = j
Begins(s, t) == Len(s) <= Len(t) /\ \A i \in 1 .. Len(s) : s[i] = t[i]
SameItems(s, t) == Len(s) = Len(t) /\ Calls!ToSet(s) = Calls!ToSet(t)

Shapes ==
  /\ items \in [Container -> Seq(Item)]
  /\ \A c \in Maps : Distinct(items[c])
  /\ lock \in [Container -> SUBSET Calls!Holder]
  /\ left \in [Caller -> Seq(Calls!Written)]
  /\ at \in [Caller -> {"call", "looping", "body"}]
  /\ iter \in [Caller -> [stage : Calls!Stage, pending : Seq(Item)]]
  /\ before \in [Caller -> Seq(Item)] /\ got \in [Caller -> Seq(Item)]

LeftOver == \E script \in Scripts : \A p \in Caller : Calls!IsSuffix(left[p], script[p])

On(p) == Calls!Call(p).on

IteratorOf(p) == [who |-> p, as |-> "iterator"]

(* A caller in a loop has the call it is in, and its iterator.             *)
InLoop(p) ==
  /\ at[p] = "call" <=> iter[p].stage = "none"
  /\ at[p] # "call" => left[p] # <<>>
  /\ at[p] = "body" => "body" \in DOMAIN Calls!Call(p)

(* An iterator that sends holds the lock, and what is still to come is     *)
(* what it has not handed over; until then a slice can only have grown.    *)
Sends(p) ==
  /\ lock[On(p)] = {IteratorOf(p)}
  /\ SameItems(got[p] \o iter[p].pending, items[On(p)])
  /\ On(p) \notin Maps => /\ got[p] \o iter[p].pending = items[On(p)]
                          /\ Begins(before[p], items[On(p)])

Hands(p) ==
  /\ iter[p].stage = "starting" =>
       got[p] = <<>> /\ (On(p) \notin Maps => Begins(before[p], items[On(p)]))
  /\ iter[p].stage = "sending" => Sends(p)
  /\ iter[p].stage = "closed" /\ On(p) \notin Maps => Begins(before[p], got[p])

LoopsInv == Shapes /\ LeftOver /\ \A p \in Caller : InLoop(p) /\ Hands(p)

-----------------------------------------------------------------------------
LEMMA LeastPlace ==
  ASSUME NEW S \in SUBSET Nat, S # {}
  PROVE  \E m \in S : \A j \in S : m <= j
<1>1. PICK m \in S : \A j \in S : <<j, m>> \notin OpToRel(<, Nat)
  BY WFMin, NatLessThanWellFounded, Zenon
<1>2. ASSUME NEW j \in S
      PROVE  m <= j
  <2>1. ~(<<j, m>> \in OpToRel(<, Nat)) /\ <<j, m>> \in Nat \X Nat
    BY <1>1
  <2>2. ~(j < m)
    BY <2>1 DEF OpToRel
  <2> QED
    BY <2>2
<1> QED
  BY <1>2

LEMMA RemovedAt ==
  ASSUME NEW S, NEW s \in Seq(S), NEW e, NEW i \in 1 .. Len(s), s[i] = e
  PROVE  \E k \in 1 .. Len(s) : Calls!RemoveFirst(s, e) = Calls!RemoveAt(s, k)
<1>1. PICK I : I = {j \in 1 .. Len(s) : s[j] = e}
  OBVIOUS
<1>2. PICK m \in I : \A j \in I : m <= j
  <2>1. I \in SUBSET Nat /\ I # {}
    BY <1>1
  <2> QED
    BY <2>1, LeastPlace
<1>3. \A x \in I : (\A j \in I : x <= j) => x = m
  BY <1>1, <1>2
<1> QED
  BY <1>1, <1>2, <1>3 DEF Calls!RemoveFirst, Calls!SelectInSeq, Calls!Min

(* What is removed from a map leaves the rest, each once.                  *)
LEMMA RemovedLeaves ==
  ASSUME NEW S, NEW s \in Seq(S), NEW e, Distinct(s)
  PROVE  Calls!RemoveFirst(s, e) \in Seq(S) /\ Distinct(Calls!RemoveFirst(s, e))
<1>1. CASE \E i \in 1 .. Len(s) : s[i] = e
  <2>1. PICK k \in 1 .. Len(s) : Calls!RemoveFirst(s, e) = Calls!RemoveAt(s, k)
    BY <1>1, RemovedAt
  <2>2. PICK u, v : u = SubSeq(s, 1, k - 1) /\ v = SubSeq(s, k + 1, Len(s))
    OBVIOUS
  <2>3. /\ u \in Seq(S) /\ Len(u) = k - 1 /\ \A i \in 1 .. k - 1 : u[i] = s[i]
        /\ v \in Seq(S) /\ Len(v) = Len(s) - k /\ \A i \in 1 .. Len(s) - k : v[i] = s[i + k]
    BY <2>2
  <2>4. PICK t \in Seq(S) : t = u \o v
    BY <2>3, ConcatProperties
  <2>5. Len(t) = Len(s) - 1 /\ Len(s) \in Nat /\ DOMAIN t = 1 .. Len(t) /\ DOMAIN s = 1 .. Len(s)
    <3>1. Len(t) = Len(u) + Len(v)
      BY <2>3, <2>4, ConcatProperties
    <3> QED
      BY <2>3, <3>1
  <2>6. ASSUME NEW i \in DOMAIN t
        PROVE  t[i] = s[IF i < k THEN i ELSE i + 1]
    <3>1. t[i] = IF i <= k - 1 THEN u[i] ELSE v[i - (k - 1)]
      BY <2>3, <2>4, <2>5, ConcatProperties
    <3> QED
      BY <2>3, <2>5, <3>1
  <2>7. ASSUME NEW i \in DOMAIN t, NEW j \in DOMAIN t, t[i] = t[j]
        PROVE  i = j
    <3>1. PICK x, y : x = (IF i < k THEN i ELSE i + 1) /\ y = (IF j < k THEN j ELSE j + 1)
      OBVIOUS
    <3>2. x \in DOMAIN s /\ y \in DOMAIN s
      BY <2>5, <3>1
    <3>3. s[x] = s[y]
      BY <2>6, <2>7, <3>1
    <3>4. x = y
      BY <3>2, <3>3 DEF Distinct
    <3> QED
      BY <2>5, <3>1, <3>4
  <2> QED
    BY <2>1, <2>2, <2>4, <2>7 DEF Calls!RemoveAt, Distinct
<1>2. CASE ~\E i \in 1 .. Len(s) : s[i] = e
  BY <1>2 DEF Calls!RemoveFirst
<1> QED
  BY <1>1, <1>2

-----------------------------------------------------------------------------
(* Calls and operations.                                                   *)
LEMMA CallIs ==
  ASSUME Calls!ConstantsOK, Shapes, NEW p \in Caller, left[p] # <<>>
  PROVE  /\ Calls!Call(p) \in Calls!Written /\ Calls!Offered(Calls!Call(p))
         /\ Calls!Call(p).on \in Container /\ Calls!Call(p).item \in Item
         /\ "body" \in DOMAIN Calls!Call(p) =>
              /\ Calls!Offered(Calls!Call(p).body) /\ Calls!Call(p).body.on \in Container
              /\ Calls!Call(p).body.item \in Item
<1>1. Calls!Call(p) \in Calls!Written
  BY HeadTailProperties DEF Shapes, Calls!Call
<1> QED
  BY <1>1 DEF Calls!ConstantsOK, Calls!Offered, Item

LEMMA BeginsSelf ==
  ASSUME NEW S, NEW s \in Seq(S)
  PROVE  Begins(s, s)
  BY DEF Begins

LEMMA BeginsOn ==
  ASSUME NEW S, NEW s \in Seq(S), NEW t \in Seq(S), NEW u \in Seq(S), Begins(s, t), Begins(t, u)
  PROVE  Begins(s, u)
<1>1. Len(s) \in Nat /\ Len(t) \in Nat /\ Len(u) \in Nat
  OBVIOUS
<1> QED
  BY <1>1 DEF Begins

LEMMA BeginsAppended ==
  ASSUME NEW S, NEW s \in Seq(S), NEW x \in S
  PROVE  Begins(s, Append(s, x))
  BY AppendProperties DEF Begins

(* An operation keeps a map a map, and a slice only grows.                 *)
OnlyGrows == \A c \in Container \ Maps : Begins(items[c], items'[c])

KeepsTypes == items' \in [Container -> Seq(Item)] /\ \A c \in Maps : Distinct(items'[c])

LEMMA ResultIs ==
  ASSUME Calls!ConstantsOK, Shapes, NEW call, call.item \in Item, Calls!Offered(call)
  PROVE  /\ Calls!Result(call.on, call) \in Seq(Item)
         /\ call.on \in Maps => Distinct(Calls!Result(call.on, call))
         /\ call.on \notin Maps => Begins(items[call.on], Calls!Result(call.on, call))
<1>1. PICK c \in Container : c = call.on
  BY DEF Calls!Offered
<1>2. PICK x \in Item : x = call.item
  OBVIOUS
<1>3. PICK s \in Seq(Item) : s = items[c]
  BY DEF Shapes
<1>4. c \in Maps => Distinct(s)
  BY <1>3 DEF Shapes
<1>5. Append(s, x) \in Seq(Item) /\ Begins(s, s) /\ Begins(s, Append(s, x))
  BY AppendProperties, BeginsSelf, BeginsAppended
<1>6. CASE call.op = "Append"
  <2>1. Calls!Result(call.on, call) = Append(s, x) /\ c \notin Maps
    BY <1>1, <1>2, <1>3, <1>6 DEF Calls!Result, Calls!Appended, Calls!Offered
  <2> QED
    BY <1>1, <1>3, <1>5, <2>1
<1>7. CASE call.op = "Set"
  <2>1. c \in Maps /\ Distinct(s)
    BY <1>1, <1>4, <1>7 DEF Calls!Offered
  <2>2. PICK r : r = Calls!Result(call.on, call)
    OBVIOUS
  <2>3. r = s \/ (r = Append(s, x) /\ ~\E i \in 1 .. Len(s) : s[i] = x)
    BY <1>1, <1>2, <1>3, <1>7, <2>2 DEF Calls!Result, Calls!WithKey, Calls!Contains
  <2>4. CASE r = Append(s, x) /\ ~\E i \in 1 .. Len(s) : s[i] = x
    <3>1. DOMAIN r = 1 .. Len(s) + 1 /\ Len(s) \in Nat /\ DOMAIN s = 1 .. Len(s)
          /\ r[Len(s) + 1] = x /\ \A i \in 1 .. Len(s) : r[i] = s[i] /\ s[i] # x
      BY <2>4, AppendProperties
    <3>2. Distinct(r)
      BY <2>1, <3>1 DEF Distinct
    <3> QED
      BY <1>1, <1>5, <2>1, <2>2, <2>4, <3>2
  <2> QED
    BY <1>1, <1>5, <2>1, <2>2, <2>3, <2>4
<1>8. CASE call.op = "Delete"
  <2>1. c \in Maps /\ Distinct(s)
    BY <1>1, <1>4, <1>8 DEF Calls!Offered
  <2>2. Calls!Result(call.on, call) = Calls!RemoveFirst(s, x)
    BY <1>1, <1>2, <1>3, <1>8 DEF Calls!Result, Calls!Without
  <2> QED
    BY <1>1, <2>1, <2>2, RemovedLeaves
<1>9. CASE call.op \notin {"Append", "Set", "Delete"}
  <2>1. Calls!Result(call.on, call) = s
    BY <1>1, <1>3, <1>9 DEF Calls!Result
  <2> QED
    BY <1>1, <1>3, <1>4, <1>5, <2>1
<1> QED
  BY <1>6, <1>7, <1>8, <1>9

LEMMA Operates ==
  ASSUME Calls!ConstantsOK, Shapes, NEW call, call.item \in Item, Calls!Offered(call),
         Calls!Operate(call)
  PROVE  /\ KeepsTypes /\ OnlyGrows /\ call.on \in Container /\ lock[call.on] = {}
         /\ \A c \in Container : c = call.on \/ items'[c] = items[c]
<1>1. PICK c \in Container : c = call.on
  BY DEF Calls!Offered
<1>2. PICK r : r = Calls!Result(call.on, call)
  OBVIOUS
<1>3. items' = [items EXCEPT ![c] = r] /\ lock[c] = {}
  BY <1>1, <1>2 DEF Calls!Operate, Calls!Free
<1>4. r \in Seq(Item) /\ (c \in Maps => Distinct(r)) /\ (c \notin Maps => Begins(items[c], r))
  BY <1>1, <1>2, ResultIs
<1>5. items'[c] = r /\ \A d \in Container \ {c} : items'[d] = items[d]
  BY <1>3 DEF Shapes
<1>6. KeepsTypes
  <2>1. Maps \subseteq Container
    BY DEF Calls!ConstantsOK
  <2> QED
    BY <1>3, <1>4, <1>5, <2>1 DEF KeepsTypes, Shapes
<1>7. OnlyGrows
  BY <1>4, <1>5, BeginsSelf DEF OnlyGrows, Shapes
<1> QED
  BY <1>1, <1>3, <1>5, <1>6, <1>7

-----------------------------------------------------------------------------
(* Prefixes and suffixes.                                                  *)
LEMMA PrefixIs ==
  ASSUME NEW S, NEW s \in Seq(S), NEW t \in Seq(S)
  PROVE  Calls!IsPrefix(s, t) <=> Begins(s, t)
<1>1. PICK n \in Nat : n = Len(s)
  OBVIOUS
<1>2. ASSUME n <= Len(t)
      PROVE  SubSeq(s, 1, n) = SubSeq(t, 1, n) <=> \A i \in 1 .. n : s[i] = t[i]
  <2>1. PICK u, v : u = SubSeq(s, 1, n) /\ v = SubSeq(t, 1, n)
    OBVIOUS
  <2>2. /\ u \in Seq(S) /\ Len(u) = n /\ \A i \in 1 .. n : u[i] = s[i]
        /\ v \in Seq(S) /\ Len(v) = n /\ \A i \in 1 .. n : v[i] = t[i]
    BY <1>1, <1>2, <2>1
  <2>3. u = v <=> \A i \in 1 .. n : u[i] = v[i]
    BY <2>2, SeqEqual
  <2> QED
    BY <2>1, <2>2, <2>3
<1> QED
  BY <1>1, <1>2 DEF Calls!IsPrefix, Begins

LEMMA ReverseIs ==
  ASSUME NEW S, NEW s \in Seq(S)
  PROVE  /\ Calls!Reverse(s) \in Seq(S) /\ Len(Calls!Reverse(s)) = Len(s)
         /\ \A i \in 1 .. Len(s) : Calls!Reverse(s)[i] = s[Len(s) - i + 1]
<1>1. PICK n \in Nat : n = Len(s)
  OBVIOUS
<1>2. PICK r : r = [i \in 1 .. n |-> s[n - i + 1]]
  OBVIOUS
<1>3. r \in [1 .. n -> S] /\ \A i \in 1 .. n : r[i] = s[n - i + 1]
  BY <1>1, <1>2
<1>4. r \in Seq(S) /\ Len(r) = n
  BY <1>3
<1>5. Calls!Reverse(s) = r
  BY <1>1, <1>2 DEF Calls!Reverse
<1> QED
  BY <1>1, <1>3, <1>4, <1>5

LEMMA SuffixTail ==
  ASSUME NEW S, NEW s \in Seq(S), NEW t \in Seq(S), s # <<>>, Calls!IsSuffix(s, t)
  PROVE  Calls!IsSuffix(Tail(s), t)
<1>0. PICK n \in Nat, m \in Nat : n = Len(s) /\ m = n - 1
  <2>1. Len(s) \in Nat /\ Len(s) # 0
    OBVIOUS
  <2> QED
    BY <2>1
<1>1. PICK l \in Seq(S) : l = Tail(s) /\ Len(l) = m /\ \A i \in 1 .. m : l[i] = s[i + 1]
  <2>1. PICK l : l = Tail(s)
    OBVIOUS
  <2>2. l \in Seq(S) /\ Len(l) = Len(s) - 1 /\ \A i \in 1 .. Len(l) : l[i] = s[i + 1]
    BY <2>1, HeadTailProperties, Zenon
  <2>3. Len(l) = m
    BY <1>0, <2>2
  <2>4. \A i \in 1 .. m : l[i] = s[i + 1]
    BY <2>2, <2>3, Zenon
  <2> QED
    BY <2>1, <2>2, <2>3, <2>4
<1>2. PICK r \in Seq(S) :
        r = Calls!Reverse(s) /\ Len(r) = n /\ \A i \in 1 .. n : r[i] = s[n - i + 1]
  BY <1>0, ReverseIs
<1>3. PICK u \in Seq(S) :
        u = Calls!Reverse(l) /\ Len(u) = m /\ \A i \in 1 .. m : u[i] = l[m - i + 1]
  <2>1. PICK u : u = Calls!Reverse(l)
    OBVIOUS
  <2>2. u \in Seq(S) /\ Len(u) = Len(l) /\ \A i \in 1 .. Len(l) : u[i] = l[Len(l) - i + 1]
    BY <2>1, ReverseIs, Zenon
  <2> QED
    BY <1>1, <2>1, <2>2, Zenon
<1>4. PICK q \in Seq(S) : q = Calls!Reverse(t)
  BY ReverseIs
<1>5. Begins(u, r)
  <2>1. ASSUME NEW i \in 1 .. m
        PROVE  u[i] = r[i]
    <3>1. PICK j \in 1 .. m : j = m - i + 1
      OBVIOUS
    <3>2. j + 1 = n - i + 1 /\ i \in 1 .. n
      BY <1>0, <3>1
    <3> QED
      BY <1>1, <1>2, <1>3, <3>1, <3>2
  <2> QED
    BY <1>0, <1>2, <1>3, <2>1 DEF Begins
<1>6. Begins(r, q)
  BY <1>2, <1>4, PrefixIs DEF Calls!IsSuffix
<1>7. Begins(u, q)
  BY <1>5, <1>6, BeginsOn
<1> QED
  BY <1>1, <1>3, <1>4, <1>7, PrefixIs DEF Calls!IsSuffix

LEMMA SuffixSelf ==
  ASSUME NEW S, NEW s \in Seq(S)
  PROVE  Calls!IsSuffix(s, s)
<1>1. PICK r \in Seq(S) : r = Calls!Reverse(s)
  BY ReverseIs
<1> QED
  BY <1>1, BeginsSelf, PrefixIs DEF Calls!IsSuffix

(* What an iterator is to hand over.                                       *)
LEMMA CallsCount == \A S : Calls!Cardinality(S) = Cardinality(S)
  BY Zenon DEF Calls!Cardinality, Calls!IsFiniteSet, Cardinality, IsFiniteSet

LEMMA RangedIs ==
  ASSUME Shapes, NEW c \in Container, NEW order \in Calls!Ranged(c)
  PROVE  /\ order \in Seq(Item) /\ SameItems(order, items[c])
         /\ c \notin Maps => order = items[c]
<1>1. PICK s \in Seq(Item) : s = items[c]
  BY DEF Shapes
<1>2. CASE c \notin Maps
  BY <1>1, <1>2 DEF Calls!Ranged, SameItems
<1>3. CASE c \in Maps
  <2>1. PICK n \in Nat : n = Len(s)
    OBVIOUS
  <2>2. PICK T : T = Calls!ToSet(s)
    OBVIOUS
  <2>3. T = {s[i] : i \in 1 .. n} /\ T \subseteq Item /\ s \in [1 .. n -> T]
    BY <2>1, <2>2 DEF Calls!ToSet
  <2>4. Distinct(s)
    BY <1>1, <1>3 DEF Shapes
  <2>5. s \in Surjection(1 .. n, T) /\ s \in Injection(1 .. n, T)
    BY <2>1, <2>3, <2>4 DEF Surjection, Injection, IsInjective, Distinct
  <2>6. IsFiniteSet(1 .. n) /\ Cardinality(1 .. n) = n
    BY FS_Interval
  <2>7. IsFiniteSet(T) /\ Cardinality(T) = n
    BY <2>5, <2>6, FS_Surjection
  <2>8. order \in [1 .. n -> T] /\ \A i, j \in 1 .. n : i # j => order[i] # order[j]
    <3>1. order \in Calls!SetToSeqs(T)
      BY <1>1, <1>3, <2>2 DEF Calls!Ranged
    <3>2. Calls!Cardinality(T) = n
      BY <2>7, CallsCount
    <3> QED
      BY <3>1, <3>2 DEF Calls!SetToSeqs
  <2>9. order \in Injection(1 .. n, T)
    BY <2>8 DEF Injection, IsInjective
  <2>10. order \in Surjection(1 .. n, T)
    BY <2>6, <2>7, <2>9, FS_Injection
  <2>11. order \in Seq(Item) /\ Len(order) = n
    <3>1. order \in [1 .. n -> Item]
      BY <2>3, <2>8
    <3> QED
      BY <3>1
  <2>12. Calls!ToSet(order) = T
    BY <2>8, <2>10 DEF Surjection, Calls!ToSet
  <2> QED
    BY <1>1, <1>3, <2>1, <2>2, <2>11, <2>12 DEF SameItems
<1> QED
  BY <1>2, <1>3

(* To hand over one item changes nothing in all that is handed over.       *)
LEMMA HandedOver ==
  ASSUME NEW S, NEW s \in Seq(S), NEW t \in Seq(S), t # <<>>
  PROVE  Append(s, Head(t)) \o Tail(t) = s \o t
<1>1. PICK x \in S, u \in Seq(S) : x = Head(t) /\ u = Tail(t)
  BY HeadTailProperties
<1>2. t = <<x>> \o u /\ <<x>> \in Seq(S)
  BY <1>1, HeadTailProperties
<1>3. Append(s, x) = s \o <<x>>
  BY AppendIsConcat
<1> QED
  BY <1>1, <1>2, <1>3, ConcatAssociative

-----------------------------------------------------------------------------
(* Steps.                                                                  *)
LEMMA ReturnIs ==
  ASSUME Calls!ConstantsOK, Shapes, LeftOver, NEW p \in Caller, left[p] # <<>>, Calls!Return(p)
  PROVE  /\ LeftOver' /\ left' \in [Caller -> Seq(Calls!Written)]
         /\ \A q \in Caller : q = p \/ left'[q] = left[q]
<1>1. PICK script \in Scripts : \A q \in Caller : Calls!IsSuffix(left[q], script[q])
  BY DEF LeftOver
<1>2. script[p] \in Seq(Calls!Written)
  BY DEF Calls!ConstantsOK
<1>3. PICK s \in Seq(Calls!Written) : s = left[p] /\ s # <<>>
  BY DEF Shapes
<1>4. PICK l : l = Tail(s)
  OBVIOUS
<1>5. l \in Seq(Calls!Written) /\ Calls!IsSuffix(l, script[p])
  BY <1>1, <1>2, <1>3, <1>4, SuffixTail, HeadTailProperties
<1>6. left' = [left EXCEPT ![p] = l]
  BY <1>3, <1>4 DEF Calls!Return
<1>7. left' \in [Caller -> Seq(Calls!Written)] /\ left'[p] = l
      /\ \A q \in Caller : q = p \/ left'[q] = left[q]
  BY <1>5, <1>6 DEF Shapes
<1>8. \A q \in Caller : Calls!IsSuffix(left'[q], script[q])
  BY <1>1, <1>5, <1>7
<1> QED
  BY <1>7, <1>8 DEF LeftOver

LEMMA ItemsSame ==
  ASSUME Shapes, items' = items
  PROVE  KeepsTypes /\ OnlyGrows
  BY BeginsSelf DEF Shapes, KeepsTypes, OnlyGrows

(* What p's loop has is not disturbed by what others do.                   *)
LEMMA Undisturbed ==
  ASSUME Calls!ConstantsOK, Shapes, KeepsTypes, OnlyGrows, NEW p \in Caller,
         InLoop(p), Hands(p),
         left'[p] = left[p], at'[p] = at[p] \/ (at[p] = "body" /\ at'[p] = "looping"),
         iter'[p] = iter[p], before'[p] = before[p], got'[p] = got[p],
         \A c \in Container :
           lock[c] = {IteratorOf(p)} => lock'[c] = lock[c] /\ items'[c] = items[c]
  PROVE  InLoop(p)' /\ Hands(p)'
<1>1. On(p)' = On(p) /\ Calls!Call(p)' = Calls!Call(p)
  BY DEF On, Calls!Call
<1>2. InLoop(p)'
  BY <1>1 DEF InLoop
<1>3. iter[p].stage # "none" => On(p) \in Container
  BY CallIs DEF InLoop, On
<1>4. ASSUME iter[p].stage = "starting", On(p) \notin Maps
      PROVE  Begins(before[p], items'[On(p)])
  <2>1. PICK c \in Container : c = On(p) /\ c \notin Maps
    BY <1>3, <1>4
  <2>2. before[p] \in Seq(Item) /\ items[c] \in Seq(Item) /\ items'[c] \in Seq(Item)
    BY DEF Shapes, KeepsTypes
  <2>3. Begins(before[p], items[c]) /\ Begins(items[c], items'[c])
    BY <1>4, <2>1 DEF Hands, OnlyGrows
  <2> QED
    BY <2>1, <2>2, <2>3, BeginsOn
<1>5. ASSUME iter[p].stage = "sending"
      PROVE  Sends(p)'
  <2>1. Sends(p) /\ On(p) \in Container
    BY <1>3, <1>5 DEF Hands
  <2>2. lock'[On(p)] = lock[On(p)] /\ items'[On(p)] = items[On(p)]
    BY <2>1 DEF Sends
  <2> QED
    BY <1>1, <2>1, <2>2 DEF Sends, IteratorOf
<1> QED
  BY <1>1, <1>2, <1>4, <1>5 DEF Hands

(* The others, when p moves.                                               *)
Others(p) ==
  \A q \in Caller \ {p} :
    /\ left'[q] = left[q] /\ at'[q] = at[q] /\ iter'[q] = iter[q]
    /\ before'[q] = before[q] /\ got'[q] = got[q]
    /\ \A c \in Container :
         lock[c] = {IteratorOf(q)} => lock'[c] = lock[c] /\ items'[c] = items[c]

LEMMA OthersLoop ==
  ASSUME Calls!ConstantsOK, LoopsInv, KeepsTypes, OnlyGrows, NEW p \in Caller, Others(p)
  PROVE  \A q \in Caller \ {p} : InLoop(q)' /\ Hands(q)'
<1>1. ASSUME NEW q \in Caller \ {p} PROVE InLoop(q)' /\ Hands(q)'
  BY Undisturbed DEF LoopsInv, Others
<1> QED
  BY <1>1

LEMMA SimpleCallLoops ==
  ASSUME Calls!ConstantsOK, LoopsInv, NEW p \in Caller, Calls!SimpleCall(p)
  PROVE  LoopsInv'
<1>1. /\ at[p] = "call" /\ left[p] # <<>> /\ Calls!Operate(Calls!Call(p)) /\ Calls!Return(p)
      /\ lock' = lock /\ at' = at /\ iter' = iter /\ before' = before /\ got' = got
      /\ Shapes /\ LeftOver /\ InLoop(p)
  BY DEF Calls!SimpleCall, LoopsInv
<1>2. PICK call : call = Calls!Call(p)
  OBVIOUS
<1>3. /\ KeepsTypes /\ OnlyGrows /\ call.on \in Container /\ lock[call.on] = {}
      /\ \A c \in Container : c = call.on \/ items'[c] = items[c]
  BY <1>1, <1>2, CallIs, Operates
<1>4. /\ LeftOver' /\ left' \in [Caller -> Seq(Calls!Written)]
      /\ \A q \in Caller : q = p \/ left'[q] = left[q]
  BY <1>1, ReturnIs
<1>5. Shapes'
  BY <1>1, <1>3, <1>4 DEF Shapes, KeepsTypes
<1>6. Others(p)
  BY <1>1, <1>3, <1>4 DEF Others
<1>7. InLoop(p)' /\ Hands(p)'
  BY <1>1 DEF InLoop, Hands
<1> QED
  BY <1>3, <1>4, <1>5, <1>6, <1>7, OthersLoop DEF LoopsInv

LEMMA BodyLoops ==
  ASSUME Calls!ConstantsOK, LoopsInv, NEW p \in Caller, Calls!Body(p)
  PROVE  LoopsInv'
<1>1. /\ at[p] = "body" /\ Calls!Operate(Calls!Call(p).body)
      /\ at' = [at EXCEPT ![p] = "looping"]
      /\ lock' = lock /\ left' = left /\ iter' = iter /\ before' = before /\ got' = got
      /\ Shapes /\ LeftOver /\ InLoop(p) /\ Hands(p)
  BY DEF Calls!Body, LoopsInv
<1>2. left[p] # <<>> /\ "body" \in DOMAIN Calls!Call(p)
  BY <1>1 DEF InLoop
<1>3. PICK call : call = Calls!Call(p).body
  OBVIOUS
<1>4. /\ KeepsTypes /\ OnlyGrows /\ call.on \in Container /\ lock[call.on] = {}
      /\ \A c \in Container : c = call.on \/ items'[c] = items[c]
  BY <1>1, <1>2, <1>3, CallIs, Operates
<1>5. at' \in [Caller -> {"call", "looping", "body"}] /\ at'[p] = "looping"
      /\ \A q \in Caller \ {p} : at'[q] = at[q]
  BY <1>1 DEF Shapes
<1>6. Shapes' /\ LeftOver'
  BY <1>1, <1>4, <1>5 DEF Shapes, KeepsTypes, LeftOver
<1>7. Others(p)
  BY <1>1, <1>4, <1>5 DEF Others
<1>8. \A c \in Container :
        lock[c] = {IteratorOf(p)} => lock'[c] = lock[c] /\ items'[c] = items[c]
  BY <1>1, <1>4
<1>9. InLoop(p)' /\ Hands(p)'
  BY <1>1, <1>4, <1>5, <1>8, Undisturbed
<1> QED
  BY <1>4, <1>6, <1>7, <1>9, OthersLoop DEF LoopsInv

(* Nothing, and no iterator.                                               *)
LEMMA EmptyIs == \E e : e = <<>> /\ e \in Seq(Item) /\ Distinct(e)
<1>1. PICK e : e = <<>>
  OBVIOUS
<1>2. e \in Seq(Item)
  BY <1>1
<1>3. Distinct(e)
  BY <1>1 DEF Distinct
<1> QED
  BY <1>1, <1>2, <1>3

LEMMA NoIterIs ==
  \E k \in [stage : Calls!Stage, pending : Seq(Item)] : k = Calls!NoIter /\ k.stage = "none"
<1>1. PICK e : e = <<>> /\ e \in Seq(Item)
  BY EmptyIs
<1>2. PICK k : k = [stage |-> "none", pending |-> e]
  OBVIOUS
<1>3. k \in [stage : Calls!Stage, pending : Seq(Item)] /\ k.stage = "none"
  BY <1>1, <1>2 DEF Calls!Stage
<1>4. k = Calls!NoIter
  BY <1>1, <1>2 DEF Calls!NoIter
<1> QED
  BY <1>3, <1>4

LEMMA StartLoopLoops ==
  ASSUME Calls!ConstantsOK, LoopsInv, NEW p \in Caller, Calls!StartLoop(p)
  PROVE  LoopsInv'
<1>1. /\ at[p] = "call" /\ left[p] # <<>> /\ Shapes /\ LeftOver
      /\ items' = items /\ left' = left
      /\ at' = [at EXCEPT ![p] = "looping"]
      /\ iter' = [iter EXCEPT ![p] = [stage |-> "starting", pending |-> <<>>]]
      /\ before' = [before EXCEPT ![p] = items[On(p)]]
      /\ got' = [got EXCEPT ![p] = <<>>]
  BY DEF Calls!StartLoop, LoopsInv, On
<1>2. PICK c \in Container : c = On(p)
  BY <1>1, CallIs DEF On
<1>3. lock' = lock
      \/ (lock[c] = {} /\ lock' = [lock EXCEPT ![c] = {[who |-> p, as |-> "caller"]}])
  BY <1>2 DEF Calls!StartLoop, Calls!Free, On
<1>4. PICK h \in Calls!Holder : h = [who |-> p, as |-> "caller"]
  BY DEF Calls!Holder
<1>5. lock' \in [Container -> SUBSET Calls!Holder]
  BY <1>1, <1>3, <1>4 DEF Shapes
<1>6. \A d \in Container : lock[d] = {} \/ lock'[d] = lock[d]
  BY <1>1, <1>3 DEF Shapes
<1>7. PICK k \in [stage : Calls!Stage, pending : Seq(Item)] :
        k = [stage |-> "starting", pending |-> <<>>]
  <2>1. PICK e : e = <<>> /\ e \in Seq(Item)
    BY EmptyIs
  <2>2. PICK k : k = [stage |-> "starting", pending |-> e]
    OBVIOUS
  <2>3. k \in [stage : Calls!Stage, pending : Seq(Item)]
    BY <2>1, <2>2 DEF Calls!Stage
  <2> QED
    BY <2>1, <2>2, <2>3
<1>8. iter' \in [Caller -> [stage : Calls!Stage, pending : Seq(Item)]]
      /\ iter'[p].stage = "starting" /\ \A q \in Caller \ {p} : iter'[q] = iter[q]
  BY <1>1, <1>7 DEF Shapes
<1>9. at' \in [Caller -> {"call", "looping", "body"}] /\ at'[p] = "looping"
      /\ \A q \in Caller \ {p} : at'[q] = at[q]
  BY <1>1 DEF Shapes
<1>10. PICK s \in Seq(Item), e \in Seq(Item) : s = items[c] /\ e = <<>>
  BY <1>1, EmptyIs DEF Shapes
<1>11. before' \in [Caller -> Seq(Item)] /\ before'[p] = items[c]
       /\ \A q \in Caller \ {p} : before'[q] = before[q]
  BY <1>1, <1>2, <1>10 DEF Shapes
<1>12. got' \in [Caller -> Seq(Item)] /\ got'[p] = <<>>
       /\ \A q \in Caller \ {p} : got'[q] = got[q]
  BY <1>1, <1>10 DEF Shapes
<1>13. Shapes' /\ LeftOver'
  BY <1>1, <1>5, <1>8, <1>9, <1>11, <1>12 DEF Shapes, LeftOver
<1>14. KeepsTypes /\ OnlyGrows
  BY <1>1, ItemsSame
<1>15. Others(p)
  BY <1>1, <1>6, <1>8, <1>9, <1>11, <1>12 DEF Others
<1>16. On(p)' = On(p)
  BY <1>1 DEF On, Calls!Call
<1>17. InLoop(p)'
  BY <1>1, <1>8, <1>9 DEF InLoop
<1>18. Hands(p)'
  BY <1>1, <1>2, <1>8, <1>10, <1>11, <1>12, <1>16, BeginsSelf DEF Hands
<1> QED
  BY <1>13, <1>14, <1>15, <1>17, <1>18, OthersLoop DEF LoopsInv

LEMMA AcquireLoops ==
  ASSUME Calls!ConstantsOK, LoopsInv, NEW p \in Caller, Calls!Acquire(p)
  PROVE  LoopsInv'
<1>1. /\ iter[p].stage = "starting" /\ Shapes /\ LeftOver /\ InLoop(p) /\ Hands(p)
      /\ items' = items /\ left' = left /\ at' = at /\ before' = before /\ got' = got
  BY DEF Calls!Acquire, LoopsInv
<1>2. left[p] # <<>> /\ at[p] # "call"
  BY <1>1 DEF InLoop
<1>3. PICK c \in Container : c = On(p)
  BY <1>1, <1>2, CallIs DEF On
<1>4. PICK order \in Calls!Ranged(c) :
        iter' = [iter EXCEPT ![p] = [stage |-> "sending", pending |-> order]]
  BY <1>3 DEF Calls!Acquire, On
<1>5. lock[c] = {} /\ lock' = [lock EXCEPT ![c] = {IteratorOf(p)}]
  BY <1>3 DEF Calls!Acquire, Calls!Free, On, IteratorOf
<1>6. PICK h \in Calls!Holder : h = IteratorOf(p)
  BY DEF Calls!Holder, IteratorOf
<1>7. lock' \in [Container -> SUBSET Calls!Holder] /\ lock'[c] = {IteratorOf(p)}
      /\ \A d \in Container : lock[d] = {} \/ lock'[d] = lock[d]
  BY <1>1, <1>5, <1>6 DEF Shapes
<1>8. order \in Seq(Item) /\ SameItems(order, items[c]) /\ (c \notin Maps => order = items[c])
  BY <1>1, RangedIs
<1>9. PICK k \in [stage : Calls!Stage, pending : Seq(Item)] :
        k = [stage |-> "sending", pending |-> order]
  BY <1>8 DEF Calls!Stage
<1>10. iter' \in [Caller -> [stage : Calls!Stage, pending : Seq(Item)]]
       /\ iter'[p].stage = "sending" /\ iter'[p].pending = order
       /\ \A q \in Caller \ {p} : iter'[q] = iter[q]
  BY <1>1, <1>4, <1>9 DEF Shapes
<1>11. Shapes' /\ LeftOver'
  BY <1>1, <1>7, <1>10 DEF Shapes, LeftOver
<1>12. KeepsTypes /\ OnlyGrows
  BY <1>1, ItemsSame
<1>13. Others(p)
  BY <1>1, <1>7, <1>10 DEF Others
<1>14. On(p)' = On(p) /\ Calls!Call(p)' = Calls!Call(p)
  BY <1>1 DEF On, Calls!Call
<1>15. InLoop(p)'
  BY <1>1, <1>2, <1>10, <1>14 DEF InLoop
<1>16. got'[p] = <<>> /\ got'[p] \o order = order
  BY <1>1, <1>8, ConcatEmptySeq DEF Hands
<1>17. c \notin Maps => Begins(before[p], items[c])
  BY <1>1, <1>3 DEF Hands
<1>18. Sends(p)'
  BY <1>1, <1>3, <1>7, <1>8, <1>10, <1>14, <1>16, <1>17 DEF Sends, IteratorOf
<1>19. Hands(p)'
  BY <1>10, <1>18 DEF Hands
<1> QED
  BY <1>11, <1>12, <1>13, <1>15, <1>19, OthersLoop DEF LoopsInv

LEMMA HandOverLoops ==
  ASSUME Calls!ConstantsOK, LoopsInv, NEW p \in Caller, Calls!HandOver(p)
  PROVE  LoopsInv'
<1>1. /\ iter[p].stage = "sending" /\ at[p] = "looping"
      /\ Shapes /\ LeftOver /\ InLoop(p) /\ Hands(p)
      /\ items' = items /\ lock' = lock /\ left' = left /\ before' = before
      /\ at' = [at EXCEPT ![p] = IF "body" \in DOMAIN Calls!Call(p) THEN "body" ELSE "looping"]
  BY DEF Calls!HandOver, LoopsInv
<1>2. PICK s \in Seq(Item), t \in Seq(Item) : s = got[p] /\ t = iter[p].pending
  BY <1>1 DEF Shapes
<1>3. t # <<>>
  BY <1>2 DEF Calls!HandOver
<1>4. PICK x \in Item, u \in Seq(Item) : x = Head(t) /\ u = Tail(t)
  BY <1>3, HeadTailProperties
<1>5. PICK r \in Seq(Item) : r = Append(s, x)
  BY AppendProperties
<1>6. PICK k \in [stage : Calls!Stage, pending : Seq(Item)] :
        k = [iter[p] EXCEPT !.pending = u]
  BY <1>1 DEF Shapes
<1>7. iter' = [iter EXCEPT ![p] = k]
  BY <1>2, <1>4, <1>6 DEF Calls!HandOver, Shapes
<1>8. k.stage = "sending" /\ k.pending = u
  BY <1>1, <1>6 DEF Shapes
<1>9. iter' \in [Caller -> [stage : Calls!Stage, pending : Seq(Item)]]
      /\ iter'[p] = k /\ \A q \in Caller \ {p} : iter'[q] = iter[q]
  BY <1>1, <1>7 DEF Shapes
<1>10. got' = [got EXCEPT ![p] = r]
  BY <1>2, <1>4, <1>5 DEF Calls!HandOver, Shapes
<1>11. got' \in [Caller -> Seq(Item)] /\ got'[p] = r
       /\ \A q \in Caller \ {p} : got'[q] = got[q]
  BY <1>1, <1>10 DEF Shapes
<1>12. at' \in [Caller -> {"call", "looping", "body"}]
       /\ at'[p] \in {"looping", "body"} /\ (at'[p] = "body" => "body" \in DOMAIN Calls!Call(p))
       /\ \A q \in Caller \ {p} : at'[q] = at[q]
  BY <1>1 DEF Shapes
<1>13. Shapes' /\ LeftOver'
  BY <1>1, <1>9, <1>11, <1>12 DEF Shapes, LeftOver
<1>14. KeepsTypes /\ OnlyGrows
  BY <1>1, ItemsSame
<1>15. Others(p)
  BY <1>1, <1>9, <1>11, <1>12 DEF Others
<1>16. On(p)' = On(p) /\ Calls!Call(p)' = Calls!Call(p)
  BY <1>1 DEF On, Calls!Call
<1>17. InLoop(p)'
  BY <1>1, <1>8, <1>9, <1>12, <1>16 DEF InLoop
<1>18. r \o u = s \o t
  BY <1>3, <1>4, <1>5, HandedOver
<1>19. got'[p] \o iter'[p].pending = got[p] \o iter[p].pending
  BY <1>2, <1>8, <1>9, <1>11, <1>18
<1>20. Sends(p)
  BY <1>1 DEF Hands
<1>21. Sends(p)'
  BY <1>1, <1>16, <1>19, <1>20 DEF Sends, IteratorOf
<1>22. Hands(p)'
  BY <1>8, <1>9, <1>21 DEF Hands
<1> QED
  BY <1>13, <1>14, <1>15, <1>17, <1>22, OthersLoop DEF LoopsInv

LEMMA CloseLoops ==
  ASSUME Calls!ConstantsOK, LoopsInv, NEW p \in Caller, Calls!Close(p)
  PROVE  LoopsInv'
<1>1. /\ iter[p].stage = "sending" /\ iter[p].pending = <<>>
      /\ Shapes /\ LeftOver /\ InLoop(p) /\ Hands(p)
      /\ items' = items /\ left' = left /\ at' = at /\ before' = before /\ got' = got
  BY DEF Calls!Close, LoopsInv
<1>2. left[p] # <<>> /\ at[p] # "call"
  BY <1>1 DEF InLoop
<1>3. PICK c \in Container : c = On(p)
  BY <1>1, <1>2, CallIs DEF On
<1>4. lock' = [lock EXCEPT ![c] = {}]
  BY <1>3 DEF Calls!Close, Calls!Unlocked, On
<1>5. lock[c] = {IteratorOf(p)} /\ Sends(p)
  BY <1>1, <1>3 DEF Hands, Sends
<1>6. lock' \in [Container -> SUBSET Calls!Holder]
      /\ \A d \in Container : d = c \/ lock'[d] = lock[d]
  BY <1>1, <1>4 DEF Shapes
<1>7. PICK k \in [stage : Calls!Stage, pending : Seq(Item)] :
        k = [iter[p] EXCEPT !.stage = "closed"]
  BY <1>1 DEF Shapes, Calls!Stage
<1>8. k.stage = "closed"
  BY <1>1, <1>7 DEF Shapes
<1>9. iter' = [iter EXCEPT ![p] = k]
  BY <1>7 DEF Calls!Close, Shapes
<1>10. iter' \in [Caller -> [stage : Calls!Stage, pending : Seq(Item)]]
       /\ iter'[p] = k /\ \A q \in Caller \ {p} : iter'[q] = iter[q]
  BY <1>1, <1>9 DEF Shapes
<1>11. Shapes' /\ LeftOver'
  BY <1>1, <1>6, <1>10 DEF Shapes, LeftOver
<1>12. KeepsTypes /\ OnlyGrows
  BY <1>1, ItemsSame
<1>13. \A q \in Caller \ {p} : {IteratorOf(q)} # {IteratorOf(p)}
  <2>1. ASSUME NEW q \in Caller \ {p}, {IteratorOf(q)} = {IteratorOf(p)}
        PROVE  FALSE
    <3>1. IteratorOf(q) = IteratorOf(p)
      BY <2>1
    <3>2. IteratorOf(q).who = q /\ IteratorOf(p).who = p
      BY DEF IteratorOf
    <3> QED
      BY <3>1, <3>2
  <2> QED
    BY <2>1
<1>14. Others(p)
  BY <1>1, <1>5, <1>6, <1>10, <1>13 DEF Others
<1>15. On(p)' = On(p) /\ Calls!Call(p)' = Calls!Call(p)
  BY <1>1 DEF On, Calls!Call
<1>16. InLoop(p)'
  BY <1>1, <1>2, <1>8, <1>10, <1>15 DEF InLoop
<1>17. On(p) \notin Maps => Begins(before[p], got[p])
  <2>1. got[p] \in Seq(Item)
    BY <1>1 DEF Shapes
  <2>2. got[p] \o iter[p].pending = got[p]
    BY <1>1, <2>1, ConcatEmptySeq
  <2> QED
    BY <1>5, <2>2 DEF Sends
<1>18. Hands(p)'
  BY <1>1, <1>8, <1>10, <1>15, <1>17 DEF Hands
<1> QED
  BY <1>11, <1>12, <1>14, <1>16, <1>18, OthersLoop DEF LoopsInv

LEMMA EndLoopLoops ==
  ASSUME Calls!ConstantsOK, LoopsInv, NEW p \in Caller, Calls!EndLoop(p)
  PROVE  LoopsInv'
<1>1. /\ at[p] = "looping" /\ Shapes /\ LeftOver /\ InLoop(p) /\ Calls!Return(p)
      /\ items' = items /\ lock' = lock /\ before' = before /\ got' = got
      /\ at' = [at EXCEPT ![p] = "call"]
  BY DEF Calls!EndLoop, LoopsInv
<1>2. left[p] # <<>>
  BY <1>1 DEF InLoop
<1>3. /\ LeftOver' /\ left' \in [Caller -> Seq(Calls!Written)]
      /\ \A q \in Caller : q = p \/ left'[q] = left[q]
  BY <1>1, <1>2, ReturnIs
<1>4. PICK k \in [stage : Calls!Stage, pending : Seq(Item)] :
        k = Calls!NoIter /\ k.stage = "none"
  BY NoIterIs
<1>5. iter' = [iter EXCEPT ![p] = k]
  BY <1>4 DEF Calls!EndLoop
<1>6. iter' \in [Caller -> [stage : Calls!Stage, pending : Seq(Item)]]
      /\ iter'[p] = k /\ \A q \in Caller \ {p} : iter'[q] = iter[q]
  BY <1>1, <1>5 DEF Shapes
<1>7. at' \in [Caller -> {"call", "looping", "body"}] /\ at'[p] = "call"
      /\ \A q \in Caller \ {p} : at'[q] = at[q]
  BY <1>1 DEF Shapes
<1>8. Shapes'
  BY <1>1, <1>3, <1>6, <1>7 DEF Shapes
<1>9. KeepsTypes /\ OnlyGrows
  BY <1>1, ItemsSame
<1>10. Others(p)
  BY <1>1, <1>3, <1>6, <1>7 DEF Others
<1>11. InLoop(p)' /\ Hands(p)'
  BY <1>4, <1>6, <1>7 DEF InLoop, Hands
<1> QED
  BY <1>3, <1>8, <1>9, <1>10, <1>11, OthersLoop DEF LoopsInv

-----------------------------------------------------------------------------
LEMMA LoopsInit ==
  ASSUME Calls!ConstantsOK, Calls!Init
  PROVE  LoopsInv
<1>1. PICK e \in Seq(Item) : e = <<>> /\ Distinct(e)
  BY EmptyIs
<1>2. items \in [Container -> Seq(Item)] /\ \A c \in Container : items[c] = e
  BY <1>1 DEF Calls!Init
<1>3. Maps \subseteq Container /\ \A c \in Maps : Distinct(items[c])
  BY <1>1, <1>2 DEF Calls!ConstantsOK
<1>4. left \in Scripts /\ left \in [Caller -> Seq(Calls!Written)]
  BY DEF Calls!Init, Calls!ConstantsOK
<1>5. PICK k \in [stage : Calls!Stage, pending : Seq(Item)] :
        k = Calls!NoIter /\ k.stage = "none"
  BY NoIterIs
<1>6. iter \in [Caller -> [stage : Calls!Stage, pending : Seq(Item)]]
      /\ \A p \in Caller : iter[p] = k
  BY <1>5 DEF Calls!Init
<1>7. at \in [Caller -> {"call", "looping", "body"}] /\ \A p \in Caller : at[p] = "call"
  BY DEF Calls!Init
<1>8. lock \in [Container -> SUBSET Calls!Holder]
      /\ before \in [Caller -> Seq(Item)] /\ got \in [Caller -> Seq(Item)]
  BY <1>1 DEF Calls!Init
<1>9. Shapes
  BY <1>2, <1>3, <1>4, <1>6, <1>7, <1>8 DEF Shapes
<1>10. LeftOver
  BY <1>4, SuffixSelf DEF LeftOver
<1>11. \A p \in Caller : InLoop(p) /\ Hands(p)
  BY <1>5, <1>6, <1>7 DEF InLoop, Hands
<1> QED
  BY <1>9, <1>10, <1>11 DEF LoopsInv

LEMMA LoopsNext ==
  ASSUME Calls!ConstantsOK, LoopsInv, [Calls!Next]_(Calls!vars)
  PROVE  LoopsInv'
<1>1. ASSUME NEW p \in Caller, Calls!Step(p)
      PROVE  LoopsInv'
  BY <1>1, SimpleCallLoops, StartLoopLoops, AcquireLoops, HandOverLoops, BodyLoops, CloseLoops,
     EndLoopLoops, Zenon DEF Calls!Step
<1>2. CASE Calls!Next
  BY <1>1, <1>2, Zenon DEF Calls!Next
<1>3. CASE UNCHANGED Calls!vars
  BY <1>3 DEF Calls!vars, LoopsInv, Shapes, LeftOver, InLoop, Hands, Sends, On, IteratorOf,
     Calls!Call
<1> QED
  BY <1>2, <1>3

LEMMA LoopsSee ==
  ASSUME Calls!ConstantsOK, LoopsInv
  PROVE  IterSeesOneState
<1>1. Shapes /\ LeftOver
  BY DEF LoopsInv
<1>2. Calls!TypeOK
  <2>1. \A p \in Caller : iter[p].stage \in Calls!Stage
    BY <1>1 DEF Shapes
  <2> QED
    BY <1>1, <2>1 DEF Calls!TypeOK, Shapes, LeftOver, Distinct
<1>3. ASSUME NEW p \in Caller, iter[p].stage = "sending"
      PROVE  /\ Len(got[p] \o iter[p].pending) = Len(items[Calls!Call(p).on])
             /\ Calls!ToSet(got[p] \o iter[p].pending) = Calls!ToSet(items[Calls!Call(p).on])
  BY <1>3 DEF LoopsInv, Hands, Sends, SameItems, On
<1>4. ASSUME NEW p \in Caller, iter[p].stage = "closed", Calls!Call(p).on \notin Maps
      PROVE  Calls!IsPrefix(before[p], got[p])
  <2>1. Begins(before[p], got[p])
    BY <1>4 DEF LoopsInv, Hands, On
  <2>2. before[p] \in Seq(Item) /\ got[p] \in Seq(Item)
    BY <1>1 DEF Shapes
  <2> QED
    BY <2>1, <2>2, PrefixIs
<1> QED
  BY <1>2, <1>3, <1>4 DEF IterSeesOneState, Calls!IterSeesOneState

(* A loop over a container that others use goes over the items of one      *)
(* moment, each once, and over a slice misses none that was there when it  *)
(* began (datastruct.go:112-127, 314-329), whatever the callers do.        *)
THEOREM LoopsSeeOneState ==
  ASSUME Calls!ConstantsOK
  PROVE  Calls!Spec => []IterSeesOneState
<1>1. Calls!Init => LoopsInv
  BY LoopsInit
<1>2. LoopsInv /\ [Calls!Next]_(Calls!vars) => LoopsInv'
  BY LoopsNext
<1>3. LoopsInv => IterSeesOneState
  BY LoopsSee
<1> QED
  BY <1>1, <1>2, <1>3, PTL DEF Calls!Spec

-----------------------------------------------------------------------------
(* Who holds a lock is in a loop over that container.                      *)
LockedBy(p, c) ==
  /\ On(p) = c
  /\ \/ iter[p].stage = "starting" /\ lock[c] = {[who |-> p, as |-> "caller"]}
     \/ iter[p].stage = "sending" /\ lock[c] = {IteratorOf(p)}

Held == \A c \in Container : lock[c] = {} \/ \E p \in Caller : LockedBy(p, c)

LocksInv == LoopsInv /\ Held

(* Only the locks that q has or gets change.                               *)
LEMMA StillHeld ==
  ASSUME Held, NEW q \in Caller,
         \A p \in Caller \ {q} : left'[p] = left[p] /\ iter'[p] = iter[p],
         \A c \in Container : \/ lock'[c] = {} \/ LockedBy(q, c)'
                              \/ lock'[c] = lock[c] /\ ~LockedBy(q, c)
  PROVE  Held'
<1>1. ASSUME NEW c \in Container, lock'[c] # {}, ~LockedBy(q, c)'
      PROVE  \E p \in Caller : LockedBy(p, c)'
  <2>1. lock'[c] = lock[c] /\ ~LockedBy(q, c)
    BY <1>1
  <2>2. PICK p \in Caller : LockedBy(p, c)
    BY <1>1, <2>1 DEF Held
  <2>3. p # q
    BY <2>1, <2>2
  <2>4. left'[p] = left[p] /\ iter'[p] = iter[p]
    BY <2>3
  <2> QED
    BY <2>1, <2>2, <2>4 DEF LockedBy, On, IteratorOf, Calls!Call
<1> QED
  BY <1>1 DEF Held

LEMMA LocksStep ==
  ASSUME Calls!ConstantsOK, LocksInv, LoopsInv', NEW q \in Caller, Calls!Step(q)
  PROVE  Held'
<1>1. Held /\ Shapes /\ InLoop(q) /\ Hands(q)
  BY DEF LocksInv, LoopsInv
<1>2. CASE Calls!SimpleCall(q)
  <2>1. iter[q].stage = "none" /\ left[q] # <<>> /\ lock' = lock /\ iter' = iter
    BY <1>1, <1>2 DEF Calls!SimpleCall, InLoop
  <2>2. \A p \in Caller \ {q} : left'[p] = left[p]
    BY <1>1, <1>2 DEF Calls!SimpleCall, Calls!Return, Shapes
  <2> QED
    BY <1>1, <2>1, <2>2, StillHeld DEF LockedBy
<1>3. CASE Calls!StartLoop(q)
  <2>1. iter[q].stage = "none" /\ left[q] # <<>> /\ left' = left
        /\ iter' = [iter EXCEPT ![q] = [stage |-> "starting", pending |-> <<>>]]
    BY <1>1, <1>3 DEF Calls!StartLoop, InLoop
  <2>2. On(q) \in Container /\ On(q)' = On(q)
    BY <1>1, <2>1, CallIs DEF On, Calls!Call
  <2>3. lock' = lock \/ lock' = [lock EXCEPT ![On(q)] = {[who |-> q, as |-> "caller"]}]
    BY <1>3 DEF Calls!StartLoop, On
  <2>4. iter'[q].stage = "starting" /\ \A p \in Caller \ {q} : iter'[p] = iter[p]
    BY <1>1, <2>1 DEF Shapes
  <2>5. \A c \in Container : lock'[c] = lock[c] \/ LockedBy(q, c)'
    BY <1>1, <2>2, <2>3, <2>4 DEF Shapes, LockedBy
  <2>6. \A c \in Container : ~LockedBy(q, c)
    BY <2>1 DEF LockedBy
  <2> QED
    BY <1>1, <2>1, <2>4, <2>5, <2>6, StillHeld
<1>4. CASE Calls!Acquire(q)
  <2>1. iter[q].stage = "starting" /\ left' = left /\ lock[On(q)] = {}
        /\ lock' = [lock EXCEPT ![On(q)] = {IteratorOf(q)}]
    BY <1>4 DEF Calls!Acquire, Calls!Free, On, IteratorOf
  <2>2. left[q] # <<>> /\ On(q)' = On(q)
    BY <1>1, <2>1 DEF InLoop, On, Calls!Call
  <2>3. PICK order : iter' = [iter EXCEPT ![q] = [stage |-> "sending", pending |-> order]]
    BY <1>4 DEF Calls!Acquire
  <2>4. iter'[q].stage = "sending" /\ \A p \in Caller \ {q} : iter'[p] = iter[p]
    BY <1>1, <2>3 DEF Shapes
  <2>5. \A c \in Container : lock'[c] = lock[c] \/ LockedBy(q, c)'
    BY <1>1, <2>1, <2>2, <2>4 DEF Shapes, LockedBy, IteratorOf
  <2>6. \A c \in Container : ~LockedBy(q, c)
    BY <2>1 DEF LockedBy
  <2> QED
    BY <1>1, <2>1, <2>4, <2>5, <2>6, StillHeld
<1>5. CASE Calls!HandOver(q)
  <2>1. iter[q].stage = "sending" /\ left' = left /\ lock' = lock
        /\ iter' = [iter EXCEPT ![q].pending = Tail(@)]
    BY <1>5 DEF Calls!HandOver
  <2>2. iter'[q].stage = "sending" /\ \A p \in Caller \ {q} : iter'[p] = iter[p]
    BY <1>1, <2>1 DEF Shapes
  <2>3. \A c \in Container : LockedBy(q, c) => LockedBy(q, c)'
    BY <2>1, <2>2 DEF LockedBy, On, IteratorOf, Calls!Call
  <2> QED
    BY <1>1, <2>1, <2>2, <2>3, StillHeld
<1>6. CASE Calls!Body(q)
  <2>1. left' = left /\ lock' = lock /\ iter' = iter
    BY <1>6 DEF Calls!Body
  <2> QED
    BY <1>1, <2>1 DEF Held, LockedBy, On, IteratorOf, Calls!Call
<1>7. CASE Calls!Close(q)
  <2>1. iter[q].stage = "sending" /\ left' = left /\ lock' = [lock EXCEPT ![On(q)] = {}]
        /\ iter' = [iter EXCEPT ![q].stage = "closed"]
    BY <1>7 DEF Calls!Close, Calls!Unlocked, On
  <2>2. \A p \in Caller \ {q} : iter'[p] = iter[p]
    BY <1>1, <2>1 DEF Shapes
  <2>3. \A c \in Container : lock'[c] = {} \/ (lock'[c] = lock[c] /\ ~LockedBy(q, c))
    BY <1>1, <2>1 DEF Shapes, LockedBy
  <2> QED
    BY <1>1, <2>1, <2>2, <2>3, StillHeld
<1>8. CASE Calls!EndLoop(q)
  <2>1. iter[q].stage = "closed" /\ lock' = lock /\ iter' = [iter EXCEPT ![q] = Calls!NoIter]
    BY <1>8 DEF Calls!EndLoop
  <2>2. \A p \in Caller \ {q} : left'[p] = left[p] /\ iter'[p] = iter[p]
    BY <1>1, <1>8, <2>1 DEF Calls!EndLoop, Calls!Return, Shapes
  <2>3. \A c \in Container : ~LockedBy(q, c)
    BY <2>1 DEF LockedBy
  <2> QED
    BY <1>1, <2>1, <2>2, <2>3, StillHeld
<1> QED
  BY <1>2, <1>3, <1>4, <1>5, <1>6, <1>7, <1>8, Zenon DEF Calls!Step

LEMMA LocksNext ==
  ASSUME Calls!ConstantsOK, LocksInv, [Calls!Next]_(Calls!vars)
  PROVE  LocksInv'
<1>1. LoopsInv'
  BY LoopsNext DEF LocksInv
<1>2. CASE Calls!Next
  BY <1>1, <1>2, LocksStep, Zenon DEF Calls!Next, LocksInv
<1>3. CASE UNCHANGED Calls!vars
  BY <1>1, <1>3 DEF Calls!vars, LocksInv, Held, LockedBy, On, IteratorOf, Calls!Call
<1> QED
  BY <1>2, <1>3

(* Someone who holds a lock, and whom a lock stops.                        *)
LEMMA HolderWaits ==
  ASSUME Calls!ConstantsOK, LoopsInv, NEW p \in Caller, NEW c \in Container, LockedBy(p, c),
         Calls!Waits(p) \/ Calls!Finished(p), ~Calls!OwnLoop(p)
  PROVE  /\ at[p] = "body" /\ lock[Calls!Call(p).body.on] # {}
         /\ "body" \in DOMAIN Calls!Call(p) /\ Calls!Call(p).body.on # c
<1>1. InLoop(p) /\ On(p) = c
  BY DEF LoopsInv, LockedBy
<1>2. iter[p].stage # "starting"
  BY <1>1 DEF LockedBy, Calls!OwnLoop, On
<1>3. iter[p].stage = "sending" /\ lock[c] = {IteratorOf(p)}
  BY <1>2 DEF LockedBy
<1>4. at[p] # "call" /\ left[p] # <<>>
  BY <1>1, <1>3 DEF InLoop
<1>5. at[p] = "body" /\ lock[Calls!Call(p).body.on] # {}
  BY <1>2, <1>4 DEF Calls!Waits, Calls!Finished, Calls!Free
<1>6. Calls!Call(p).body.on # c
  BY <1>3, <1>5 DEF Calls!OwnLoop, IteratorOf
<1> QED
  BY <1>1, <1>5, <1>6 DEF InLoop

LEMMA OwnLoopBlocks ==
  ASSUME Calls!ConstantsOK, LocksInv, NEW rank \in [Container -> Nat],
         Calls!BodiesDescend(rank)
  PROVE  StuckOnlyOnItself
<1>0. LoopsInv /\ Held /\ Shapes
  BY DEF LocksInv, LoopsInv
<1> SUFFICES ASSUME \A p \in Caller : Calls!Waits(p) \/ Calls!Finished(p),
                    \A p \in Caller : ~Calls!OwnLoop(p),
                    NEW q \in Caller, ~Calls!Finished(q)
             PROVE  FALSE
  BY DEF StuckOnlyOnItself, Calls!StuckOnlyOnItself
<1>1. PICK k \in Container : lock[k] # {}
  <2>1. left[q] # <<>> /\ Calls!Waits(q) /\ InLoop(q)
    BY <1>0 DEF Calls!Finished, LoopsInv
  <2>2. Calls!Call(q).on \in Container
        /\ ("body" \in DOMAIN Calls!Call(q) => Calls!Call(q).body.on \in Container)
    BY <1>0, <2>1, CallIs
  <2> QED
    BY <2>1, <2>2 DEF Calls!Waits, Calls!Free, InLoop
<1>2. PICK R : R = {rank[c] : c \in {d \in Container : lock[d] # {}}}
  OBVIOUS
<1>3. R \in SUBSET Nat /\ R # {}
  BY <1>1, <1>2
<1>4. PICK m \in R : \A j \in R : m <= j
  BY <1>3, LeastPlace
<1>5. PICK c \in Container : lock[c] # {} /\ rank[c] = m
  BY <1>2
<1>6. PICK p \in Caller : LockedBy(p, c)
  BY <1>0, <1>5 DEF Held
<1>7. /\ at[p] = "body" /\ lock[Calls!Call(p).body.on] # {}
      /\ "body" \in DOMAIN Calls!Call(p) /\ Calls!Call(p).body.on # c
  BY <1>0, <1>6, HolderWaits
<1>8. left[p] # <<>> /\ Calls!Call(p).on = c
  BY <1>0, <1>6, <1>7 DEF LoopsInv, InLoop, LockedBy, On
<1>9. PICK b \in Container : b = Calls!Call(p).body.on
  BY <1>0, <1>7, <1>8, CallIs
<1>10. rank[b] < rank[c]
  BY <1>0, <1>7, <1>8, <1>9, CallIs DEF Calls!BodiesDescend
<1>11. m <= rank[b]
  BY <1>2, <1>4, <1>7, <1>9
<1> QED
  BY <1>3, <1>5, <1>10, <1>11

(* Callers of containers never block each other: if all wait, one is in    *)
(* its own way (datastruct.go:100, 305; file.go:54-57), for any program in *)
(* which the body of a loop only uses containers of lower rank.            *)
THEOREM OnlyOwnLoopsBlock ==
  ASSUME Calls!ConstantsOK, NEW rank \in [Container -> Nat], Calls!BodiesDescend(rank)
  PROVE  Calls!Spec => []StuckOnlyOnItself
<1>1. Calls!Init => LocksInv
  BY LoopsInit DEF LocksInv, Held, Calls!Init
<1>2. LocksInv /\ [Calls!Next]_(Calls!vars) => LocksInv'
  BY LocksNext
<1>3. LocksInv => StuckOnlyOnItself
  BY OwnLoopBlocks
<1> QED
  BY <1>1, <1>2, <1>3, PTL DEF Calls!Spec
=============================================================================
