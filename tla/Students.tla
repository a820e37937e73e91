------------------------------ MODULE Students ------------------------------
(***************************************************************************)
(* src/l3/anulowanie_watkow.c: student threads go through three years and  *)
(* become engineers; main cancels them one after the other in a random     *)
(* order until its four seconds are over, then joins them all and prints   *)
(* how many are in each year.  A year is a counter behind its own mutex.   *)
(*                                                                         *)
(* Cancellation is deferred: a cancelled student goes on until it sleeps,  *)
(* the only cancellation point, and there runs decrement_counter as its    *)
(* cleanup handler.                                                        *)
(***************************************************************************)
EXTENDS Integers, FiniteSets

CONSTANTS
    studentsCount,  \* the number of students
    MaxKicks        \* most rounds of main's loop: 40 of 100 ms in four seconds

Students == 0 .. studentsCount - 1
Years == 0 .. 3     \* three years, then the engineers

VARIABLES
    values,     \* the counters of the years
    mxCounters, \* who holds the counter's mutex, {} or {s}
    pc,         \* where a student is
    doing,      \* "increment", "decrement" or, when cancelled, "cleanup"
    year,       \* args.year of a student
    reg,        \* the counter value it has loaded
    cancelled,  \* students pthread_cancel was called for
    tab,        \* main's random permutation
    removed, present,   \* studentsList
    ile_wyrzuconych,    \* rounds of main's loop
    over,       \* main has seen that its four seconds are over
    mainpc      \* where main is

vars == <<values, mxCounters, pc, doing, year, reg, cancelled, tab, removed, present,
          ile_wyrzuconych, over, mainpc>>
shared == <<values, mxCounters>>
own == <<pc, doing, year, reg>>
mains == <<tab, removed, present, ile_wyrzuconych, over>>

Goto(s, place) == pc' = [pc EXCEPT ![s] = place]
Gone(s) == pc[s] \in {"returned", "kicked"}
-----------------------------------------------------------------------------
\* What main's shuffle can make of the numbers of the students.
Shuffled_WithDraws == [Students -> Students]   \* mutation
Shuffled ==
    {f \in [Students -> Students] : \A s, t \in Students : f[s] = f[t] => s = t}

Init ==
    /\ values = [y \in Years |-> 0]
    /\ mxCounters = [y \in Years |-> {}]
    /\ pc = [s \in Students |-> "unborn"]
    /\ doing = [s \in Students |-> "increment"]
    /\ year = [s \in Students |-> 0]
    /\ reg = [s \in Students |-> 0]
    /\ cancelled = {}
    /\ tab \in Shuffled
    /\ removed = [s \in Students |-> FALSE]
    /\ present = studentsCount
    /\ ile_wyrzuconych = 0
    /\ over = FALSE
    /\ mainpc = "create"

\* main creates the students in order; only when all exist does the clock start.
Create(s) ==
    /\ mainpc = "create"
    /\ pc[s] = "unborn" /\ \A t \in Students : t < s => pc[t] # "unborn"
    /\ Goto(s, "lock")
    /\ mainpc' = IF s = studentsCount - 1 THEN "look" ELSE "create"
    /\ UNCHANGED <<shared, doing, year, reg, cancelled, mains>>

\* increment_counter and decrement_counter: lock, load, store, unlock.
Lock(s) ==
    /\ pc[s] = "lock"
    /\ mxCounters[year[s]] = {}
    /\ mxCounters' = [mxCounters EXCEPT ![year[s]] = {s}]
    /\ Goto(s, "load")
    /\ UNCHANGED <<values, doing, year, reg, cancelled, mains, mainpc>>

Load(s) ==
    /\ pc[s] = "load"
    /\ reg' = [reg EXCEPT ![s] = values[year[s]]]
    /\ Goto(s, "store")
    /\ UNCHANGED <<shared, doing, year, cancelled, mains, mainpc>>

Store(s) ==
    /\ pc[s] = "store"
    /\ values' = [values EXCEPT ![year[s]] =
                    IF doing[s] = "increment" THEN reg[s] + 1 ELSE reg[s] - 1]
    /\ Goto(s, "unlock")
    /\ UNCHANGED <<mxCounters, doing, year, reg, cancelled, mains, mainpc>>

Unlock(s) ==
    /\ pc[s] = "unlock"
    /\ mxCounters' = [mxCounters EXCEPT ![year[s]] = {}]
    /\ \/ /\ doing[s] = "increment"
          /\ Goto(s, IF year[s] = 3 THEN "returned" ELSE "asleep")
          /\ UNCHANGED <<doing, year>>
       \/ /\ doing[s] = "decrement"
          /\ Goto(s, "lock")
          /\ doing' = [doing EXCEPT ![s] = "increment"]
          /\ year' = [year EXCEPT ![s] = @ + 1]
       \/ /\ doing[s] = "cleanup"
          /\ Goto(s, "kicked")
          /\ UNCHANGED <<doing, year>>
    /\ UNCHANGED <<values, reg, cancelled, mains, mainpc>>

\* The second is over: pthread_cleanup_pop(1) runs the handler, too.
WakeUp(s) ==
    /\ pc[s] = "asleep" /\ s \notin cancelled
    /\ Goto(s, "lock")
    /\ doing' = [doing EXCEPT ![s] = "decrement"]
    /\ UNCHANGED <<shared, year, reg, cancelled, mains, mainpc>>

\* A cancelled student never gets past a sleep: the handler runs, and it ends.
BeCancelled_NoHandler(s) ==                    \* mutation
    /\ pc[s] = "asleep" /\ s \in cancelled
    /\ Goto(s, "kicked")
    /\ UNCHANGED <<shared, doing, year, reg, cancelled, mains, mainpc>>
BeCancelled(s) ==
    /\ pc[s] = "asleep" /\ s \in cancelled
    /\ Goto(s, "lock")
    /\ doing' = [doing EXCEPT ![s] = "cleanup"]
    /\ UNCHANGED <<shared, year, reg, cancelled, mains, mainpc>>
-----------------------------------------------------------------------------
\* main sleeps, looks at the clock; how many rounds fit is left open.
LastRound(r) == r >= MaxKicks
Look ==
    /\ mainpc = "look"
    /\ over' \in {TRUE, LastRound(ile_wyrzuconych + 1)}
    /\ mainpc' = "kick"
    /\ UNCHANGED <<shared, own, cancelled, tab, removed, present, ile_wyrzuconych>>

\* kick_student: nobody left, or the next of the permutation, waiting in
\* vain if that one was kicked before.  Only when nobody is left is the
\* index beyond the permutation.
Kick ==
    /\ mainpc = "kick"
    /\ \/ /\ present = 0
          /\ UNCHANGED <<cancelled, removed, present>>
       \/ /\ present # 0 /\ ile_wyrzuconych \in Students
          /\ LET idx == tab[ile_wyrzuconych] IN
                /\ ~removed[idx]
                /\ cancelled' = cancelled \cup {idx}
                /\ removed' = [removed EXCEPT ![idx] = TRUE]
          /\ present' = present - 1
    /\ ile_wyrzuconych' = ile_wyrzuconych + 1
    /\ mainpc' = IF over THEN "join" ELSE "look"
    /\ UNCHANGED <<shared, own, tab, over>>

\* pthread_join of every student, the four lines, exit().
Finish ==
    /\ mainpc = "join"
    /\ \A s \in Students : Gone(s)
    /\ mainpc' = "printed"
    /\ UNCHANGED <<shared, own, cancelled, mains>>

StudentStep(s) ==
    Lock(s) \/ Load(s) \/ Store(s) \/ Unlock(s) \/ WakeUp(s) \/ BeCancelled(s)
MainStep == (\E s \in Students : Create(s)) \/ Look \/ Kick \/ Finish

Next == (\E s \in Students : StudentStep(s)) \/ MainStep
-----------------------------------------------------------------------------
\* The values the variables can take; no student is kicked twice.
TypeOK ==
    /\ values \in [Years -> Nat]
    /\ mxCounters \in [Years -> {{}} \cup {{s} : s \in Students}]
    /\ pc \in [Students -> {"unborn", "lock", "load", "store", "unlock", "asleep",
                             "returned", "kicked"}]
    /\ doing \in [Students -> {"increment", "decrement", "cleanup"}]
    /\ year \in [Students -> Years]
    /\ reg \in [Students -> Nat]
    /\ cancelled \subseteq Students
    /\ tab \in [Students -> Students]
    /\ removed \in [Students -> BOOLEAN]
    /\ present \in 0 .. studentsCount
    /\ ile_wyrzuconych \in 0 .. MaxKicks
    /\ over \in BOOLEAN
    /\ mainpc \in {"create", "look", "kick", "join", "printed"}

\* Every counter tells exactly who is in that year, between the stores of
\* its increment and its decrement, wherever students are cancelled; so what
\* main prints is three zeros and the number of those never caught asleep
\* (the cleanup handler around msleep, joined before the printing).  The types
\* are part of it.
In(s, y) ==
    /\ year[s] = y
    /\ \/ doing[s] = "increment" /\ pc[s] \in {"unlock", "asleep", "returned"}
       \/ doing[s] # "increment" /\ pc[s] \in {"lock", "load", "store"}
YearsExact ==
    /\ TypeOK
    /\ \A y \in Years : values[y] = Cardinality({s \in Students : In(s, y)})
    /\ mainpc = "printed" =>
          LET kicked == {s \in Students : pc[s] = "kicked"}
          IN  /\ kicked \subseteq cancelled
              /\ values = [y \in Years |->
                             IF y = 3 THEN studentsCount - Cardinality(kicked) ELSE 0]

\* The program ends: main never spins on a student it has kicked, and no
\* cancelled student takes a mutex with it (kick_student's empty loop, the
\* joins).
ProgramEnds == <>(mainpc = "printed")
=============================================================================
