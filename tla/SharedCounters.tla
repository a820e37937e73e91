--------------------------- MODULE SharedCounters ---------------------------
(***************************************************************************)
(* The shared-memory templates of src/sop_l6_templates: template.c,        *)
(* template_lab.c and template_ds.c.  A parent forks N children; each      *)
(* leaves a letter in two shared arrays, then counts itself off on three   *)
(* shared counters, the first guarded by a robust mutex, the second by an  *)
(* unnamed and the third by a named semaphore.  A child may die on purpose *)
(* while it holds the mutex.  The parent waits for every child and reports *)
(* the three counters.                                                     *)
(*                                                                         *)
(* The three programs share their control; where they differ the operators *)
(* below depend on prog.  A counter update is a load and a store, so       *)
(* nothing but the guards makes it indivisible.                            *)
(***************************************************************************)
EXTENDS Integers, FiniteSets, RobustMutex

CONSTANTS
    N,          \* liczba_dzieci, the number of children
    MaxKills,   \* bound on the children killed from outside
    Parent      \* the parent process

ASSUME NAssumption == N \in Nat \ {0}
ASSUME KillsAssumption == MaxKills \in Nat
ASSUME ParentAssumption == Parent \notin 0 .. N - 1

Children == 0 .. N - 1
Procs == Children \cup {Parent}
Programs == {"template", "template_lab", "template_ds"}

\* The counters by the guard they stand behind: the robust mutex, the
\* unnamed semaphore, the named semaphore.
Guards == 1 .. 3
Sems == 2 .. 3
Unread == -1

VARIABLES
    prog,         \* which of the programs runs
    status,       \* "unborn", "running", "ok" or the way a process died
    pc,           \* where a process is; frozen when it ends
    stage,        \* the guard a process is working on
    reg,          \* the counter value a child has loaded
    mutex,        \* the robust mutex
    sem,          \* the values of the two semaphores
    count,        \* the three shared counters
    letters,      \* the children whose place in the shared arrays is filled
    reaped,       \* children wait() has returned
    final,        \* what the parent has read of the counters
    kills         \* children killed from outside so far

vars == <<prog, status, pc, stage, reg, mutex, sem, count, letters, reaped,
          final, kills>>

memory == <<count, letters>>
bookkeeping == <<prog, reaped, kills>>
-----------------------------------------------------------------------------
\* Where the counters start and what one child adds.
Initial == IF prog = "template_ds" THEN 0 ELSE N
Delta == IF prog = "template_ds" THEN 1 ELSE -1

\* The value both semaphores are created with.
SemInitial_Two == 2                          \* mutation
SemInitial == 1

\* The parent has waited for enough children.
WaitedForAll_ButOne(r) == Cardinality(r) >= N - 1   \* mutation
WaitedForAll(r) == Cardinality(r) = N
-----------------------------------------------------------------------------
Running(p) == status[p] = "running"
Ended(p) == status[p] \notin {"unborn", "running"}
At(p, place) == Running(p) /\ pc[p] = place
Goto(p, place) == pc' = [pc EXCEPT ![p] = place]
End(p, how) == status' = [status EXCEPT ![p] = how]

\* Process p is between taking guard k and giving it back.
Holding(p, k) ==
    stage[p] = k /\ status[p] # "unborn" /\ pc[p] \in {"recover", "load", "store", "leave"}

\* Leaving guard stage[p]: on to the next one, or to what follows the last.
Advance(p) ==
    /\ stage' = [stage EXCEPT ![p] = @ + 1]
    /\ Goto(p, IF stage[p] < 3
               THEN "enter"
               ELSE IF p = Parent THEN "teardown" ELSE "close")

\* main() up to its fork loop, with everything it sets up.
Init ==
    /\ prog \in Programs
    /\ status = [p \in Procs |-> IF p = Parent THEN "running" ELSE "unborn"]
    /\ pc = [p \in Procs |-> IF p = Parent THEN "fork" ELSE "work"]
    /\ stage = [p \in Procs |-> 1]
    /\ reg = [c \in Children |-> 0]
    /\ mutex = FreshMutex
    /\ sem = [k \in Sems |-> SemInitial]
    /\ count = [k \in Guards |-> Initial]
    /\ letters = {}
    /\ reaped = {}
    /\ final = [k \in Guards |-> Unread]
    /\ kills = 0
-----------------------------------------------------------------------------
\* The parent forks child c, the lowest one not born yet.
Fork(c) ==
    /\ At(Parent, "fork")
    /\ status[c] = "unborn"
    /\ \A d \in Children : d < c => status[d] # "unborn"
    /\ End(c, "running")
    /\ Goto(Parent, IF c = N - 1 THEN "wait" ELSE "fork")
    /\ UNCHANGED <<bookkeeping, memory, stage, reg, mutex, sem, final>>

\* fork() fails: the parent dies and leaves the children it has behind.
ForkFails ==
    /\ At(Parent, "fork")
    /\ End(Parent, "failed")
    /\ UNCHANGED <<bookkeeping, memory, pc, stage, reg, mutex, sem, final>>

\* Child c reads its part of the file and leaves its letter in both arrays;
\* which letter depends on nothing the counters depend on.
ChildWork(c) ==
    /\ At(c, "work")
    /\ letters' = letters \cup {c}
    /\ Goto(c, "enter")
    /\ UNCHANGED <<bookkeeping, status, stage, reg, mutex, sem, count, final>>

\* open(), malloc() or pread() fails in child c; the children of
\* template_ds.c share the parent's mapping and call none of them.
ChildFails(c) ==
    /\ prog # "template_ds"
    /\ At(c, "work")
    /\ End(c, "failed")
    /\ UNCHANGED <<bookkeeping, memory, pc, stage, reg, mutex, sem, final>>

\* lock_robust_or_recover up to the return of pthread_mutex_lock; any other
\* error than EOWNERDEAD kills the caller.
Lock(p) ==
    /\ At(p, "enter") /\ stage[p] = 1
    /\ Lockable(mutex)
    /\ IF LockResult(mutex) = "ENOTRECOVERABLE"
       THEN End(p, "failed") /\ UNCHANGED <<pc, mutex>>
       ELSE /\ mutex' = Acquired(mutex, p)
            /\ Goto(p, IF LockResult(mutex) = "EOWNERDEAD" THEN "recover" ELSE "load")
            /\ UNCHANGED status
    /\ UNCHANGED <<bookkeeping, memory, stage, reg, sem, final>>

\* EOWNERDEAD: the new owner declares the counter usable as it stands.
Recover_Forgets(p) ==                        \* mutation
    /\ At(p, "recover")
    /\ Goto(p, "load")
    /\ UNCHANGED <<bookkeeping, memory, status, stage, reg, mutex, sem, final>>
Recover_Repairs(p) ==                        \* mutation
    /\ At(p, "recover")
    /\ mutex' = MadeConsistent(mutex)
    /\ count' = [count EXCEPT ![1] = @ - Delta]
    /\ Goto(p, "load")
    /\ UNCHANGED <<bookkeeping, letters, status, stage, reg, sem, final>>
Recover(p) ==
    /\ At(p, "recover")
    /\ mutex' = MadeConsistent(mutex)
    /\ Goto(p, "load")
    /\ UNCHANGED <<bookkeeping, memory, status, stage, reg, sem, final>>

SemWait(p) ==
    /\ At(p, "enter") /\ stage[p] \in Sems
    /\ sem[stage[p]] > 0
    /\ sem' = [sem EXCEPT ![stage[p]] = @ - 1]
    /\ Goto(p, "load")
    /\ UNCHANGED <<bookkeeping, memory, status, stage, reg, mutex, final>>

\* The deliberate death while the mutex is held: before the update in
\* template.c and template_lab.c, after it in template_ds.c.
CrashPlace == IF prog = "template_ds" THEN "leave" ELSE "load"
Crash(c) ==
    /\ At(c, CrashPlace) /\ stage[c] = 1
    /\ End(c, "crashed")
    /\ mutex' = AfterDeath(mutex, c)
    /\ UNCHANGED <<bookkeeping, memory, pc, stage, reg, sem, final>>

\* The update of the counter behind the guard, a load and a store.
Load(c) ==
    /\ At(c, "load")
    /\ reg' = [reg EXCEPT ![c] = count[stage[c]]]
    /\ Goto(c, "store")
    /\ UNCHANGED <<bookkeeping, memory, status, stage, mutex, sem, final>>

Store(c) ==
    /\ At(c, "store")
    /\ count' = [count EXCEPT ![stage[c]] = reg[c] + Delta]
    /\ Goto(c, "leave")
    /\ UNCHANGED <<bookkeeping, letters, status, stage, reg, mutex, sem, final>>

Unlock(p) ==
    /\ At(p, "leave") /\ stage[p] = 1
    /\ mutex' = Released(mutex)
    /\ Advance(p)
    /\ UNCHANGED <<bookkeeping, memory, status, reg, sem, final>>

SemPost_Forgotten(p) ==                      \* mutation
    /\ At(p, "leave") /\ stage[p] \in Sems
    /\ Advance(p)
    /\ UNCHANGED <<bookkeeping, memory, status, reg, mutex, sem, final>>
SemPost(p) ==
    /\ At(p, "leave") /\ stage[p] \in Sems
    /\ sem' = [sem EXCEPT ![stage[p]] = @ + 1]
    /\ Advance(p)
    /\ UNCHANGED <<bookkeeping, memory, status, reg, mutex, final>>

\* sem_close() and the ordinary end of child c.
Exit(c) ==
    /\ At(c, "close")
    /\ End(c, "ok")
    /\ UNCHANGED <<bookkeeping, memory, pc, stage, reg, mutex, sem, final>>

\* Somebody kills child c, wherever it is.
Kill(c) ==
    /\ Running(c)
    /\ kills < MaxKills
    /\ kills' = kills + 1
    /\ End(c, "killed")
    /\ mutex' = AfterDeath(mutex, c)
    /\ UNCHANGED <<prog, reaped, memory, pc, stage, reg, sem, final>>
-----------------------------------------------------------------------------
\* wait() returns child c; template_ds.c waits for the children in order.
\* After the last one the parent turns to the counters: template_ds.c reads
\* them without taking their guards.
Reap(c) ==
    /\ At(Parent, "wait")
    /\ Ended(c) /\ c \notin reaped
    /\ prog = "template_ds" => 0 .. c - 1 \subseteq reaped
    /\ reaped' = reaped \cup {c}
    /\ Goto(Parent, IF WaitedForAll(reaped')
                    THEN IF prog = "template_ds" THEN "peek" ELSE "enter"
                    ELSE "wait")
    /\ UNCHANGED <<prog, kills, memory, status, stage, reg, mutex, sem, final>>

\* The parent reads the counter behind its guard.
ReadFinal ==
    /\ At(Parent, "load")
    /\ final' = [final EXCEPT ![stage[Parent]] = count[stage[Parent]]]
    /\ Goto(Parent, "leave")
    /\ UNCHANGED <<bookkeeping, memory, status, stage, reg, mutex, sem>>

\* template_ds.c reads the three counters one after the other, unguarded.
PeekFinal ==
    /\ At(Parent, "peek")
    /\ final' = [final EXCEPT ![stage[Parent]] = count[stage[Parent]]]
    /\ stage' = [stage EXCEPT ![Parent] = @ + 1]
    /\ Goto(Parent, IF stage[Parent] < 3 THEN "peek" ELSE "teardown")
    /\ UNCHANGED <<bookkeeping, memory, status, reg, mutex, sem>>

\* Everything is destroyed and unlinked.
Teardown ==
    /\ At(Parent, "teardown")
    /\ End(Parent, "ok")
    /\ UNCHANGED <<bookkeeping, memory, pc, stage, reg, mutex, sem, final>>
-----------------------------------------------------------------------------
ParentStep ==
    \/ \E c \in Children : Fork(c) \/ Reap(c)
    \/ Lock(Parent) \/ Recover(Parent) \/ SemWait(Parent) \/ ReadFinal \/ PeekFinal
    \/ Unlock(Parent) \/ SemPost(Parent) \/ Teardown

ChildStep(c) ==
    \/ ChildWork(c) \/ Lock(c) \/ Recover(c) \/ SemWait(c) \/ Load(c)
    \/ Store(c) \/ Unlock(c) \/ SemPost(c) \/ Exit(c)

Misfortune(c) == ChildFails(c) \/ Crash(c) \/ Kill(c)

Next ==
    \/ ParentStep
    \/ ForkFails
    \/ \E c \in Children : ChildStep(c) \/ Misfortune(c)

Spec == Init /\ [][Next]_vars

\* The scheduler runs every process that can run; nothing has to fail.
FairSpec ==
    /\ Spec
    /\ WF_vars(ParentStep)
    /\ \A c \in Children : WF_vars(ChildStep(c))
-----------------------------------------------------------------------------
\* The values the variables can take.
TypeOK ==
    /\ prog \in Programs
    /\ status \in [Procs -> {"unborn", "running", "ok", "failed", "crashed", "killed"}]
    /\ pc \in [Procs -> {"fork", "wait", "work", "enter", "recover", "load",
                         "peek", "store", "leave", "close", "teardown"}]
    /\ stage \in [Procs -> 1 .. 4]
    /\ reg \in [Children -> Int]
    /\ mutex \in MutexType(Procs)
    /\ sem \in [Sems -> 0 .. 1]
    /\ count \in [Guards -> Int]
    /\ letters \subseteq Children
    /\ reaped \subseteq Children
    /\ final \in [Guards -> Int]
    /\ kills \in 0 .. MaxKills

\* How many counters child c has updated.
Passed(c) ==
    IF Holding(c, stage[c]) /\ pc[c] = "leave" THEN stage[c] ELSE stage[c] - 1

\* Nobody is inside a guard together with another process: for the mutex a
\* process that died no longer counts, a semaphore never comes back from it.
\* (child_job, the sections between lock and unlock, sem_wait and sem_post.)
Exclusion ==
    \A p, q \in Procs : \A k \in Guards :
        /\ p # q
        /\ Holding(p, k) /\ Holding(q, k)
        => k = 1 /\ ~(Running(p) /\ Running(q))

\* No update is lost and none is doubled, whoever dies and wherever: each
\* counter tells exactly how many children got past its update (the three
\* updates of child_job, in spite of the crash under the mutex).
CountExact ==
    \A k \in Guards :
        count[k] = Initial + Delta * Cardinality({c \in Children : Passed(c) >= k})

\* A death never makes the mutex useless: whatever the order of deaths and
\* recoveries, the next pthread_mutex_lock succeeds or reports EOWNERDEAD,
\* and no process that died still owns it, and every variable keeps its type
\* (lock_robust_or_recover).
MutexSurvives ==
    /\ TypeOK
    /\ mutex.state # "notrecoverable"
    /\ \A p \in mutex.holder : Running(p)

\* What the parent reports is final: no child is left that could change a
\* counter once one of them has been read, template_ds.c's reads without a
\* lock included; and without kills, template.c's three numbers all tell
\* how many children did not end well, while template_ds.c's first one
\* counts the children that died holding the mutex as well.  A child that
\* counted itself has left its letters before.
ReportFinal ==
    /\ \A k \in Guards : final[k] # Unread => final[k] = count[k]
    /\ \A c \in Children : Passed(c) >= 1 => c \in letters
    /\ (final[3] # Unread /\ kills = 0) =>
          LET lost == Cardinality({c \in Children : status[c] # "ok"})
          IN  IF prog = "template_ds"
              THEN final[1] = N /\ final[2] = N - lost /\ final[3] = N - lost
              ELSE \A k \in Guards : final[k] = lost

\* A child that died inside a semaphore's section keeps it for ever.
SemLost == \E c \in Children : Ended(c) /\ \E k \in Sems : Holding(c, k)

\* The parent ends, having reported or by a failed fork, although children
\* die holding the mutex: only a kill inside a semaphore's section, which is
\* not robust, can stop it (main's wait loop and final reads).
ParentEnds ==
    <>(status[Parent] = "ok" \/ (Ended(Parent) /\ pc[Parent] = "fork") \/ SemLost)

\* The program implements the indivisible counters of CountOff: every step
\* here is a step there or leaves it unchanged.
Promise == INSTANCE CountOff WITH
    Child <- Children, Counter <- Guards,
    unit <- Delta,
    passed <- [c \in Children |-> Passed(c)],
    gone <- {c \in Children : Ended(c)},
    total <- count,
    report <- final
PromiseKept == Promise!Spec
=============================================================================
