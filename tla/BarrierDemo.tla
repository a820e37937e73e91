---------------------------- MODULE BarrierDemo ----------------------------
(***************************************************************************)
(* src/sop_l6_templates/ipc_barrier_named_sem_robust.c.  A parent forks N  *)
(* children.  Each opens the named semaphore, waits at a process-shared    *)
(* barrier until all N are there, and then increments a counter in shared  *)
(* memory under the semaphore and, inside it, under a robust mutex.  The   *)
(* parent waits for all children, reports the counter and destroys the     *)
(* barrier and the mutex.                                                  *)
(*                                                                         *)
(* pthread_barrier_t is external.  It counts the arrivals and the          *)
(* departures; destroying it waits until every process that arrived has    *)
(* also left.                                                              *)
(***************************************************************************)
EXTENDS Integers, FiniteSets, RobustMutex

CONSTANTS
    Children,   \* the children
    Parent,     \* the parent process
    MaxFaults   \* bound on failed calls and kills from outside

ASSUME ChildrenAssumption == IsFiniteSet(Children) /\ Children # {}
ASSUME ParentAssumption == Parent \notin Children
ASSUME FaultsAssumption == MaxFaults \in Nat

N == Cardinality(Children)
Procs == Children \cup {Parent}

VARIABLES
    status,          \* "unborn", "running", "ok", "failed" or "killed"
    pc,              \* where a process is; frozen when it ends
    arrived,         \* children that have entered pthread_barrier_wait
    left,            \* children that have returned from it
    sem,             \* the named semaphore
    robust_mtx,      \* the robust mutex
    shared_counter,  \* the counter both protect
    reg,             \* the value of the counter a child has loaded
    reaped,          \* children wait() has returned
    reported,        \* the count the parent printed, -1 before
    faults           \* faults so far

vars == <<status, pc, arrived, left, sem, robust_mtx, shared_counter, reg,
          reaped, reported, faults>>

barrier == <<arrived, left>>
parentVars == <<reaped, reported>>
-----------------------------------------------------------------------------
Running(p) == status[p] = "running"
Ended(p) == status[p] \notin {"unborn", "running"}
At(p, place) == Running(p) /\ pc[p] = place
Goto(p, place) == pc' = [pc EXCEPT ![p] = place]
End(p, how) == status' = [status EXCEPT ![p] = how]

\* The parent initialises the barrier for this many processes.
BarrierCount == N

\* The value the named semaphore is created with.
SemInitial == 1

\* Child c is between sem_wait and sem_post.
InSemaphore(c) ==
    status[c] # "unborn" /\ pc[c] \in {"lock", "load", "store", "unlock", "post"}

\* Child c is between pthread_mutex_lock and pthread_mutex_unlock.
InMutex(c) == status[c] # "unborn" /\ pc[c] \in {"load", "store", "unlock"}

\* main() up to the fork loop.
Init ==
    /\ status = [p \in Procs |-> IF p = Parent THEN "running" ELSE "unborn"]
    /\ pc = [p \in Procs |-> IF p = Parent THEN "fork" ELSE "open"]
    /\ arrived = {}
    /\ left = {}
    /\ sem = SemInitial
    /\ robust_mtx = FreshMutex
    /\ shared_counter = 0
    /\ reg = [c \in Children |-> 0]
    /\ reaped = {}
    /\ reported = -1
    /\ faults = 0
-----------------------------------------------------------------------------
Fork(c) ==
    /\ At(Parent, "fork")
    /\ status[c] = "unborn"
    /\ End(c, "running")
    /\ Goto(Parent, IF \E d \in Children \ {c} : status[d] = "unborn"
                    THEN "fork" ELSE "wait")
    /\ UNCHANGED <<barrier, sem, robust_mtx, shared_counter, reg, parentVars, faults>>

\* fork() fails in the parent, or sem_open() in a child: die().
Fails(p) ==
    /\ faults < MaxFaults
    /\ At(p, IF p = Parent THEN "fork" ELSE "open")
    /\ End(p, "failed")
    /\ faults' = faults + 1
    /\ UNCHANGED <<pc, barrier, sem, robust_mtx, shared_counter, reg, parentVars>>

SemOpen(c) ==
    /\ At(c, "open")
    /\ Goto(c, "barrier")
    /\ UNCHANGED <<status, barrier, sem, robust_mtx, shared_counter, reg,
                   parentVars, faults>>

\* pthread_barrier_wait: the arrival, and the return once all are there.
BarrierEnter(c) ==
    /\ At(c, "barrier")
    /\ arrived' = arrived \cup {c}
    /\ Goto(c, "waiting")
    /\ UNCHANGED <<status, left, sem, robust_mtx, shared_counter, reg,
                   parentVars, faults>>

BarrierLeave(c) ==
    /\ At(c, "waiting")
    /\ Cardinality(arrived) >= BarrierCount
    /\ left' = left \cup {c}
    /\ Goto(c, "sem")
    /\ UNCHANGED <<status, arrived, sem, robust_mtx, shared_counter, reg,
                   parentVars, faults>>

SemWait(c) ==
    /\ At(c, "sem")
    /\ sem > 0
    /\ sem' = sem - 1
    /\ Goto(c, "lock")
    /\ UNCHANGED <<status, barrier, robust_mtx, shared_counter, reg, parentVars, faults>>

\* lock_robust_or_recover: lock, and after EOWNERDEAD make it consistent.
LockOrRecover(c) ==
    /\ At(c, "lock")
    /\ Lockable(robust_mtx)
    /\ IF LockResult(robust_mtx) = "ENOTRECOVERABLE"
       THEN End(c, "failed") /\ UNCHANGED <<pc, robust_mtx>>
       ELSE /\ robust_mtx' = MadeConsistent(Acquired(robust_mtx, c))
            /\ Goto(c, "load")
            /\ UNCHANGED status
    /\ UNCHANGED <<barrier, sem, shared_counter, reg, parentVars, faults>>

\* shared_counter++
Load(c) ==
    /\ At(c, "load")
    /\ reg' = [reg EXCEPT ![c] = shared_counter]
    /\ Goto(c, "store")
    /\ UNCHANGED <<status, barrier, sem, robust_mtx, shared_counter, parentVars, faults>>

Store(c) ==
    /\ At(c, "store")
    /\ shared_counter' = reg[c] + 1
    /\ Goto(c, "unlock")
    /\ UNCHANGED <<status, barrier, sem, robust_mtx, reg, parentVars, faults>>

\* A child that posts the semaphore before it unlocks the mutex would let
\* the next one meet the mutex held.
Unlock_AfterPost(c) ==                       \* mutation
    /\ At(c, "unlock")
    /\ sem' = sem + 1
    /\ Goto(c, "post")
    /\ UNCHANGED <<status, barrier, robust_mtx, shared_counter, reg, parentVars, faults>>
Unlock(c) ==
    /\ At(c, "unlock")
    /\ robust_mtx' = Released(robust_mtx)
    /\ Goto(c, "post")
    /\ UNCHANGED <<status, barrier, sem, shared_counter, reg, parentVars, faults>>

SemPost_Forgotten(c) ==                      \* mutation
    /\ At(c, "post")
    /\ Goto(c, "close")
    /\ UNCHANGED <<status, barrier, sem, robust_mtx, shared_counter, reg,
                   parentVars, faults>>
SemPost(c) ==
    /\ At(c, "post")
    /\ sem' = sem + 1
    /\ Goto(c, "close")
    /\ UNCHANGED <<status, barrier, robust_mtx, shared_counter, reg, parentVars, faults>>

\* sem_close() and _exit(EXIT_SUCCESS)
Exit(c) ==
    /\ At(c, "close")
    /\ End(c, "ok")
    /\ UNCHANGED <<pc, barrier, sem, robust_mtx, shared_counter, reg, parentVars, faults>>

\* Somebody kills child c: the kernel gives up its mutex, nothing gives up
\* its semaphore or its place at the barrier.
Kill(c) ==
    /\ Running(c)
    /\ faults < MaxFaults
    /\ faults' = faults + 1
    /\ End(c, "killed")
    /\ robust_mtx' = AfterDeath(robust_mtx, c)
    /\ UNCHANGED <<pc, barrier, sem, shared_counter, reg, parentVars>>
-----------------------------------------------------------------------------
Reap_NotAll(c) ==                            \* mutation
    /\ At(Parent, "wait")
    /\ Ended(c) /\ c \notin reaped
    /\ reaped' = reaped \cup {c}
    /\ Goto(Parent, IF Cardinality(reaped') >= N - 1 THEN "report" ELSE "wait")
    /\ UNCHANGED <<status, barrier, sem, robust_mtx, shared_counter, reg, reported, faults>>
Reap(c) ==
    /\ At(Parent, "wait")
    /\ Ended(c) /\ c \notin reaped
    /\ reaped' = reaped \cup {c}
    /\ Goto(Parent, IF reaped' = Children THEN "report" ELSE "wait")
    /\ UNCHANGED <<status, barrier, sem, robust_mtx, shared_counter, reg, reported, faults>>

Report ==
    /\ At(Parent, "report")
    /\ reported' = shared_counter
    /\ Goto(Parent, "destroy")
    /\ UNCHANGED <<status, barrier, sem, robust_mtx, shared_counter, reg, reaped, faults>>

\* pthread_barrier_destroy waits for the processes still in the barrier.
DestroyBarrier ==
    /\ At(Parent, "destroy")
    /\ left = arrived
    /\ Goto(Parent, "teardown")
    /\ UNCHANGED <<status, barrier, sem, robust_mtx, shared_counter, reg,
                   parentVars, faults>>

\* The rest of the clean-up.
Teardown ==
    /\ At(Parent, "teardown")
    /\ End(Parent, "ok")
    /\ UNCHANGED <<pc, barrier, sem, robust_mtx, shared_counter, reg, parentVars, faults>>
-----------------------------------------------------------------------------
ChildStep(c) ==
    \/ SemOpen(c) \/ BarrierEnter(c) \/ BarrierLeave(c) \/ SemWait(c)
    \/ LockOrRecover(c) \/ Load(c) \/ Store(c) \/ Unlock(c) \/ SemPost(c) \/ Exit(c)

ParentStep ==
    \/ \E c \in Children : Fork(c) \/ Reap(c)
    \/ Report \/ DestroyBarrier \/ Teardown

Next ==
    \/ ParentStep
    \/ \E c \in Children : ChildStep(c) \/ Kill(c)
    \/ \E p \in Procs : Fails(p)

Spec == Init /\ [][Next]_vars

\* The scheduler runs every process that can run; nothing has to fail.
FairSpec ==
    /\ Spec
    /\ WF_vars(ParentStep)
    /\ \A c \in Children : WF_vars(ChildStep(c))
-----------------------------------------------------------------------------
\* The values the variables can take.
TypeOK ==
    /\ status \in [Procs -> {"unborn", "running", "ok", "failed", "killed"}]
    /\ pc \in [Procs -> {"fork", "wait", "report", "destroy", "teardown", "open",
                         "barrier", "waiting", "sem", "lock", "load", "store",
                         "unlock", "post", "close"}]
    /\ arrived \subseteq Children
    /\ left \subseteq arrived
    /\ sem \in 0 .. 1
    /\ robust_mtx \in MutexType(Procs)
    /\ shared_counter \in Nat
    /\ reg \in [Children -> Nat]
    /\ reaped \subseteq Children
    /\ reported \in Int
    /\ faults \in 0 .. MaxFaults

\* Nobody increments before everybody has come to the barrier (barrier_wait
\* before the critical section).
BarrierHolds == (left # {} \/ shared_counter > 0) => arrived = Children

\* With the barrier and the types intact, the counter tells exactly how many
\* children stored their increment, whoever was killed and wherever; what the
\* parent reports is that count, and without faults the number of children
\* (main's "oczekiwane").
Stored(c) == status[c] # "unborn" /\ pc[c] \in {"unlock", "post", "close"}
CounterExact ==
    /\ TypeOK /\ BarrierHolds
    /\ shared_counter = Cardinality({c \in Children : Stored(c)})
    /\ reported # -1 => reported = shared_counter
    /\ (reported # -1 /\ faults = 0) => reported = N

\* The recovery branch of lock_robust_or_recover is never taken: a child
\* that dies owning the mutex dies owning the semaphore as well, and from
\* then on no child gets as far as the mutex.  (The robustness of the mutex
\* cannot help here: the lock around it is not robust.)
RecoveryNeverMet ==
    robust_mtx.state # "consistent" =>
        /\ sem = 0
        /\ \A c \in Children : InSemaphore(c) => ~Running(c)

\* What keeps the parent waiting for ever: somebody will never come to the
\* barrier, somebody died inside it, or somebody died with the semaphore.
Doomed ==
    \/ \E c \in Children : Ended(c) /\ c \notin arrived
    \/ \E c \in Children : Ended(c) /\ c \in arrived \ left
    \/ \E c \in Children : Ended(c) /\ InSemaphore(c)

\* The parent comes to its end unless fork failed or a child was lost at
\* one of those places (main's wait loop and pthread_barrier_destroy).
ParentEnds ==
    <>(status[Parent] = "ok" \/ (Ended(Parent) /\ pc[Parent] = "fork") \/ Doomed)
=============================================================================
