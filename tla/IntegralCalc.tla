---------------------------- MODULE IntegralCalc ----------------------------
(***************************************************************************)
(* src/l6/main.c: processes started one by one, each from its own shell    *)
(* job, integrate together.  The first to pass sem_trywait initialises the *)
(* control block in shared memory; everybody counts itself in, adds its    *)
(* batches, and counts itself out; the one who finds nobody left destroys  *)
(* the mutex and unlinks the block.                                        *)
(*                                                                         *)
(* Nothing makes the others wait for the initialiser, and the semaphore    *)
(* outlives the block, so a block may be used as the kernel made it, zero- *)
(* filled.  A zero-filled mutex is glibc's plain private one: whoever has  *)
(* to wait for it in another process is never woken.  sem_open and the     *)
(* mapping calls are taken to succeed.                                     *)
(***************************************************************************)
EXTENDS Integers, FiniteSets, TLC, RobustMutex

CONSTANTS
    Procs,      \* the processes somebody starts
    Rounds,     \* batches of a process, 3 in the code
    MaxBlocks,  \* bound on the blocks ever created
    MaxKills    \* bound on the processes killed from outside

ASSUME ProcsAssumption == IsFiniteSet(Procs)
ASSUME RoundsAssumption == Rounds \in Nat \ {0}
ASSUME BoundsAssumption == MaxBlocks \in Nat \ {0} /\ MaxKills \in Nat

Blocks == 1 .. MaxBlocks
NoBlock == 0
Cells == {"processes_count", "los", "traf"}
Leaving == Rounds + 1       \* job 0 is joining, job r <= Rounds is batch r

VARIABLES
    linked,     \* the block the shared memory's name stands for
    created,    \* blocks created so far
    sem,        \* the value of the named semaphore
    kind,       \* "raw" (zero-filled), "robust" or "destroyed" mutex
    mutex,      \* holder and state of each block's mutex
    ctrl,       \* the three counters of each block
    pc,         \* where a process is, or how it ended
    block,      \* the block a process has mapped
    job,        \* what a process takes the mutex for
    cell,       \* the counter it is working on
    reg,        \* the value it has loaded
    raced,      \* history: blocks locked while being initialised
    added,      \* history: all that was ever added to each counter
    kills       \* processes killed so far

vars == <<linked, created, sem, kind, mutex, ctrl, pc, block, job, cell, reg,
          raced, added, kills>>
names == <<linked, created, sem>>
own == <<block, job>>
history == <<raced, added>>

Symmetry == Permutations(Procs)

Fates == {"done", "failed", "killed"}
Ended(p) == pc[p] \in Fates
Goto(p, place) == pc' = [pc EXCEPT ![p] = place]
SetUp == {"init", "zerolos", "zerotraf"}
-----------------------------------------------------------------------------
Init ==
    /\ linked = NoBlock /\ created = 0
    /\ sem = 1
    /\ kind = [o \in Blocks |-> "raw"]
    /\ mutex = [o \in Blocks |-> FreshMutex]
    /\ ctrl = [o \in Blocks |-> [k \in Cells |-> 0]]
    /\ pc = [p \in Procs |-> "open"]
    /\ block = [p \in Procs |-> NoBlock]
    /\ job = [p \in Procs |-> 0]
    /\ cell = [p \in Procs |-> "processes_count"]
    /\ reg = [p \in Procs |-> 0]
    /\ raced = {}
    /\ added = ctrl
    /\ kills = 0

\* shm_open(O_CREAT) finds the block or has the kernel make a new one.
Open(p) ==
    /\ pc[p] = "open"
    /\ \/ /\ linked # NoBlock
          /\ UNCHANGED <<linked, created>>
       \/ /\ linked = NoBlock
          /\ created < MaxBlocks
          /\ created' = created + 1
          /\ linked' = created'
    /\ block' = [block EXCEPT ![p] = linked']
    /\ Goto(p, "trywait")
    /\ UNCHANGED <<sem, kind, mutex, ctrl, job, cell, reg, history, kills>>

\* sem_trywait: the first one ever initialises.
Trywait_Anybody(p) ==                          \* mutation
    /\ pc[p] = "trywait"
    /\ Goto(p, "init")
    /\ UNCHANGED <<names, kind, mutex, ctrl, own, cell, reg, history, kills>>
Trywait(p) ==
    /\ pc[p] = "trywait"
    /\ sem' = 0
    /\ Goto(p, IF sem = 1 THEN "init" ELSE "lock")
    /\ UNCHANGED <<linked, created, kind, mutex, ctrl, own, cell, reg, history, kills>>

\* init_robust_mutex_pshared overwrites the mutex, whoever uses it.
InitMutex(p) ==
    /\ pc[p] = "init"
    /\ kind' = [kind EXCEPT ![block[p]] = "robust"]
    /\ mutex' = [mutex EXCEPT ![block[p]] = FreshMutex]
    /\ Goto(p, "zerolos")
    /\ UNCHANGED <<names, ctrl, own, cell, reg, history, kills>>

ZeroLos(p) ==
    /\ pc[p] = "zerolos"
    /\ ctrl' = [ctrl EXCEPT ![block[p]]["los"] = 0]
    /\ Goto(p, "zerotraf")
    /\ UNCHANGED <<names, kind, mutex, own, cell, reg, history, kills>>

ZeroTraf(p) ==
    /\ pc[p] = "zerotraf"
    /\ ctrl' = [ctrl EXCEPT ![block[p]]["traf"] = 0]
    /\ Goto(p, "lock")
    /\ UNCHANGED <<names, kind, mutex, own, cell, reg, history, kills>>

\* robust_lock_or_recover, the recovery of EOWNERDEAD included; any other
\* error kills the caller.
Lock(p) ==
    LET o == block[p] m == mutex[o] IN
    /\ pc[p] = "lock"
    /\ Lockable(m)
    /\ IF LockResult(m) = "ENOTRECOVERABLE"
       THEN Goto(p, "failed") /\ UNCHANGED <<mutex, cell, raced>>
       ELSE /\ mutex' = [mutex EXCEPT ![o] = MadeConsistent(Acquired(m, p))]
            /\ raced' = IF \E q \in Procs : pc[q] \in SetUp /\ block[q] = o
                        THEN raced \cup {o} ELSE raced
            /\ cell' = [cell EXCEPT ![p] =
                          IF job[p] \in 1 .. Rounds THEN "los" ELSE "processes_count"]
            /\ Goto(p, "load")
    /\ UNCHANGED <<names, kind, ctrl, own, reg, added, kills>>

\* Waiting for a zero-filled mutex is waiting for ever.
Block(p) ==
    /\ pc[p] = "lock"
    /\ kind[block[p]] = "raw" /\ ~Lockable(mutex[block[p]])
    /\ Goto(p, "asleep")
    /\ UNCHANGED <<names, kind, mutex, ctrl, own, cell, reg, history, kills>>

\* A destroyed mutex answers EINVAL, which kills the caller; but whoever
\* waited for it before may still get it.  Which of the two callers this is,
\* is not kept.
LockFails(p) ==
    /\ pc[p] = "lock"
    /\ kind[block[p]] = "destroyed"
    /\ Goto(p, "failed")
    /\ UNCHANGED <<names, kind, mutex, ctrl, own, cell, reg, history, kills>>

\* One counter update, ctrl->... += ..., is a load and a store.
Load(p) ==
    /\ pc[p] = "load"
    /\ reg' = [reg EXCEPT ![p] = ctrl[block[p]][cell[p]]]
    /\ Goto(p, "store")
    /\ UNCHANGED <<names, kind, mutex, ctrl, own, cell, history, kills>>

\* What it adds: a batch of one point, hit or not, or a process.
Additions(p) ==
    CASE cell[p] = "traf" -> 0 .. 1
      [] cell[p] = "los"  -> {1}
      [] OTHER            -> {IF job[p] = Leaving THEN -1 ELSE 1}

\* After los comes traf; after leaving, whether anybody is left.
NobodyLeft(n) == n = 0
AfterStore(p, n) ==
    CASE cell[p] = "los"                         -> "load"
      [] job[p] = Leaving /\ NobodyLeft(n)       -> "lastunlock"
      [] OTHER                                   -> "unlock"

Store(p) ==
    /\ pc[p] = "store"
    /\ \E d \in Additions(p) :
          /\ ctrl' = [ctrl EXCEPT ![block[p]][cell[p]] = reg[p] + d]
          /\ added' = [added EXCEPT ![block[p]][cell[p]] = @ + d]
          /\ Goto(p, AfterStore(p, reg[p] + d))
    /\ cell' = [cell EXCEPT ![p] = IF @ = "los" THEN "traf" ELSE @]
    /\ UNCHANGED <<names, kind, mutex, own, reg, raced, kills>>

\* pthread_mutex_unlock by p; its error is ignored: a robust mutex only
\* obeys its owner, a destroyed one nobody.
Unlocked(p) ==
    LET o == block[p] IN
    IF kind[o] = "destroyed" \/ p \notin mutex[o].holder
    THEN mutex ELSE [mutex EXCEPT ![o] = Released(@)]

Unlock(p) ==
    /\ pc[p] = "unlock"
    /\ mutex' = Unlocked(p)
    /\ IF job[p] = Leaving
       THEN Goto(p, "done") /\ UNCHANGED job
       ELSE Goto(p, "lock") /\ job' = [job EXCEPT ![p] = @ + 1]
    /\ UNCHANGED <<names, kind, ctrl, block, cell, reg, history, kills>>

LastUnlock(p) ==
    /\ pc[p] = "lastunlock"
    /\ mutex' = Unlocked(p)
    /\ Goto(p, "destroy")
    /\ UNCHANGED <<names, kind, ctrl, own, cell, reg, history, kills>>

\* pthread_mutex_destroy refuses a plain mutex in use, and no robust one.
Destroy(p) ==
    /\ pc[p] = "destroy"
    /\ IF kind[block[p]] = "raw" /\ ~Lockable(mutex[block[p]])
       THEN Goto(p, "failed") /\ UNCHANGED kind
       ELSE /\ kind' = [kind EXCEPT ![block[p]] = "destroyed"]
            /\ Goto(p, "unlink")
    /\ UNCHANGED <<names, mutex, ctrl, own, cell, reg, history, kills>>

\* shm_unlink removes the name, whatever block it stands for by now.
Unlink(p) ==
    /\ pc[p] = "unlink"
    /\ Goto(p, IF linked = NoBlock THEN "failed" ELSE "done")
    /\ linked' = NoBlock
    /\ UNCHANGED <<created, sem, kind, mutex, ctrl, own, cell, reg, history, kills>>

Kill(p) ==
    /\ ~Ended(p) /\ pc[p] # "open"
    /\ kills < MaxKills
    /\ kills' = kills + 1
    /\ Goto(p, "killed")
    /\ mutex' = [o \in Blocks |->
                   IF kind[o] # "raw" THEN AfterDeath(mutex[o], p) ELSE mutex[o]]
    /\ UNCHANGED <<names, kind, ctrl, own, cell, reg, history>>

Step(p) ==
    \/ Open(p) \/ Trywait(p) \/ InitMutex(p) \/ ZeroLos(p) \/ ZeroTraf(p)
    \/ Lock(p) \/ Block(p) \/ LockFails(p) \/ Load(p) \/ Store(p)
    \/ Unlock(p) \/ LastUnlock(p) \/ Destroy(p) \/ Unlink(p)

Next == \E p \in Procs : Step(p) \/ Kill(p)

Spec == Init /\ [][Next]_vars
-----------------------------------------------------------------------------
\* The values the variables can take.
TypeOK ==
    /\ linked \in 0 .. created /\ created \in 0 .. MaxBlocks
    /\ sem \in 0 .. 1
    /\ kind \in [Blocks -> {"raw", "robust", "destroyed"}]
    /\ mutex \in [Blocks -> MutexType(Procs)]
    /\ ctrl \in [Blocks -> [Cells -> Int]]
    /\ pc \in [Procs -> {"open", "trywait", "lock", "asleep", "load", "store", "unlock",
                         "lastunlock", "destroy", "unlink"} \cup SetUp \cup Fates]
    /\ block \in [Procs -> 0 .. created]
    /\ job \in [Procs -> 0 .. Leaving]
    /\ cell \in [Procs -> Cells]
    /\ reg \in [Procs -> Int]
    /\ raced \subseteq Blocks /\ added \in [Blocks -> [Cells -> Int]]
    /\ kills \in 0 .. MaxKills

\* p has counted itself in and not yet out.
Inside(p) ==
    /\ ~Ended(p)
    /\ CASE job[p] = 0       -> pc[p] = "unlock"
         [] job[p] = Leaving -> pc[p] \in {"lock", "asleep", "load", "store"}
         [] OTHER            -> TRUE

\* What a block says is true, whoever dies and recovers, and on zero-filled
\* blocks too; only a block that somebody locked before its initialiser had
\* finished is no good.  Every addition counts (main's three sections under
\* robust_mutex), and whoever has found that nobody is left is right as long
\* as it holds the mutex (the test of processes_count at the end of main); who
\* comes between that and the destruction of the block is another matter.  The
\* types are part of it.
LastOneOut(p, q) ==
    pc[p] = "lastunlock" /\ block[p] \notin raced /\ p # q /\ block[q] = block[p] => ~Inside(q)
ExactUnlessRaced ==
    /\ TypeOK
    /\ \A o \in Blocks \ raced : ctrl[o] = added[o]
    /\ \A p, q \in Procs : LastOneOut(p, q)
=============================================================================
