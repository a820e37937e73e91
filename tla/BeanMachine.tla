---------------------------- MODULE BeanMachine ----------------------------
(***************************************************************************)
(* src/l3/mutex.c: threads take balls, let each fall through the pins and  *)
(* count it, first in its bin and then as thrown.  main looks once a       *)
(* second whether all n are thrown and then prints the bins, without their *)
(* mutexes and without joining anybody.                                    *)
(*                                                                         *)
(* Every counter has a mutex of its own, except that the loop which        *)
(* initialises the mutexes of the bins stops one short: what the last one  *)
(* does is whatever the stack held.                                        *)
(***************************************************************************)
EXTENDS Integers, FiniteSets, Functions

CONSTANTS
    Throwers,     \* the threads
    n,            \* the number of balls
    Bins,         \* the bins
    LastBin,      \* the bin whose mutex nobody initialises
    Main, Nobody  \* main, and the owner of a free mutex

Cells == Bins \cup {"ballsW", "ballsT"}

VARIABLES
    garbage,      \* what the last mutex does: "works", "sticks" or "admits"
    cell,         \* the counters: balls waiting, balls thrown, the bins
    owner,        \* owner[c]: who holds the mutex of counter c
    at,           \* the counter a thread is busy with, or "unborn", "gone"
    doing,        \* "lock", "load" or "store" there
    reg,          \* the value it has loaded
    mainpc,       \* where main is
    printed       \* the bins as main has printed them, -1 before

vars == <<garbage, cell, owner, at, doing, reg, mainpc, printed>>
own == <<at, doing, reg>>
-----------------------------------------------------------------------------
\* main() up to the creation of the threads.
Init ==
    /\ garbage \in {"works", "sticks", "admits"}
    /\ cell = [c \in Cells |-> IF c = "ballsW" THEN n ELSE 0]
    /\ owner = [c \in Cells |-> Nobody]
    /\ at = [t \in Throwers |-> "unborn"]
    /\ doing = [t \in Throwers |-> "lock"]
    /\ reg = [t \in Throwers |-> 0]
    /\ mainpc = "create"
    /\ printed = [b \in Bins |-> -1]

Create(t) ==
    /\ mainpc = "create"
    /\ at[t] = "unborn"
    /\ at' = [at EXCEPT ![t] = "ballsW"]
    /\ mainpc' = IF \E u \in Throwers \ {t} : at[u] = "unborn" THEN "create" ELSE "lock"
    /\ UNCHANGED <<garbage, cell, owner, doing, reg, printed>>
-----------------------------------------------------------------------------
\* A thread locks, loads, stores and unlocks one counter after the other.

Lets(c) == c = LastBin /\ garbage = "admits"
Sticks(c) == c = LastBin /\ garbage = "sticks"

Lock(t) ==
    /\ mainpc # "done" /\ at[t] \in Cells /\ doing[t] = "lock"
    /\ ~Sticks(at[t])
    /\ owner[at[t]] = Nobody \/ Lets(at[t])
    /\ owner' = [owner EXCEPT ![at[t]] = t]
    /\ doing' = [doing EXCEPT ![t] = "load"]
    /\ UNCHANGED <<garbage, cell, at, reg, mainpc, printed>>

\* With no ball waiting the thread unlocks and ends.
Load(t) ==
    /\ mainpc # "done" /\ at[t] \in Cells /\ doing[t] = "load"
    /\ IF at[t] = "ballsW" /\ cell["ballsW"] = 0
       THEN /\ owner' = [owner EXCEPT !["ballsW"] = Nobody]
            /\ at' = [at EXCEPT ![t] = "gone"]
            /\ doing' = [doing EXCEPT ![t] = "lock"]
            /\ UNCHANGED reg
       ELSE /\ reg' = [reg EXCEPT ![t] = cell[at[t]]]
            /\ doing' = [doing EXCEPT ![t] = "store"]
            /\ UNCHANGED <<owner, at>>
    /\ UNCHANGED <<garbage, cell, mainpc, printed>>

\* The counters in the order of the loop: the ball's bin is drawn in between.
After_ThrownFirst(c) ==                      \* mutation
    CASE c = "ballsW" -> {"ballsT"} [] c = "ballsT" -> Bins [] OTHER -> {"ballsW"}
After(c) ==
    CASE c = "ballsW" -> Bins [] c \in Bins -> {"ballsT"} [] OTHER -> {"ballsW"}

Store(t) ==
    /\ mainpc # "done" /\ at[t] \in Cells /\ doing[t] = "store"
    /\ cell' = [cell EXCEPT ![at[t]] = IF at[t] = "ballsW" THEN reg[t] - 1 ELSE reg[t] + 1]
    /\ owner' = [owner EXCEPT ![at[t]] = Nobody]
    /\ \E c \in After(at[t]) : at' = [at EXCEPT ![t] = c]
    /\ doing' = [doing EXCEPT ![t] = "lock"]
    /\ reg' = [reg EXCEPT ![t] = 0]
    /\ UNCHANGED <<garbage, mainpc, printed>>
-----------------------------------------------------------------------------
\* main wakes up, locks the number of balls thrown and looks at it.
MainLock ==
    /\ mainpc = "lock"
    /\ owner["ballsT"] = Nobody
    /\ owner' = [owner EXCEPT !["ballsT"] = Main]
    /\ mainpc' = "look"
    /\ UNCHANGED <<garbage, cell, own, printed>>

\* It leaves its loop with the mutex still locked.
Finished == cell["ballsT"] = n

MainLook ==
    /\ mainpc = "look"
    /\ IF Finished
       THEN mainpc' = "print" /\ UNCHANGED owner
       ELSE mainpc' = "lock" /\ owner' = [owner EXCEPT !["ballsT"] = Nobody]
    /\ UNCHANGED <<garbage, cell, own, printed>>

\* It prints bin after bin; the order among them is of no interest.  When
\* main returns the process and every thread in it is gone.
MainPrint(b) ==
    /\ mainpc = "print"
    /\ printed[b] = -1
    /\ printed' = [printed EXCEPT ![b] = cell[b]]
    /\ mainpc' = IF \E c \in Bins \ {b} : printed[c] = -1 THEN "print" ELSE "done"
    /\ UNCHANGED <<garbage, cell, owner, own>>
-----------------------------------------------------------------------------
ThrowerStep(t) == Lock(t) \/ Load(t) \/ Store(t)
MainStep ==
    \/ MainLock \/ MainLook
    \/ \E t \in Throwers : Create(t)
    \/ \E b \in Bins : MainPrint(b)
Next == (\E t \in Throwers : ThrowerStep(t)) \/ MainStep

Spec == Init /\ [][Next]_vars

\* main sleeps a second between two looks: a thread that waits for the number
\* of balls thrown finds it free again and again.
FairSpec ==
    /\ Spec
    /\ \A t \in Throwers : SF_vars(ThrowerStep(t))
    /\ SF_vars(MainStep)
-----------------------------------------------------------------------------
\* The values the variables can take.
TypeOK ==
    /\ garbage \in {"works", "sticks", "admits"}
    /\ cell \in [Cells -> 0 .. n]
    /\ owner \in [Cells -> Throwers \cup {Main, Nobody}]
    /\ at \in [Throwers -> Cells \cup {"unborn", "gone"}]
    /\ doing \in [Throwers -> {"lock", "load", "store"}]
    /\ reg \in [Throwers -> 0 .. n]
    /\ mainpc \in {"create", "lock", "look", "print", "done"}
    /\ printed \in [Bins -> -1 .. n]

Total(f) == FoldFunctionOnSet(LAMBDA x, y : x + y, 0, f, Bins)

\* Balls taken and not yet in a bin.
Falling == {t \in Throwers : at[t] \in Bins}

\* No ball is lost and none is doubled, at any moment: it waits, falls or
\* lies in a bin.  A last mutex that admits everybody may swallow balls, and
\* never makes one.  The types are part of it (start_routine).
BallsKept ==
    /\ TypeOK
    /\ LET all == cell["ballsW"] + Cardinality(Falling) + Total(cell)
       IN  IF garbage = "admits" THEN all <= n ELSE all = n

\* main prints what will not change any more, although it joins nobody and
\* takes no mutex: with every ball thrown no thread is at a bin, so the
\* numbers printed are of one moment and add up to n (main's last loop).
PrintIsFinal ==
    /\ mainpc \in {"print", "done"} =>
          /\ Falling = {}
          /\ \A b \in Bins : printed[b] \in {-1, cell[b]}
    /\ mainpc = "done" /\ garbage # "admits" => Total(printed) = n

\* main comes to its end, unless the mutex nobody initialised keeps a ball
\* for ever.
Swallowed == \E t \in Throwers : at[t] \in Bins /\ Sticks(at[t])
MainReturns == <>(mainpc = "done" \/ Swallowed)
=============================================================================
