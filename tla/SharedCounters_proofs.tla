----------------------- MODULE SharedCounters_proofs -----------------------
(***************************************************************************)
(* Theorems about SharedCounters for every number of children and every    *)
(* bound on kills.  IInv below is the inductive invariant: the types,      *)
(* which place goes with which stage, who owns the mutex and in what state *)
(* it is, and who is inside a semaphore.  For exact counts RegInv joins    *)
(* it: a loaded counter value is still current when it is stored.          *)
(***************************************************************************)
EXTENDS SharedCounters, FiniteSetTheorems, TLAPS

(***************************************************************************)
(* What each operation of RobustMutex returns, for every set of processes. *)
(***************************************************************************)

\* A fresh mutex is free and its data is usable.
LEMMA FreshMutexFacts ==
    ASSUME NEW P
    PROVE  /\ FreshMutex \in MutexType(P)
           /\ FreshMutex.holder = {} /\ FreshMutex.state = "consistent"
BY DEF FreshMutex, MutexType

\* Locking changes the owner only.
LEMMA AcquiredFacts ==
    ASSUME NEW P, NEW m \in MutexType(P), NEW p \in P
    PROVE  /\ Acquired(m, p) \in MutexType(P)
           /\ Acquired(m, p).holder = {p} /\ Acquired(m, p).state = m.state
BY DEF Acquired, MutexType

\* The result of locking tells the state.
LEMMA LockResultFacts ==
    ASSUME NEW P, NEW m \in MutexType(P)
    PROVE  /\ LockResult(m) = "ENOTRECOVERABLE" <=> m.state = "notrecoverable"
           /\ LockResult(m) = "EOWNERDEAD" <=> m.state = "inconsistent"
BY DEF LockResult, MutexType

\* pthread_mutex_consistent leaves the owner alone.
LEMMA MadeConsistentFacts ==
    ASSUME NEW P, NEW m \in MutexType(P)
    PROVE  /\ MadeConsistent(m) \in MutexType(P)
           /\ MadeConsistent(m).holder = m.holder
           /\ MadeConsistent(m).state = "consistent"
BY DEF MadeConsistent, MutexType

\* Unlocking frees the mutex; only one left inconsistent is lost by it.
LEMMA ReleasedFacts ==
    ASSUME NEW P, NEW m \in MutexType(P)
    PROVE  /\ Released(m) \in MutexType(P)
           /\ Released(m).holder = {}
           /\ m.state = "consistent" => Released(m).state = "consistent"
BY DEF Released, MutexType

\* A death frees the mutex of the dead and touches no other.
LEMMA AfterDeathFacts ==
    ASSUME NEW P, NEW m \in MutexType(P), NEW p \in P
    PROVE  /\ AfterDeath(m, p) \in MutexType(P)
           /\ m.holder = {p} => AfterDeath(m, p).holder = {}
                             /\ AfterDeath(m, p).state = "inconsistent"
           /\ m.holder # {p} => AfterDeath(m, p) = m
BY DEF AfterDeath, MutexType

(***************************************************************************)
(* The templates.                                                          *)
(***************************************************************************)

\* Which places a process can be in, and at which stage.
Places ==
    /\ \A c \in Children :
          /\ pc[c] \in {"work", "enter", "recover", "load", "store", "leave", "close"}
          /\ status[c] = "unborn" => pc[c] = "work"
    /\ pc[Parent] \in {"fork", "wait", "enter", "recover", "load", "peek", "leave",
                       "teardown"}
    /\ \A p \in Procs :
          /\ pc[p] \in {"fork", "wait", "work", "recover"} => stage[p] = 1
          /\ pc[p] \in {"enter", "load", "store", "leave", "peek"} => stage[p] \in 1 .. 3

\* The mutex is owned by the running process inside its section, if there
\* is one, and that process has seen to its state.
MutexInv ==
    /\ mutex.state \in {"consistent", "inconsistent"}
    /\ \A p \in Procs :
          mutex.holder = {p} <=> (Running(p) /\ Holding(p, 1))
    /\ \A p \in Procs :
          Running(p) /\ Holding(p, 1) =>
              mutex.state = IF pc[p] = "recover" THEN "inconsistent" ELSE "consistent"

\* A process inside a semaphore, alive or dead, has taken its only unit.
SemInv ==
    \A k \in Sems : \A p \in Procs :
        Holding(p, k) => sem[k] = 0 /\ \A q \in Procs : Holding(q, k) => p = q

\* The parent starts alone, every guard is free.
THEOREM Initially == Init => TypeOK /\ Places /\ MutexInv /\ SemInv
<1> SUFFICES ASSUME Init PROVE TypeOK /\ Places /\ MutexInv /\ SemInv
  OBVIOUS
<1> USE NAssumption, KillsAssumption, ParentAssumption DEF Init, Procs, Children
<1>1. TypeOK
  BY FreshMutexFacts DEF TypeOK, Programs, Guards, Sems, SemInitial, Unread, Initial
<1>2. Places
  BY DEF Places
<1>3. MutexInv
  BY FreshMutexFacts DEF MutexInv, Running, Holding
<1>4. SemInv
  BY DEF SemInv, Sems, Holding
<1> QED  BY <1>1, <1>2, <1>3, <1>4

\* Next by its actions: a case for each, with the process that takes it.
LEMMA NextCases ==
    ASSUME Next
    PROVE  \/ \E c \in Children : Fork(c) \/ ChildWork(c) \/ ChildFails(c) \/ Crash(c)
                                  \/ Load(c) \/ Store(c) \/ Exit(c) \/ Kill(c) \/ Reap(c)
           \/ \E p \in Procs : Lock(p) \/ Recover(p) \/ SemWait(p) \/ Unlock(p) \/ SemPost(p)
           \/ ForkFails \/ ReadFinal \/ PeekFinal \/ Teardown
BY DEF Next, ParentStep, ChildStep, Misfortune, Procs

\* A child adds one or takes one off.
LEMMA DeltaType == Delta \in {1, -1}
BY DEF Delta

\* The types are preserved; a semaphore never rises above 1 because its poster
\* holds it.
LEMMA TypeStep ==
    ASSUME TypeOK, Places, SemInv, [Next]_vars
    PROVE  TypeOK'
<1> USE NAssumption, KillsAssumption, ParentAssumption DEF Procs, Children, At, Running, Ended, Goto,
    End, bookkeeping, memory, TypeOK, Places, Guards, Sems, Programs
<1>1. ASSUME NEW c \in Children, Fork(c) PROVE TypeOK'
  BY <1>1 DEF Fork
<1>2. ASSUME ForkFails PROVE TypeOK'
  BY <1>2 DEF ForkFails
<1>3. ASSUME NEW c \in Children, ChildWork(c) PROVE TypeOK'
  BY <1>3 DEF ChildWork
<1>4. ASSUME NEW c \in Children, ChildFails(c) PROVE TypeOK'
  BY <1>4 DEF ChildFails
<1>5. ASSUME NEW p \in Procs, Lock(p) PROVE TypeOK'
  <2>1. CASE LockResult(mutex) = "ENOTRECOVERABLE"
    BY <1>5, <2>1 DEF Lock
  <2>2. CASE LockResult(mutex) # "ENOTRECOVERABLE"
    <3>1. mutex \in MutexType(Procs) /\ mutex' = Acquired(mutex, p)
      BY <1>5, <2>2 DEF Lock
    <3>2. mutex' \in MutexType(Procs)
      BY ONLY <3>1, <1>5, AcquiredFacts
    <3> QED  BY <1>5, <2>2, <3>2 DEF Lock
  <2> QED  BY <2>1, <2>2
<1>6. ASSUME NEW p \in Procs, Recover(p) PROVE TypeOK'
  BY <1>6, MadeConsistentFacts DEF Recover
<1>7. ASSUME NEW p \in Procs, SemWait(p) PROVE TypeOK'
  BY <1>7, SMTT(30) DEF SemWait
<1>8. ASSUME NEW c \in Children, Crash(c) PROVE TypeOK'
  BY <1>8, AfterDeathFacts DEF Crash
<1>9. ASSUME NEW c \in Children, Load(c) PROVE TypeOK'
  BY <1>9 DEF Load
<1>10. ASSUME NEW c \in Children, Store(c) PROVE TypeOK'
  <2>1. count' \in [Guards -> Int]
    BY <1>10, DeltaType, SMTT(30) DEF Store
  <2> QED  BY <1>10, <2>1 DEF Store
<1>11. ASSUME NEW p \in Procs, Unlock(p) PROVE TypeOK'
  BY <1>11, ReleasedFacts, SMTT(30) DEF Unlock, Advance
<1>12. ASSUME NEW p \in Procs, SemPost(p) PROVE TypeOK'
  <2>1. Holding(p, stage[p]) /\ stage[p] \in Sems
    BY <1>12 DEF SemPost, Holding
  <2>2. sem[stage[p]] = 0
    BY <1>12, <2>1 DEF SemInv
  <2>3. sem' \in [Sems -> 0 .. 1] /\ stage' \in [Procs -> 1 .. 4]
    BY <1>12, <2>1, <2>2 DEF SemPost, Advance
  <2>4. pc' \in [Procs -> {"fork", "wait", "work", "enter", "recover", "load",
                           "peek", "store", "leave", "close", "teardown"}]
    BY <1>12 DEF SemPost, Advance
  <2> QED  BY <1>12, <2>3, <2>4 DEF SemPost
<1>13. ASSUME NEW c \in Children, Exit(c) PROVE TypeOK'
  BY <1>13 DEF Exit
<1>14. ASSUME NEW c \in Children, Kill(c) PROVE TypeOK'
  <2>1. kills' \in 0 .. MaxKills
    BY <1>14 DEF Kill
  <2> QED  BY <1>14, <2>1, AfterDeathFacts DEF Kill
<1>15. ASSUME NEW c \in Children, Reap(c) PROVE TypeOK'
  BY <1>15 DEF Reap
<1>16. ASSUME ReadFinal PROVE TypeOK'
  BY <1>16 DEF ReadFinal
<1>17. ASSUME PeekFinal PROVE TypeOK'
  <2>1. stage[Parent] \in 1 .. 3
    BY <1>17 DEF PeekFinal
  <2>2. stage' \in [Procs -> 1 .. 4] /\ final' \in [Guards -> Int]
    BY <1>17, <2>1 DEF PeekFinal
  <2> QED  BY <1>17, <2>2 DEF PeekFinal
<1>18. ASSUME Teardown PROVE TypeOK'
  BY <1>18 DEF Teardown
<1>19. CASE UNCHANGED vars
  BY <1>19 DEF vars
<1> QED
  BY <1>1, <1>2, <1>3, <1>4, <1>5, <1>6, <1>7, <1>8, <1>9, <1>10,
     <1>11, <1>12, <1>13, <1>14, <1>15, <1>16, <1>17, <1>18, <1>19, NextCases

\* Every step leads from a place of the program to a place of the program.
LEMMA PlacesStep ==
    ASSUME TypeOK, Places, [Next]_vars
    PROVE  Places'
<1> USE NAssumption, KillsAssumption, ParentAssumption DEF Procs, Children, At, Running, Ended, Goto,
    End, bookkeeping, memory, TypeOK, Places, Sems
<1>1. ASSUME NEW c \in Children, Fork(c) PROVE Places'
  BY <1>1 DEF Fork
<1>2. ASSUME ForkFails PROVE Places'
  BY <1>2 DEF ForkFails
<1>3. ASSUME NEW c \in Children, ChildWork(c) PROVE Places'
  BY <1>3 DEF ChildWork
<1>4. ASSUME NEW c \in Children, ChildFails(c) PROVE Places'
  BY <1>4 DEF ChildFails
<1>5. ASSUME NEW p \in Procs, Lock(p) PROVE Places'
  BY <1>5, ZenonT(40) DEF Lock
<1>6. ASSUME NEW p \in Procs, Recover(p) PROVE Places'
  BY <1>6 DEF Recover
<1>7. ASSUME NEW p \in Procs, SemWait(p) PROVE Places'
  BY <1>7 DEF SemWait
<1>8. ASSUME NEW c \in Children, Crash(c) PROVE Places'
  BY <1>8 DEF Crash
<1>9. ASSUME NEW c \in Children, Load(c) PROVE Places'
  BY <1>9 DEF Load
<1>10. ASSUME NEW c \in Children, Store(c) PROVE Places'
  BY <1>10 DEF Store
<1>11. ASSUME NEW p \in Procs, Unlock(p) PROVE Places'
  BY <1>11 DEF Unlock, Advance
<1>12. ASSUME NEW p \in Procs, SemPost(p) PROVE Places'
  BY <1>12 DEF SemPost, Advance
<1>13. ASSUME NEW c \in Children, Exit(c) PROVE Places'
  BY <1>13 DEF Exit
<1>14. ASSUME NEW c \in Children, Kill(c) PROVE Places'
  BY <1>14 DEF Kill
<1>15. ASSUME NEW c \in Children, Reap(c) PROVE Places'
  BY <1>15 DEF Reap
<1>16. ASSUME ReadFinal PROVE Places'
  BY <1>16 DEF ReadFinal
<1>17. ASSUME PeekFinal PROVE Places'
  BY <1>17 DEF PeekFinal
<1>18. ASSUME Teardown PROVE Places'
  BY <1>18 DEF Teardown
<1>19. CASE UNCHANGED vars
  BY <1>19 DEF vars
<1> QED
  BY <1>1, <1>2, <1>3, <1>4, <1>5, <1>6, <1>7, <1>8, <1>9, <1>10,
     <1>11, <1>12, <1>13, <1>14, <1>15, <1>16, <1>17, <1>18, <1>19, NextCases

\* What locking touches: the mutex, and the place or the status of the process
\* that locks, which stands at the first guard.
LEMMA LockTouches ==
    ASSUME TypeOK, NEW p \in Procs, Lock(p)
    PROVE  /\ stage[p] = 1 /\ stage' = stage /\ sem' = sem
           /\ \A q \in Procs : q # p => pc'[q] = pc[q] /\ status'[q] = status[q]
<1>1. stage[p] = 1 /\ stage' = stage /\ sem' = sem
  BY DEF Lock
<1>2. ASSUME NEW q \in Procs, q # p
      PROVE  pc'[q] = pc[q] /\ status'[q] = status[q]
  BY <1>2 DEF Lock, TypeOK, Goto, End
<1> QED  BY <1>1, <1>2

\* The mutex has no owner but the one inside its section.
LEMMA MutexStep ==
    ASSUME TypeOK, Places, MutexInv, [Next]_vars
    PROVE  MutexInv'
<1> USE NAssumption, KillsAssumption, ParentAssumption DEF Procs, Children, At, Running, Ended, Goto,
    End, bookkeeping, memory, TypeOK, Places, MutexInv, Holding, Sems
<1>1. ASSUME NEW c \in Children, Fork(c) PROVE MutexInv'
  BY <1>1, ZenonT(40) DEF Fork
<1>2. ASSUME ForkFails PROVE MutexInv'
  BY <1>2, ZenonT(40) DEF ForkFails
<1>3. ASSUME NEW c \in Children, ChildWork(c) PROVE MutexInv'
  BY <1>3 DEF ChildWork
<1>4. ASSUME NEW c \in Children, ChildFails(c) PROVE MutexInv'
  BY <1>4 DEF ChildFails
<1>5. ASSUME NEW p \in Procs, Lock(p) PROVE MutexInv'
  <2>1. mutex \in MutexType(Procs) /\ mutex.holder = {}
    BY <1>5 DEF Lock, Lockable
  <2>2. mutex' = Acquired(mutex, p) /\ pc' = [pc EXCEPT ![p] =
            IF mutex.state = "inconsistent" THEN "recover" ELSE "load"]
    BY <1>5, <2>1, LockResultFacts DEF Lock
  <2>3. mutex'.holder = {p} /\ mutex'.state = mutex.state
    BY ONLY <1>5, <2>1, <2>2, AcquiredFacts
  <2>4. \A q \in Procs : (Running(q) /\ Holding(q, 1))' <=> q = p
    <3> TAKE q \in Procs
    <3>1. CASE q = p
      <4>1. status' = status /\ stage' = stage /\ status[p] = "running" /\ stage[p] = 1
        BY <1>5, <2>1, LockResultFacts DEF Lock
      <4>2. pc'[p] \in {"recover", "load"}
        BY <2>2
      <4> QED  BY ONLY <3>1, <4>1, <4>2 DEF Holding, Running
    <3>2. CASE q # p
      <4>1. pc'[q] = pc[q] /\ status'[q] = status[q] /\ stage' = stage
        BY <1>5, <3>2, LockTouches
      <4>2. ~(Running(q) /\ Holding(q, 1))
        BY <2>1
      <4> QED  BY ONLY <3>2, <4>1, <4>2 DEF Holding, Running
    <3> QED  BY <3>1, <3>2
  <2>5. mutex'.state = IF pc'[p] = "recover" THEN "inconsistent" ELSE "consistent"
    BY <2>2, <2>3
  <2>6. mutex'.state \in {"consistent", "inconsistent"}
    BY <2>3
  <2>7. \A q \in Procs : mutex'.holder = {q} <=> q = p
    BY ONLY <2>3
  <2>8. \A q \in Procs : (Running(q) /\ Holding(q, 1))' =>
            mutex'.state = IF pc'[q] = "recover" THEN "inconsistent" ELSE "consistent"
    BY ONLY <2>4, <2>5
  <2> QED  BY ONLY <2>4, <2>6, <2>7, <2>8 DEF MutexInv
<1>6. ASSUME NEW p \in Procs, Recover(p) PROVE MutexInv'
  <2>1. mutex \in MutexType(Procs) /\ mutex' = MadeConsistent(mutex)
    BY <1>6 DEF Recover
  <2>2. mutex'.holder = mutex.holder /\ mutex'.state = "consistent"
    BY ONLY <2>1, MadeConsistentFacts
  <2>3. mutex.holder = {p}
    BY <1>6 DEF Recover
  <2>4. \A q \in Procs : (Running(q) /\ Holding(q, 1))' <=> Running(q) /\ Holding(q, 1)
    BY <1>6 DEF Recover
  <2>5. pc'[p] = "load" /\ \A q \in Procs : Running(q) /\ Holding(q, 1) => q = p
    BY <1>6, <2>3 DEF Recover
  <2>6. \A q \in Procs : mutex'.holder = {q} <=> (Running(q) /\ Holding(q, 1))'
    BY <2>2, <2>4
  <2>7. \A q \in Procs : (Running(q) /\ Holding(q, 1))' =>
            mutex'.state = IF pc'[q] = "recover" THEN "inconsistent" ELSE "consistent"
    BY ONLY <2>2, <2>4, <2>5
  <2> QED  BY ONLY <2>2, <2>6, <2>7 DEF MutexInv
<1>7. ASSUME NEW p \in Procs, SemWait(p) PROVE MutexInv'
  BY <1>7 DEF SemWait
<1>8. ASSUME NEW c \in Children, Crash(c) PROVE MutexInv'
  <2>1. mutex.holder = {c}
    BY <1>8 DEF Crash, CrashPlace
  <2>2. c \in Procs /\ mutex \in MutexType(Procs) /\ mutex' = AfterDeath(mutex, c)
    BY <1>8 DEF Crash
  <2>3. mutex'.holder = {} /\ mutex'.state = "inconsistent"
    BY ONLY <2>1, <2>2, AfterDeathFacts
  <2>4. \A q \in Procs : ~(Running(q) /\ Holding(q, 1))'
    <3> TAKE q \in Procs
    <3>1. CASE q = c
      BY <1>8, <3>1 DEF Crash
    <3>2. CASE q # c
      BY <1>8, <2>1, <3>2 DEF Crash
    <3> QED  BY <3>1, <3>2
  <2> QED  BY <2>3, <2>4
<1>9. ASSUME NEW c \in Children, Load(c) PROVE MutexInv'
  BY <1>9 DEF Load
<1>10. ASSUME NEW c \in Children, Store(c) PROVE MutexInv'
  BY <1>10 DEF Store
<1>11. ASSUME NEW p \in Procs, Unlock(p) PROVE MutexInv'
  <2>1. mutex.holder = {p} /\ mutex.state = "consistent"
    BY <1>11 DEF Unlock
  <2>2. mutex \in MutexType(Procs) /\ mutex' = Released(mutex)
    BY <1>11 DEF Unlock
  <2>3. mutex'.holder = {} /\ mutex'.state = "consistent"
    BY ONLY <2>1, <2>2, ReleasedFacts
  <2>4. \A q \in Procs : ~(Running(q) /\ Holding(q, 1))'
    <3> TAKE q \in Procs
    <3>1. CASE q = p
      BY <1>11, <3>1 DEF Unlock, Advance
    <3>2. CASE q # p
      BY <1>11, <2>1, <3>2 DEF Unlock, Advance
    <3> QED  BY <3>1, <3>2
  <2> QED  BY <2>3, <2>4
<1>12. ASSUME NEW p \in Procs, SemPost(p) PROVE MutexInv'
  BY <1>12 DEF SemPost, Advance
<1>13. ASSUME NEW c \in Children, Exit(c) PROVE MutexInv'
  BY <1>13 DEF Exit
<1>14. ASSUME NEW c \in Children, Kill(c) PROVE MutexInv'
  <2>1. c \in Procs /\ mutex \in MutexType(Procs) /\ mutex' = AfterDeath(mutex, c)
    BY <1>14 DEF Kill
  <2>2. \A q \in Procs : (Running(q) /\ Holding(q, 1))' <=> q # c /\ Running(q) /\ Holding(q, 1)
    BY <1>14 DEF Kill
  <2>3. CASE mutex.holder = {c}
    <3>1. mutex'.holder = {} /\ mutex'.state = "inconsistent"
      BY ONLY <2>1, <2>3, AfterDeathFacts
    <3>2. \A q \in Procs : ~(Running(q) /\ Holding(q, 1))'
      BY <2>2, <2>3, ZenonT(40)
    <3> QED  BY <3>1, <3>2
  <2>4. CASE mutex.holder # {c}
    <3>1. mutex' = mutex
      BY ONLY <2>1, <2>4, AfterDeathFacts
    <3>2. \A q \in Procs : (Running(q) /\ Holding(q, 1))' <=> Running(q) /\ Holding(q, 1)
      BY <2>2, <2>4
    <3>3. pc' = pc
      BY <1>14 DEF Kill
    <3> QED  BY <3>1, <3>2, <3>3
  <2> QED  BY <2>3, <2>4
<1>15. ASSUME NEW c \in Children, Reap(c) PROVE MutexInv'
  BY <1>15 DEF Reap
<1>16. ASSUME ReadFinal PROVE MutexInv'
  BY <1>16 DEF ReadFinal
<1>17. ASSUME PeekFinal PROVE MutexInv'
  BY <1>17 DEF PeekFinal
<1>18. ASSUME Teardown PROVE MutexInv'
  BY <1>18 DEF Teardown
<1>19. CASE UNCHANGED vars
  BY <1>19 DEF vars
<1> QED
  BY <1>1, <1>2, <1>3, <1>4, <1>5, <1>6, <1>7, <1>8, <1>9, <1>10,
     <1>11, <1>12, <1>13, <1>14, <1>15, <1>16, <1>17, <1>18, <1>19, NextCases

\* Nobody enters a semaphore somebody is inside of.
LEMMA SemStep ==
    ASSUME TypeOK, Places, SemInv, [Next]_vars
    PROVE  SemInv'
<1> USE NAssumption, KillsAssumption, ParentAssumption DEF Procs, Children, At, Running, Ended, Goto,
    End, bookkeeping, memory, TypeOK, Places, SemInv, Holding, Sems
<1>1. ASSUME NEW c \in Children, Fork(c) PROVE SemInv'
  BY <1>1 DEF Fork
<1>2. ASSUME ForkFails PROVE SemInv'
  BY <1>2 DEF ForkFails
<1>3. ASSUME NEW c \in Children, ChildWork(c) PROVE SemInv'
  BY <1>3 DEF ChildWork
<1>4. ASSUME NEW c \in Children, ChildFails(c) PROVE SemInv'
  BY <1>4 DEF ChildFails
<1>5. ASSUME NEW p \in Procs, Lock(p) PROVE SemInv'
  <2>a. stage[p] = 1 /\ stage' = stage /\ sem' = sem
    BY ONLY <1>5, TypeOK, LockTouches
  <2>b. \A q \in Procs : q # p => pc'[q] = pc[q] /\ status'[q] = status[q]
    BY ONLY <1>5, TypeOK, LockTouches
  <2>1. \A q \in Procs : \A k \in Sems : Holding(q, k)' = Holding(q, k)
    <3> SUFFICES ASSUME NEW q \in Procs, NEW k \in Sems
                 PROVE  Holding(q, k)' = Holding(q, k)
      OBVIOUS
    <3>1. CASE q = p
      <4>1. stage[q] # k /\ stage'[q] # k
        BY ONLY <2>a, <3>1 DEF Sems
      <4> QED  BY ONLY <4>1 DEF Holding
    <3>2. CASE q # p
      <4>1. pc'[q] = pc[q] /\ status'[q] = status[q] /\ stage' = stage
        BY ONLY <2>a, <2>b, <3>2
      <4> QED  BY ONLY <4>1 DEF Holding
    <3> QED  BY <3>1, <3>2
  <2> QED  BY ONLY <2>1, <2>a, SemInv DEF SemInv
<1>6. ASSUME NEW p \in Procs, Recover(p) PROVE SemInv'
  BY <1>6 DEF Recover
<1>7. ASSUME NEW p \in Procs, SemWait(p) PROVE SemInv'
  BY <1>7 DEF SemWait
<1>8. ASSUME NEW c \in Children, Crash(c) PROVE SemInv'
  BY <1>8 DEF Crash
<1>9. ASSUME NEW c \in Children, Load(c) PROVE SemInv'
  BY <1>9 DEF Load
<1>10. ASSUME NEW c \in Children, Store(c) PROVE SemInv'
  BY <1>10 DEF Store
<1>11. ASSUME NEW p \in Procs, Unlock(p) PROVE SemInv'
  BY <1>11 DEF Unlock, Advance
<1>12. ASSUME NEW p \in Procs, SemPost(p) PROVE SemInv'
  BY <1>12 DEF SemPost, Advance
<1>13. ASSUME NEW c \in Children, Exit(c) PROVE SemInv'
  BY <1>13 DEF Exit
<1>14. ASSUME NEW c \in Children, Kill(c) PROVE SemInv'
  BY <1>14 DEF Kill
<1>15. ASSUME NEW c \in Children, Reap(c) PROVE SemInv'
  BY <1>15 DEF Reap
<1>16. ASSUME ReadFinal PROVE SemInv'
  BY <1>16 DEF ReadFinal
<1>17. ASSUME PeekFinal PROVE SemInv'
  BY <1>17 DEF PeekFinal
<1>18. ASSUME Teardown PROVE SemInv'
  BY <1>18 DEF Teardown
<1>19. CASE UNCHANGED vars
  BY <1>19 DEF vars
<1> QED
  BY <1>1, <1>2, <1>3, <1>4, <1>5, <1>6, <1>7, <1>8, <1>9, <1>10,
     <1>11, <1>12, <1>13, <1>14, <1>15, <1>16, <1>17, <1>18, <1>19, NextCases

\* What holds in every state of every execution.
IInv == TypeOK /\ Places /\ MutexInv /\ SemInv

\* Every execution of the three programs keeps the invariant: the steps'
\* lemmas combined.
THEOREM Inductive == Spec => []IInv
<1>1. Init => IInv
  BY Initially DEF IInv
<1>2. IInv /\ [Next]_vars => IInv'
  BY TypeStep, PlacesStep, MutexStep, SemStep DEF IInv
<1> QED  BY <1>1, <1>2, PTL DEF Spec

\* The variables keep their types, whatever is killed: above all, no
\* semaphore ever rises above the one unit it was created with.
THEOREM TypeCorrect == Spec => []TypeOK
<1>1. IInv => TypeOK
  BY DEF IInv
<1> QED  BY <1>1, Inductive, PTL

\* For any number of children and of deaths, no two running processes are
\* inside the mutex, and no two processes, alive or dead, inside a semaphore.
THEOREM MutualExclusion == Spec => []Exclusion
<1>1. IInv => Exclusion
  <2> SUFFICES ASSUME IInv, NEW p \in Procs, NEW q \in Procs, NEW k \in Guards,
                      p # q, Holding(p, k), Holding(q, k)
               PROVE  k = 1 /\ ~(Running(p) /\ Running(q))
    BY DEF Exclusion
  <2>1. CASE k = 1
    <3>1. ~(mutex.holder = {p} /\ mutex.holder = {q})
      OBVIOUS
    <3> QED  BY <2>1, <3>1 DEF IInv, MutexInv
  <2>2. CASE k \in Sems
    BY <2>2 DEF IInv, SemInv
  <2> QED  BY <2>1, <2>2 DEF Guards, Sems
<1> QED  BY <1>1, Inductive, PTL

\* However children die and recover, the next lock succeeds or reports
\* EOWNERDEAD, and no dead process owns the mutex.
THEOREM MutexNeverLost == Spec => []MutexSurvives
<1>1. IInv => MutexSurvives
  <2> SUFFICES ASSUME IInv PROVE MutexSurvives
    OBVIOUS
  <2>1. mutex.holder \in {{}} \cup {{p} : p \in Procs}
    BY DEF IInv, TypeOK, MutexType
  <2>2. \A p \in mutex.holder : p \in Procs /\ mutex.holder = {p}
    BY <2>1
  <2> QED  BY <2>2 DEF IInv, MutexInv, MutexSurvives
<1> QED  BY <1>1, Inductive, PTL

\* A running child about to store has loaded the value still there.
RegInv == \A c \in Children : At(c, "store") => reg[c] = count[stage[c]]

\* Passed in terms of the place alone.
PassedAt(c) == IF pc[c] = "leave" THEN stage[c] ELSE stage[c] - 1

\* A child that was not born has not started, so Passed can ignore status.
LEMMA PassedByPlace ==
    ASSUME Places, NEW c \in Children
    PROVE  Passed(c) = PassedAt(c)
BY DEF Places, Passed, PassedAt, Holding

\* What no step but Store changes: the counters, how far each child has come,
\* and that loaded values are current.
Quiet ==
    /\ count' = count /\ prog' = prog
    /\ \A c \in Children : PassedAt(c)' = PassedAt(c)
    /\ RegInv'

\* Every step but Store is quiet.
LEMMA QuietStep ==
    ASSUME TypeOK, Places, RegInv, [Next]_vars, ~ \E c \in Children : Store(c)
    PROVE  Quiet
<1> USE ParentAssumption DEF Procs, Children, At, Running, Ended, Goto, End,
    bookkeeping, memory, TypeOK, Places, Sems, RegInv, PassedAt, Quiet
<1>1. ASSUME NEW c \in Children, Fork(c) PROVE Quiet
  BY <1>1 DEF Fork
<1>2. ASSUME ForkFails PROVE Quiet
  BY <1>2 DEF ForkFails
<1>3. ASSUME NEW c \in Children, ChildWork(c) PROVE Quiet
  BY <1>3 DEF ChildWork
<1>4. ASSUME NEW c \in Children, ChildFails(c) PROVE Quiet
  BY <1>4 DEF ChildFails
<1>5. ASSUME NEW p \in Procs, Lock(p) PROVE Quiet
  BY <1>5 DEF Lock
<1>6. ASSUME NEW p \in Procs, Recover(p) PROVE Quiet
  BY <1>6 DEF Recover
<1>7. ASSUME NEW p \in Procs, SemWait(p) PROVE Quiet
  BY <1>7 DEF SemWait
<1>8. ASSUME NEW c \in Children, Crash(c) PROVE Quiet
  BY <1>8 DEF Crash, CrashPlace
<1>9. ASSUME NEW c \in Children, Load(c) PROVE Quiet
  BY <1>9 DEF Load
<1>10. ASSUME NEW p \in Procs, Unlock(p) PROVE Quiet
  BY <1>10 DEF Unlock, Advance
<1>11. ASSUME NEW p \in Procs, SemPost(p) PROVE Quiet
  BY <1>11 DEF SemPost, Advance
<1>12. ASSUME NEW c \in Children, Exit(c) PROVE Quiet
  BY <1>12 DEF Exit
<1>13. ASSUME NEW c \in Children, Kill(c) PROVE Quiet
  BY <1>13 DEF Kill
<1>14. ASSUME NEW c \in Children, Reap(c) PROVE Quiet
  BY <1>14 DEF Reap
<1>15. ASSUME ReadFinal PROVE Quiet
  BY <1>15 DEF ReadFinal
<1>16. ASSUME PeekFinal PROVE Quiet
  BY <1>16 DEF PeekFinal
<1>17. ASSUME Teardown PROVE Quiet
  BY <1>17 DEF Teardown
<1>18. CASE UNCHANGED vars
  BY <1>18 DEF vars
<1> QED
  BY <1>1, <1>2, <1>3, <1>4, <1>5, <1>6, <1>7, <1>8, <1>9, <1>10,
     <1>11, <1>12, <1>13, <1>14, <1>15, <1>16, <1>17, <1>18, NextCases

\* The children are finitely many, and so is every part of them.
LEMMA ChildrenFinite == \A S \in SUBSET Children : IsFiniteSet(S)
<1>1. IsFiniteSet(Children)
  <2>1. 0 \in Int /\ N - 1 \in Int
    BY NAssumption
  <2> QED  BY <2>1, FS_Interval DEF Children
<1> QED  BY <1>1, FS_Subset

\* One more update: one more child counted.
LEMMA OneMore ==
    ASSUME NEW x \in Int, NEW i \in Int, NEW n \in Int, NEW d \in {1, -1}, x = i + d * n
    PROVE  x + d = i + d * (n + 1)
<1>1. CASE d = 1
  BY <1>1
<1>2. CASE d = -1
  BY <1>2
<1> QED  BY <1>1, <1>2

\* The counters stay exact: only the one whose guard the storing child holds
\* changes, by what that child adds to the number it had loaded.
LEMMA CountStep ==
    ASSUME TypeOK, Places, Places', MutexInv, SemInv, RegInv, CountExact, [Next]_vars
    PROVE  RegInv' /\ CountExact'
<1> DEFINE Past(k) == {c \in Children : Passed(c) >= k}
<1>1. CASE ~ \E c \in Children : Store(c)
  <2>1. Quiet
    BY <1>1, QuietStep
  <2>2. \A c \in Children : Passed(c)' = Passed(c)
    BY <2>1, PassedByPlace DEF Quiet, PassedAt, Places, Passed, Holding, Children
  <2>3. \A k \in Guards : Past(k)' = Past(k)
    BY <2>2 DEF Children
  <2>4. Initial' = Initial /\ Delta' = Delta
    BY <2>1 DEF Quiet, Initial, Delta
  <2> QED  BY <2>1, <2>3, <2>4 DEF Quiet, CountExact
<1>2. ASSUME NEW c \in Children, Store(c) PROVE RegInv' /\ CountExact'
  <2>1. PICK s \in Guards : s = stage[c] /\ reg[c] = count[s] /\ count[s] \in Int /\ Delta \in Int
    BY <1>2, DeltaType DEF Store, At, Running, RegInv, Places, Procs, Guards, TypeOK
  <2>2. count' = [count EXCEPT ![s] = count[s] + Delta]
    BY <1>2, <2>1 DEF Store
  <2>3. pc' = [pc EXCEPT ![c] = "leave"] /\ stage' = stage /\ prog' = prog
        /\ reg' = reg /\ status' = status /\ pc[c] = "store" /\ Running(c)
    BY <1>2 DEF Store, At, Goto, bookkeeping
  <2>4. RegInv'
    <3> SUFFICES ASSUME NEW d \in Children, At(d, "store")'
                 PROVE  reg'[d] = count'[stage'[d]]
      BY DEF RegInv
    <3>1. d # c /\ At(d, "store")
      BY <2>3 DEF At, Running, TypeOK, Procs
    <3>2. stage[d] \in Guards
      BY <3>1 DEF At, Places, Procs, Guards
    <3>3. stage[d] # s
      BY <2>1, <2>3, <3>1, <3>2
         DEF At, Running, Holding, MutexInv, SemInv, Guards, Sems, Procs
    <3>4. reg[d] = count[stage[d]]
      BY <3>1 DEF RegInv
    <3> QED  BY <2>2, <2>3, <3>2, <3>3, <3>4 DEF TypeOK
  <2>5. \A d \in Children : Passed(d)' = IF d = c THEN s ELSE Passed(d)
    BY <2>1, <2>3, PassedByPlace DEF PassedAt, Passed, Holding, Places, TypeOK, Procs, Running
  <2>6. Passed(c) = s - 1
    BY <2>1, <2>3, PassedByPlace DEF PassedAt
  <2>7. \A d \in Children : Passed(d) \in Int
    BY PassedByPlace DEF PassedAt, TypeOK, Procs
  <2>8. Past(s)' = Past(s) \cup {c} /\ c \notin Past(s)
    BY <2>1, <2>3, <2>5, <2>6, <2>7 DEF Guards, Children
  <2>9. \A k \in Guards : k # s => Past(k)' = Past(k)
    BY <2>1, <2>3, <2>5, <2>6, <2>7 DEF Guards, Children
  <2>10. Cardinality(Past(s)') = Cardinality(Past(s)) + 1 /\ Cardinality(Past(s)) \in Nat
    <3>1. IsFiniteSet(Past(s))
      BY ChildrenFinite
    <3> QED  BY <2>8, <3>1, FS_AddElement, FS_CardinalityType
  <2>11. Initial' = Initial /\ Delta' = Delta /\ Initial \in Int
    BY <2>3, NAssumption DEF Initial, Delta
  <2>12. ASSUME NEW k \in Guards
         PROVE  count'[k] = Initial + Delta * Cardinality(Past(k)')
    <3>1. count[k] = Initial + Delta * Cardinality(Past(k))
      BY DEF CountExact
    <3>2. CASE k = s
      <4>1. count'[s] = count[s] + Delta
        BY <2>1, <2>2 DEF TypeOK
      <4>2. count[s] = Initial + Delta * Cardinality(Past(s))
        BY <3>1, <3>2
      <4>3. count[s] + Delta = Initial + Delta * (Cardinality(Past(s)) + 1)
        <5> HIDE DEF Past
        <5>1. Cardinality(Past(s)) \in Int
          BY <2>10
        <5>2. count[s] \in Int /\ Initial \in Int
          BY <2>1, <2>11
        <5> QED  BY ONLY <4>2, <5>1, <5>2, DeltaType, OneMore
      <4> QED  BY <2>10, <3>2, <4>1, <4>3
    <3>3. CASE k # s
      BY <2>2, <2>9, <3>1, <3>3 DEF TypeOK
    <3> QED  BY <3>2, <3>3
  <2>13. CountExact'
    BY <2>11, <2>12 DEF CountExact
  <2> QED  BY <2>4, <2>13
<1> QED  BY <1>1, <1>2

\* The counters are exact and loaded values current in every reachable state.
THEOREM CountsInductive == Spec => [](RegInv /\ CountExact)
<1>1. Init => RegInv /\ CountExact
  <2> SUFFICES ASSUME Init PROVE RegInv /\ CountExact
    OBVIOUS
  <2> USE NAssumption, ParentAssumption DEF Init, Procs, Children
  <2>1. RegInv
    BY DEF RegInv, At
  <2>2. \A k \in Guards : {c \in Children : Passed(c) >= k} = {}
    BY DEF Passed, Holding, Guards
  <2>3. Initial \in Int /\ Delta \in Int
    BY DeltaType DEF Initial
  <2>4. \A k \in Guards : count[k] = Initial
    OBVIOUS
  <2>5. CountExact
    <3>1. \A k \in Guards : Cardinality({c \in Children : Passed(c) >= k}) = 0
      BY <2>2, FS_EmptySet
    <3>2. Initial + Delta * 0 = Initial
      BY <2>3, DeltaType
    <3> QED  BY <2>4, <3>1, <3>2 DEF CountExact
  <2> QED  BY <2>1, <2>5
<1>2. IInv /\ IInv' /\ RegInv /\ CountExact /\ [Next]_vars => RegInv' /\ CountExact'
  BY CountStep DEF IInv
<1> QED  BY <1>1, <1>2, Inductive, PTL DEF Spec

\* No update of a counter is ever lost or doubled, for any number of children
\* and deaths: each counter tells how many children got past its update.
THEOREM CountsAreExact == Spec => []CountExact
BY CountsInductive, PTL

-----------------------------------------------------------------------------
\* The report.  The parent collects only children that have ended, and turns
\* to the counters when it has all of them.
Collected ==
    /\ reaped \subseteq {c \in Children : Ended(c)}
    /\ pc[Parent] \notin {"fork", "wait"} => reaped = Children

\* How far a child was when it ended tells how it ended.
FateInv ==
    \A c \in Children :
        /\ pc[c] = "close" => stage[c] = 4
        /\ pc[c] # "work" => c \in letters
        /\ status[c] = "ok" => pc[c] = "close"
        /\ status[c] = "failed" => pc[c] = "work" /\ prog # "template_ds"
        /\ status[c] = "crashed" => stage[c] = 1 /\ pc[c] = CrashPlace
        /\ status[c] = "killed" => kills > 0

\* The parent has read counter k, and has read what is still there.
ReadAlready(k) == stage[Parent] > k \/ (stage[Parent] = k /\ pc[Parent] = "leave")
FinalInv == \A k \in Guards : final[k] = IF ReadAlready(k) THEN count[k] ELSE Unread

\* A process that has ended does nothing any more; so the parent, once past
\* its wait, has all the children and keeps them.
LEMMA CollectedStep ==
    ASSUME TypeOK, Places, Collected, [Next]_vars
    PROVE  Collected'
<1> USE NAssumption, KillsAssumption, ParentAssumption DEF Procs, Children, At, Running, Ended, Goto,
    End, bookkeeping, memory, TypeOK, Places, Sems, Collected
<1>1. ASSUME NEW c \in Children, Fork(c) PROVE Collected'
  BY <1>1 DEF Fork
<1>2. ASSUME ForkFails PROVE Collected'
  BY <1>2 DEF ForkFails
<1>3. ASSUME NEW c \in Children, ChildWork(c) PROVE Collected'
  BY <1>3 DEF ChildWork
<1>4. ASSUME NEW c \in Children, ChildFails(c) PROVE Collected'
  BY <1>4 DEF ChildFails
<1>5. ASSUME NEW p \in Procs, Lock(p) PROVE Collected'
  BY <1>5 DEF Lock
<1>6. ASSUME NEW p \in Procs, Recover(p) PROVE Collected'
  BY <1>6 DEF Recover
<1>7. ASSUME NEW p \in Procs, SemWait(p) PROVE Collected'
  BY <1>7 DEF SemWait
<1>8. ASSUME NEW c \in Children, Crash(c) PROVE Collected'
  BY <1>8 DEF Crash
<1>9. ASSUME NEW c \in Children, Load(c) PROVE Collected'
  BY <1>9 DEF Load
<1>10. ASSUME NEW c \in Children, Store(c) PROVE Collected'
  BY <1>10 DEF Store
<1>11. ASSUME NEW p \in Procs, Unlock(p) PROVE Collected'
  BY <1>11 DEF Unlock, Advance
<1>12. ASSUME NEW p \in Procs, SemPost(p) PROVE Collected'
  BY <1>12 DEF SemPost, Advance
<1>13. ASSUME NEW c \in Children, Exit(c) PROVE Collected'
  BY <1>13 DEF Exit
<1>14. ASSUME NEW c \in Children, Kill(c) PROVE Collected'
  BY <1>14 DEF Kill
<1>15. ASSUME NEW c \in Children, Reap(c) PROVE Collected'
  <2>1. reaped' \subseteq {d \in Children : Ended(d)}'
    BY <1>15 DEF Reap
  <2>2. ASSUME WaitedForAll(reaped') PROVE reaped' = Children
    <3>1. IsFiniteSet(Children) /\ Cardinality(Children) = N
      <4>1. 0 \in Int /\ N - 1 \in Int
        OBVIOUS
      <4> QED  BY <4>1, FS_Interval
    <3>2. reaped' \in SUBSET Children
      BY <1>15 DEF Reap
    <3>3. Cardinality(reaped') = Cardinality(Children)
      BY <2>2, <3>1 DEF WaitedForAll
    <3> QED  BY ONLY <3>1, <3>2, <3>3, FS_Subset
  <2>3. ~WaitedForAll(reaped') => pc'[Parent] = "wait"
    BY <1>15 DEF Reap
  <2> QED  BY <2>1, <2>2, <2>3
<1>16. ASSUME ReadFinal PROVE Collected'
  BY <1>16 DEF ReadFinal
<1>17. ASSUME PeekFinal PROVE Collected'
  BY <1>17 DEF PeekFinal
<1>18. ASSUME Teardown PROVE Collected'
  BY <1>18 DEF Teardown
<1>19. CASE UNCHANGED vars
  BY <1>19 DEF vars
<1> QED
  BY <1>1, <1>2, <1>3, <1>4, <1>5, <1>6, <1>7, <1>8, <1>9, <1>10,
     <1>11, <1>12, <1>13, <1>14, <1>15, <1>16, <1>17, <1>18, <1>19, NextCases

\* How a child ends depends on where it is; lock never fails, because the
\* mutex is never beyond recovery.
LEMMA FateStep ==
    ASSUME TypeOK, Places, MutexInv, FateInv, [Next]_vars
    PROVE  FateInv'
<1> USE NAssumption, KillsAssumption, ParentAssumption DEF Procs, Children, At, Running, Ended, Goto,
    End, bookkeeping, memory, TypeOK, Places, Sems, FateInv, CrashPlace
<1>1. ASSUME NEW c \in Children, Fork(c) PROVE FateInv'
  BY <1>1 DEF Fork
<1>2. ASSUME ForkFails PROVE FateInv'
  BY <1>2 DEF ForkFails
<1>3. ASSUME NEW c \in Children, ChildWork(c) PROVE FateInv'
  BY <1>3 DEF ChildWork
<1>4. ASSUME NEW c \in Children, ChildFails(c) PROVE FateInv'
  BY <1>4 DEF ChildFails
<1>5. ASSUME NEW p \in Procs, Lock(p) PROVE FateInv'
  <2>1. status' = status /\ \E place \in {"recover", "load"} : Goto(p, place)
    <3>1. LockResult(mutex) # "ENOTRECOVERABLE"
      BY LockResultFacts DEF MutexInv
    <3> QED  BY <1>5, <3>1 DEF Lock
  <2>2. pc[p] = "enter" /\ status[p] = "running" /\ stage' = stage /\ letters' = letters
        /\ prog' = prog /\ kills' = kills
    BY <1>5 DEF Lock
  <2> QED  BY <2>1, <2>2
<1>6. ASSUME NEW p \in Procs, Recover(p) PROVE FateInv'
  BY <1>6 DEF Recover
<1>7. ASSUME NEW p \in Procs, SemWait(p) PROVE FateInv'
  BY <1>7 DEF SemWait
<1>8. ASSUME NEW c \in Children, Crash(c) PROVE FateInv'
  BY <1>8 DEF Crash
<1>9. ASSUME NEW c \in Children, Load(c) PROVE FateInv'
  BY <1>9 DEF Load
<1>10. ASSUME NEW c \in Children, Store(c) PROVE FateInv'
  BY <1>10 DEF Store
<1>11. ASSUME NEW p \in Procs, Unlock(p) PROVE FateInv'
  BY <1>11 DEF Unlock, Advance
<1>12. ASSUME NEW p \in Procs, SemPost(p) PROVE FateInv'
  BY <1>12 DEF SemPost, Advance
<1>13. ASSUME NEW c \in Children, Exit(c) PROVE FateInv'
  BY <1>13 DEF Exit
<1>14. ASSUME NEW c \in Children, Kill(c) PROVE FateInv'
  BY <1>14 DEF Kill
<1>15. ASSUME NEW c \in Children, Reap(c) PROVE FateInv'
  BY <1>15 DEF Reap
<1>16. ASSUME ReadFinal PROVE FateInv'
  BY <1>16 DEF ReadFinal
<1>17. ASSUME PeekFinal PROVE FateInv'
  BY <1>17 DEF PeekFinal
<1>18. ASSUME Teardown PROVE FateInv'
  BY <1>18 DEF Teardown
<1>19. CASE UNCHANGED vars
  BY <1>19 DEF vars
<1> QED
  BY <1>1, <1>2, <1>3, <1>4, <1>5, <1>6, <1>7, <1>8, <1>9, <1>10,
     <1>11, <1>12, <1>13, <1>14, <1>15, <1>16, <1>17, <1>18, <1>19, NextCases

\* Once the parent is past its wait no child runs, and no counter changes.
LEMMA FinalStep ==
    ASSUME TypeOK, Places, Collected, FinalInv, [Next]_vars
    PROVE  FinalInv'
<1> USE NAssumption, KillsAssumption, ParentAssumption DEF Procs, Children, At, Running, Ended, Goto,
    End, bookkeeping, memory, TypeOK, Places, Sems, FinalInv, ReadAlready, Guards, Unread
<1>1. ASSUME NEW c \in Children, Fork(c) PROVE FinalInv'
  BY <1>1 DEF Fork
<1>2. ASSUME ForkFails PROVE FinalInv'
  BY <1>2 DEF ForkFails
<1>3. ASSUME NEW c \in Children, ChildWork(c) PROVE FinalInv'
  BY <1>3 DEF ChildWork
<1>4. ASSUME NEW c \in Children, ChildFails(c) PROVE FinalInv'
  BY <1>4 DEF ChildFails
<1>5. ASSUME NEW p \in Procs, Lock(p) PROVE FinalInv'
  BY <1>5 DEF Lock
<1>6. ASSUME NEW p \in Procs, Recover(p) PROVE FinalInv'
  BY <1>6 DEF Recover
<1>7. ASSUME NEW p \in Procs, SemWait(p) PROVE FinalInv'
  BY <1>7 DEF SemWait
<1>8. ASSUME NEW c \in Children, Crash(c) PROVE FinalInv'
  BY <1>8 DEF Crash
<1>9. ASSUME NEW c \in Children, Load(c) PROVE FinalInv'
  BY <1>9 DEF Load
<1>10. ASSUME NEW c \in Children, Store(c) PROVE FinalInv'
  <2>1. pc[Parent] \in {"fork", "wait"}
    BY <1>10 DEF Store, Collected
  <2>2. \A k \in Guards : ~ReadAlready(k)
    <3>1. stage[Parent] = 1 /\ pc[Parent] # "leave"
      BY <2>1 DEF Places
    <3> QED  BY ONLY <3>1 DEF ReadAlready, Guards
  <2>3. pc'[Parent] = pc[Parent] /\ stage' = stage /\ final' = final
    BY <1>10 DEF Store
  <2> QED  BY <2>2, <2>3
<1>11. ASSUME NEW p \in Procs, Unlock(p) PROVE FinalInv'
  BY <1>11, SMTT(30) DEF Unlock, Advance
<1>12. ASSUME NEW p \in Procs, SemPost(p) PROVE FinalInv'
  BY <1>12, SMTT(30) DEF SemPost, Advance
<1>13. ASSUME NEW c \in Children, Exit(c) PROVE FinalInv'
  BY <1>13 DEF Exit
<1>14. ASSUME NEW c \in Children, Kill(c) PROVE FinalInv'
  BY <1>14 DEF Kill
<1>15. ASSUME NEW c \in Children, Reap(c) PROVE FinalInv'
  BY <1>15 DEF Reap
<1>16. ASSUME ReadFinal PROVE FinalInv'
  BY <1>16 DEF ReadFinal
<1>17. ASSUME PeekFinal PROVE FinalInv'
  BY <1>17, SMTT(30) DEF PeekFinal
<1>18. ASSUME Teardown PROVE FinalInv'
  BY <1>18 DEF Teardown
<1>19. CASE UNCHANGED vars
  BY <1>19 DEF vars
<1> QED
  BY <1>1, <1>2, <1>3, <1>4, <1>5, <1>6, <1>7, <1>8, <1>9, <1>10,
     <1>11, <1>12, <1>13, <1>14, <1>15, <1>16, <1>17, <1>18, <1>19, NextCases
\* What else holds in every state, for the report and for CountOff.
ReportInv == Collected /\ FateInv /\ FinalInv

\* The parent starts with nothing collected and nothing read.
LEMMA ReportInitially == Init => ReportInv
BY NAssumption, KillsAssumption, ParentAssumption
   DEF Init, ReportInv, Collected, FateInv, FinalInv, ReadAlready, Procs, Children, Guards, Unread

\* The report's invariants hold in every reachable state.
THEOREM ReportInductive == Spec => []ReportInv
<1>1. IInv /\ ReportInv /\ [Next]_vars => ReportInv'
  BY CollectedStep, FateStep, FinalStep DEF IInv, ReportInv
<1> QED  BY <1>1, ReportInitially, Inductive, PTL DEF Spec

\* Parts of the children add up.
LEMMA Complement ==
    ASSUME NEW S \in SUBSET Children
    PROVE  /\ Cardinality(S) \in Nat
           /\ Cardinality(Children \ S) = N - Cardinality(S)
<1>1. IsFiniteSet(Children) /\ Cardinality(Children) = N
  <2>1. 0 \in Int /\ N - 1 \in Int
    BY NAssumption
  <2> QED  BY <2>1, NAssumption, FS_Interval DEF Children
<1>2. Children \cap S = S
  OBVIOUS
<1>3. Cardinality(S) \in Nat
  <2>1. IsFiniteSet(S)
    BY <1>1, FS_Subset
  <2> QED  BY ONLY <2>1, FS_CardinalityType
<1>4. Cardinality(Children \ S) = Cardinality(Children) - Cardinality(Children \cap S)
  BY ONLY <1>1, FS_Difference
<1> QED  BY ONLY <1>1, <1>2, <1>3, <1>4

\* With all children collected and none killed, the second and third counter
\* tell who ended well, and so does the first, template_ds.c's excepted, which
\* counts everybody.
LEMMA WhoPassed ==
    ASSUME TypeOK, Places, ReportInv, reaped = Children, kills = 0
    PROVE  \A k \in Guards : {c \in Children : Passed(c) >= k} =
               IF prog = "template_ds" /\ k = 1 THEN Children
               ELSE {c \in Children : status[c] = "ok"}
<1> USE ParentAssumption DEF Procs, TypeOK, Places, ReportInv, Collected, FateInv, Ended, Guards
<1> SUFFICES ASSUME NEW k \in Guards, NEW c \in Children
             PROVE  Passed(c) >= k <=> (prog = "template_ds" /\ k = 1) \/ status[c] = "ok"
  OBVIOUS
<1>1. Passed(c) = PassedAt(c) /\ status[c] \in {"ok", "failed", "crashed"}
  BY PassedByPlace
<1>2. CASE status[c] = "ok"
  BY <1>1, <1>2 DEF PassedAt
<1>3. CASE status[c] = "failed"
  BY <1>1, <1>3 DEF PassedAt
<1>4. CASE status[c] = "crashed"
  BY <1>1, <1>4 DEF PassedAt, CrashPlace
<1> QED  BY <1>1, <1>2, <1>3, <1>4

\* What the parent reports is final, and without kills it is the number of
\* the children that did not end well: for any number of children.
THEOREM ReportIsFinal == Spec => []ReportFinal
<1>1. TypeOK /\ Places /\ CountExact /\ ReportInv => ReportFinal
  <2> SUFFICES ASSUME TypeOK, Places, CountExact, ReportInv PROVE ReportFinal
    OBVIOUS
  <2> USE DEF ReportInv, FinalInv
  <2>1. \A k \in Guards : final[k] # Unread => final[k] = count[k]
    OBVIOUS
  <2>2. ASSUME NEW c \in Children, Passed(c) >= 1 PROVE c \in letters
    BY <2>2, PassedByPlace DEF PassedAt, FateInv, Places, Procs, TypeOK
  <2>3. ASSUME final[3] # Unread, kills = 0
        PROVE  LET lost == Cardinality({c \in Children : status[c] # "ok"})
               IN  IF prog = "template_ds"
                   THEN final[1] = N /\ final[2] = N - lost /\ final[3] = N - lost
                   ELSE \A k \in Guards : final[k] = lost
    <3> DEFINE ok == {c \in Children : status[c] = "ok"}
               lost == Cardinality({c \in Children : status[c] # "ok"})
               past(k) == {c \in Children : Passed(c) >= k}
    <3>1. ReadAlready(3)
      BY <2>3 DEF Guards
    <3>2. pc[Parent] \notin {"fork", "wait"} /\ \A k \in Guards : ReadAlready(k)
      BY <3>1 DEF ReadAlready, Places, Procs, Guards, TypeOK
    <3>3. reaped = Children /\ \A k \in Guards : final[k] = count[k]
      BY <3>2 DEF Collected
    <3>4. \A k \in Guards : count[k] = Initial + Delta * Cardinality(past(k))
      BY DEF CountExact
    <3>5. \A k \in Guards : past(k) = IF prog = "template_ds" /\ k = 1 THEN Children ELSE ok
      BY <2>3, <3>3, WhoPassed
    <3>6. Cardinality(ok) \in Nat /\ lost = N - Cardinality(ok)
      <4>1. {c \in Children : status[c] # "ok"} = Children \ ok
        OBVIOUS
      <4> QED  BY <4>1, Complement
    <3>7. Cardinality(Children) = N
      <4>1. Children \ {} = Children
        OBVIOUS
      <4> QED  BY <4>1, Complement, FS_EmptySet, NAssumption
    <3> HIDE DEF ok, lost, past
    <3>8. CASE prog = "template_ds"
      <4>1. Initial = 0 /\ Delta = 1
        BY <3>8 DEF Initial, Delta
      <4>2. count[1] = 0 + 1 * N /\ \A k \in {2, 3} : count[k] = 0 + 1 * Cardinality(ok)
        BY <3>4, <3>5, <3>7, <3>8, <4>1 DEF Guards
      <4>3. final[1] = N /\ final[2] = N - lost /\ final[3] = N - lost
        BY <3>3, <3>6, <4>2, NAssumption DEF Guards
      <4> QED  BY <3>8, <4>3 DEF lost
    <3>9. CASE prog # "template_ds"
      <4>1. Initial = N /\ Delta = -1
        BY <3>9 DEF Initial, Delta
      <4>2. \A k \in Guards : count[k] = N + (-1) * Cardinality(ok)
        BY <3>4, <3>5, <3>9, <4>1
      <4>3. \A k \in Guards : final[k] = lost
        BY <3>3, <3>6, <4>2, NAssumption
      <4> QED  BY <3>9, <4>3 DEF lost
    <3> QED  BY <3>8, <3>9
  <2> QED  BY <2>1, <2>2, <2>3 DEF ReportFinal
<1>2. IInv => TypeOK /\ Places
  BY DEF IInv
<1> QED  BY <1>1, <1>2, Inductive, CountsInductive, ReportInductive, PTL

-----------------------------------------------------------------------------
\* The refinement of CountOff.  A child that ends, however, vanishes there.
LEMMA Vanishes ==
    ASSUME TypeOK, Places, Places', NEW c \in Children, Running(c),
           status' = [status EXCEPT ![c] = "ok"] \/ status' = [status EXCEPT ![c] = "failed"]
             \/ status' = [status EXCEPT ![c] = "crashed"]
             \/ status' = [status EXCEPT ![c] = "killed"],
           UNCHANGED <<prog, pc, stage, count, final>>
    PROVE  Promise!Vanish(c)
<1>1. \A d \in Children : Passed(d)' = Passed(d)
  BY PassedByPlace DEF PassedAt, Passed, Holding, Places, Procs
<1>2. {d \in Children : Ended(d)}' = {d \in Children : Ended(d)} \cup {c} /\ ~Ended(c)
  BY DEF Ended, Running, TypeOK, Procs, Children
<1>3. [d \in Children |-> Passed(d)]' = [d \in Children |-> Passed(d)]
  BY <1>1 DEF Children
<1>4. Delta' = Delta
  BY DEF Delta
<1> QED  BY <1>2, <1>3, <1>4 DEF Promise!Vanish

\* The start of the program is a start of CountOff.
LEMMA CountOffInit == Init => Promise!Init
<1> SUFFICES ASSUME Init PROVE Promise!Init
  OBVIOUS
<1> USE NAssumption, ParentAssumption DEF Init
<1>1. [c \in Children |-> Passed(c)] = [c \in Children |-> 0]
  BY DEF Passed, Holding, Procs, Children
<1>2. {c \in Children : Ended(c)} = {}
  BY DEF Ended, Procs
<1>3. Cardinality(Children) = N
  <2>1. Children \ {} = Children
    OBVIOUS
  <2> QED  BY <2>1, Complement, FS_EmptySet
<1>4. Initial = IF Delta = 1 THEN 0 ELSE Cardinality(Children)
  BY <1>3 DEF Initial, Delta
<1>5. Promise!Cardinality(Children) = Cardinality(Children)
  BY DEF Promise!Cardinality, Cardinality, Promise!IsFiniteSet, IsFiniteSet
<1>6. count = [k \in Guards |-> IF Delta = 1 THEN 0 ELSE Promise!Cardinality(Children)]
  BY <1>4, <1>5
<1> QED  BY <1>1, <1>2, <1>6, DeltaType DEF Promise!Init

\* A store of the loaded value plus one is one indivisible step of CountOff:
\* the loaded value is still current.
LEMMA StoreCounts ==
    ASSUME TypeOK, Places, Places', RegInv, NEW c \in Children, Store(c)
    PROVE  Promise!CountSelf(c)
<1> USE ParentAssumption DEF Procs, Store, At, Running, Goto, bookkeeping
<1>1. pc[c] = "store" /\ stage[c] \in Guards /\ reg[c] = count[stage[c]]
  BY DEF Places, RegInv, Guards
<1>2. Passed(c) = stage[c] - 1 /\ stage[c] \in Int
  BY <1>1, PassedByPlace DEF PassedAt, Guards
<1>3. \A d \in Children : Passed(d)' = IF d = c THEN stage[c] ELSE Passed(d)
  BY <1>1, PassedByPlace DEF PassedAt, Passed, Holding, Places, TypeOK
<1>4. [d \in Children |-> Passed(d)]'
      = [[d \in Children |-> Passed(d)] EXCEPT ![c] = Passed(c) + 1]
  <2>1. Children' = Children /\ stage[c] = Passed(c) + 1
    BY <1>2 DEF Children
  <2>2. [d \in Children |-> Passed(d)]' = [d \in Children |-> IF d = c THEN stage[c] ELSE Passed(d)]
    BY <1>3, <2>1
  <2> HIDE DEF Store
  <2> QED  BY <2>1, <2>2
<1>5. [d \in Children |-> Passed(d)][c] + 1 = stage[c]
  BY <1>2
<1>6. count' = [count EXCEPT ![stage[c]] = count[stage[c]] + Delta]
  BY <1>1
<1>7. {d \in Children : Ended(d)}' = {d \in Children : Ended(d)} /\ ~Ended(c)
  BY DEF Ended, Children
<1>8. Delta' = Delta /\ final' = final
  BY DEF Delta
<1> HIDE DEF Store
<1> QED  BY <1>1, <1>4, <1>5, <1>6, <1>7, <1>8 DEF Promise!CountSelf

\* The parent reads a counter when all children have ended, and only once.
LEMMA ReadsReport ==
    ASSUME TypeOK, Places, Places', Collected, FinalInv, ReadFinal \/ PeekFinal
    PROVE  Promise!Read(stage[Parent])
<1> USE ParentAssumption DEF Procs, ReadFinal, PeekFinal, At, Running, Goto, bookkeeping, memory
<1>1. pc[Parent] \in {"load", "peek"} /\ stage[Parent] \in Guards
  BY DEF Places, Guards
<1>2. {c \in Children : Ended(c)} = Children
  BY <1>1 DEF Collected
<1>3. final[stage[Parent]] = Unread
  BY <1>1 DEF FinalInv, ReadAlready, TypeOK, Guards
<1>4. \A c \in Children : Passed(c)' = Passed(c)
  BY PassedByPlace DEF PassedAt, Passed, Holding, Places, TypeOK, Children
<1>5. [c \in Children |-> Passed(c)]' = [c \in Children |-> Passed(c)]
  BY <1>4 DEF Children
<1>6. {c \in Children : Ended(c)}' = {c \in Children : Ended(c)}
  BY DEF Ended, Children
<1>7. final' = [final EXCEPT ![stage[Parent]] = count[stage[Parent]]]
      /\ count' = count /\ Delta' = Delta
  BY DEF Delta
<1> HIDE DEF ReadFinal, PeekFinal
<1> QED  BY <1>2, <1>3, <1>5, <1>6, <1>7 DEF Promise!Read

\* Any other step is not seen by CountOff.
LEMMA Unseen ==
    ASSUME TypeOK, Places, Places', RegInv, [Next]_vars, ~ \E c \in Children : Store(c),
           final' = final, \A c \in Children : Ended(c)' = Ended(c)
    PROVE  UNCHANGED Promise!vars
<1>1. Quiet
  BY QuietStep
<1>2. \A c \in Children : Passed(c)' = Passed(c)
  BY <1>1, PassedByPlace DEF Quiet, PassedAt, Places, Passed, Holding, Children
<1>3. [c \in Children |-> Passed(c)]' = [c \in Children |-> Passed(c)]
  BY <1>2 DEF Children
<1>4. {c \in Children : Ended(c)}' = {c \in Children : Ended(c)}
  BY DEF Children
<1>5. Delta' = Delta
  BY <1>1 DEF Quiet, Delta
<1> QED  BY <1>1, <1>3, <1>4, <1>5 DEF Quiet, Promise!vars

\* The steps of the program are steps of CountOff or leave it unchanged.
LEMMA CountOffStep ==
    ASSUME IInv, IInv', RegInv, ReportInv, [Next]_vars
    PROVE  [Promise!Next]_Promise!vars
<1> USE DEF IInv, ReportInv
<1> DEFINE Same == final' = final /\ \A c \in Children : Ended(c)' = Ended(c)
<1>1. ASSUME NEW c \in Children, ChildFails(c) \/ Crash(c) \/ Exit(c) \/ Kill(c)
      PROVE  Promise!Vanish(c)
  <2>1. Running(c) /\ UNCHANGED <<prog, pc, stage, count, final>>
    BY <1>1 DEF ChildFails, Crash, Exit, Kill, At, bookkeeping, memory
  <2>2. \/ status' = [status EXCEPT ![c] = "ok"] \/ status' = [status EXCEPT ![c] = "failed"]
        \/ status' = [status EXCEPT ![c] = "crashed"]
        \/ status' = [status EXCEPT ![c] = "killed"]
    BY <1>1 DEF ChildFails, Crash, Exit, Kill, End
  <2> QED  BY <2>1, <2>2, Vanishes
<1>2. ASSUME NEW c \in Children, Store(c) PROVE Promise!CountSelf(c)
  BY <1>2, StoreCounts
<1>3. ASSUME ReadFinal \/ PeekFinal PROVE \E k \in Guards : Promise!Read(k)
  <2>1. stage[Parent] \in Guards
    BY <1>3, ParentAssumption DEF ReadFinal, PeekFinal, At, Places, Procs, Guards, Running
  <2> QED  BY <1>3, <2>1, ReadsReport
<1> USE ParentAssumption DEF Procs, Children, Ended, Running, At, bookkeeping
<1>4. ASSUME NEW c \in Children, Fork(c) \/ ChildWork(c) \/ Load(c) \/ Reap(c) PROVE Same
  BY <1>4 DEF Fork, ChildWork, Load, Reap, End, TypeOK
<1>5. ASSUME NEW p \in Procs, Recover(p) \/ SemWait(p) \/ Unlock(p) \/ SemPost(p) PROVE Same
  BY <1>5 DEF Recover, SemWait, Unlock, SemPost
<1>6. ASSUME NEW p \in Procs, Lock(p) PROVE Same
  BY <1>6, LockResultFacts DEF Lock, MutexInv, TypeOK
<1>7. ASSUME ForkFails \/ Teardown PROVE Same
  BY <1>7 DEF ForkFails, Teardown, End, TypeOK
<1>8. UNCHANGED vars => Same /\ ~ \E c \in Children : Store(c)
  BY DEF vars, Store, Goto, TypeOK, Places
<1>9. Same /\ (~ \E c \in Children : Store(c)) => UNCHANGED Promise!vars
  BY Unseen
<1> HIDE DEF Same
<1>10. CASE Next
  <2>1. (\E c \in Children : Store(c)) \/ Same \/ (ReadFinal \/ PeekFinal)
        \/ \E c \in Children : ChildFails(c) \/ Crash(c) \/ Exit(c) \/ Kill(c)
    BY ONLY <1>4, <1>5, <1>6, <1>7, <1>10, NextCases
  <2> QED  BY ONLY <1>1, <1>2, <1>3, <1>9, <2>1 DEF Promise!Next
<1> QED  BY <1>8, <1>9, <1>10

\* The program keeps the promise of indivisible counters read at the end, for
\* every number of children and every pattern of deaths.
THEOREM ImplementsCountOff == Spec => PromiseKept
<1>1. IInv /\ IInv' /\ RegInv /\ ReportInv /\ [Next]_vars => [Promise!Next]_Promise!vars
  BY CountOffStep
<1> QED
  BY <1>1, CountOffInit, Inductive, CountsInductive, ReportInductive, PTL
     DEF Spec, PromiseKept, Promise!Spec

=============================================================================
