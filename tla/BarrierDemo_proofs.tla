------------------------- MODULE BarrierDemo_proofs -------------------------
(***************************************************************************)
(* Theorems about BarrierDemo for every finite set of children and every   *)
(* bound on faults.  IInv is the inductive invariant: the types, where a   *)
(* process can be, who is inside the semaphore and inside the mutex, who   *)
(* has come to the barrier, that the counter is exact and that a loaded    *)
(* value is current, and what the parent knows when it reports.            *)
(***************************************************************************)
EXTENDS BarrierDemo, FiniteSetTheorems, TLAPS

\* Which places a process can be in.
Places ==
    /\ \A c \in Children :
          /\ pc[c] \in {"open", "barrier", "waiting", "sem", "lock", "load", "store",
                        "unlock", "post", "close"}
          /\ status[c] = "unborn" => pc[c] = "open"
    /\ pc[Parent] \in {"fork", "wait", "report", "destroy", "teardown"}

\* A child inside the semaphore, alive or dead, is alone with its only unit.
SemInv ==
    \A c \in Children :
        InSemaphore(c) => sem = 0 /\ \A d \in Children : InSemaphore(d) => d = c

\* The mutex belongs to the running child inside it; its state is in doubt
\* only after a child died inside, semaphore and all.
MutexInv ==
    /\ robust_mtx.holder # {Parent}
    /\ \A c \in Children : robust_mtx.holder = {c} <=> Running(c) /\ InMutex(c)
    /\ robust_mtx.state # "notrecoverable"
    /\ robust_mtx.state = "inconsistent" =>
          \E c \in Children : InMutex(c) /\ ~Running(c)

\* Past the barrier means that everybody has come to it.
BarrierInv ==
    /\ BarrierHolds
    /\ \A c \in Children :
          /\ pc[c] \notin {"open", "barrier"} => c \in arrived
          /\ pc[c] \notin {"open", "barrier", "waiting"} => arrived = Children

\* The counter tells how many children stored, and a loaded value is current.
CountInv ==
    /\ shared_counter = Cardinality({c \in Children : Stored(c)})
    /\ \A c \in Children : At(c, "store") => reg[c] = shared_counter

\* The parent reports after it has collected all children, which have ended,
\* without faults at the end of their program.
ReportInv ==
    /\ \A c \in reaped : Ended(c)
    /\ pc[Parent] \notin {"fork", "wait"} => reaped = Children
    /\ reported # -1 => reported = shared_counter /\ pc[Parent] \in {"destroy", "teardown"}
    /\ \A c \in Children :
          /\ status[c] = "ok" => pc[c] = "close"
          /\ status[c] \in {"failed", "killed"} => faults > 0

IInv == TypeOK /\ Places /\ SemInv /\ MutexInv /\ BarrierInv /\ CountInv /\ ReportInv

\* Next by its actions.
LEMMA NextCases ==
    ASSUME Next
    PROVE  \/ \E c \in Children : Fork(c) \/ SemOpen(c) \/ BarrierEnter(c) \/ BarrierLeave(c)
                \/ SemWait(c) \/ LockOrRecover(c) \/ Load(c) \/ Store(c) \/ Unlock(c)
                \/ SemPost(c) \/ Exit(c) \/ Kill(c) \/ Reap(c)
           \/ \E p \in Procs : Fails(p)
           \/ Report \/ DestroyBarrier \/ Teardown
BY DEF Next, ParentStep, ChildStep

\* The types are preserved; the semaphore never rises above 1, because the child
\* that posts it holds its only unit.
LEMMA TypeStep ==
    ASSUME TypeOK, Places, SemInv, BarrierInv, [Next]_vars
    PROVE  TypeOK'
<1> USE ParentAssumption, FaultsAssumption DEF Procs, At, Running, Ended, Goto, End, barrier, parentVars, TypeOK, Places
<1>1. ASSUME NEW c \in Children, Fork(c) PROVE TypeOK'
  BY <1>1 DEF Fork
<1>2. ASSUME NEW p \in Procs, Fails(p) PROVE TypeOK'
  BY <1>2 DEF Fails
<1>3. ASSUME NEW c \in Children, SemOpen(c) PROVE TypeOK'
  BY <1>3 DEF SemOpen
<1>4. ASSUME NEW c \in Children, BarrierEnter(c) PROVE TypeOK'
  BY <1>4 DEF BarrierEnter
<1>5. ASSUME NEW c \in Children, BarrierLeave(c) PROVE TypeOK'
  BY <1>5 DEF BarrierLeave, BarrierInv
<1>6. ASSUME NEW c \in Children, SemWait(c) PROVE TypeOK'
  BY <1>6 DEF SemWait
<1>7. ASSUME NEW c \in Children, LockOrRecover(c) PROVE TypeOK'
  <2>1. robust_mtx' \in MutexType(Procs)
    <3>1. c \in Procs /\ Acquired(robust_mtx, c) \in MutexType(Procs)
      BY DEF Procs, Acquired, MutexType
    <3>2. \A m \in MutexType(Procs) : MadeConsistent(m) \in MutexType(Procs)
      BY DEF MadeConsistent, MutexType
    <3> QED  BY <1>7, <3>1, <3>2 DEF LockOrRecover
  <2> QED  BY <1>7, <2>1 DEF LockOrRecover
<1>8. ASSUME NEW c \in Children, Load(c) PROVE TypeOK'
  BY <1>8 DEF Load
<1>9. ASSUME NEW c \in Children, Store(c) PROVE TypeOK'
  BY <1>9 DEF Store
<1>10. ASSUME NEW c \in Children, Unlock(c) PROVE TypeOK'
  <2>1. robust_mtx' \in MutexType(Procs)
    BY <1>10 DEF Unlock, Released, MutexType
  <2> QED  BY <1>10, <2>1 DEF Unlock
<1>11. ASSUME NEW c \in Children, SemPost(c) PROVE TypeOK'
  BY <1>11 DEF SemPost, SemInv, InSemaphore
<1>12. ASSUME NEW c \in Children, Exit(c) PROVE TypeOK'
  BY <1>12 DEF Exit
<1>13. ASSUME NEW c \in Children, Kill(c) PROVE TypeOK'
  <2>1. robust_mtx' \in MutexType(Procs)
    BY <1>13 DEF Kill, AfterDeath, MutexType
  <2> QED  BY <1>13, <2>1 DEF Kill
<1>14. ASSUME NEW c \in Children, Reap(c) PROVE TypeOK'
  BY <1>14 DEF Reap
<1>15. ASSUME Report PROVE TypeOK'
  BY <1>15 DEF Report
<1>16. ASSUME DestroyBarrier PROVE TypeOK'
  BY <1>16 DEF DestroyBarrier
<1>17. ASSUME Teardown PROVE TypeOK'
  BY <1>17 DEF Teardown
<1>18. CASE UNCHANGED vars
  BY <1>18 DEF vars
<1> QED
  BY <1>1, <1>2, <1>3, <1>4, <1>5, <1>6, <1>7, <1>8, <1>9, <1>10, <1>11, <1>12,
     <1>13, <1>14, <1>15, <1>16, <1>17, <1>18, NextCases

\* Every step leads from one of its process's places to another.
LEMMA PlacesStep ==
    ASSUME TypeOK, Places, [Next]_vars
    PROVE  Places'
<1> USE ParentAssumption, FaultsAssumption DEF Procs, At, Running, Ended, Goto, End, barrier, parentVars, TypeOK, Places
<1>1. ASSUME NEW c \in Children, Fork(c) PROVE Places'
  BY <1>1 DEF Fork
<1>2. ASSUME NEW p \in Procs, Fails(p) PROVE Places'
  BY <1>2 DEF Fails
<1>3. ASSUME NEW c \in Children, SemOpen(c) PROVE Places'
  BY <1>3 DEF SemOpen
<1>4. ASSUME NEW c \in Children, BarrierEnter(c) PROVE Places'
  BY <1>4 DEF BarrierEnter
<1>5. ASSUME NEW c \in Children, BarrierLeave(c) PROVE Places'
  BY <1>5 DEF BarrierLeave
<1>6. ASSUME NEW c \in Children, SemWait(c) PROVE Places'
  BY <1>6 DEF SemWait
<1>7. ASSUME NEW c \in Children, LockOrRecover(c) PROVE Places'
  BY <1>7 DEF LockOrRecover
<1>8. ASSUME NEW c \in Children, Load(c) PROVE Places'
  BY <1>8 DEF Load
<1>9. ASSUME NEW c \in Children, Store(c) PROVE Places'
  BY <1>9 DEF Store
<1>10. ASSUME NEW c \in Children, Unlock(c) PROVE Places'
  BY <1>10 DEF Unlock
<1>11. ASSUME NEW c \in Children, SemPost(c) PROVE Places'
  BY <1>11 DEF SemPost
<1>12. ASSUME NEW c \in Children, Exit(c) PROVE Places'
  BY <1>12 DEF Exit
<1>13. ASSUME NEW c \in Children, Kill(c) PROVE Places'
  BY <1>13 DEF Kill
<1>14. ASSUME NEW c \in Children, Reap(c) PROVE Places'
  BY <1>14 DEF Reap
<1>15. ASSUME Report PROVE Places'
  BY <1>15 DEF Report
<1>16. ASSUME DestroyBarrier PROVE Places'
  BY <1>16 DEF DestroyBarrier
<1>17. ASSUME Teardown PROVE Places'
  BY <1>17 DEF Teardown
<1>18. CASE UNCHANGED vars
  BY <1>18 DEF vars
<1> QED
  BY <1>1, <1>2, <1>3, <1>4, <1>5, <1>6, <1>7, <1>8, <1>9, <1>10, <1>11, <1>12,
     <1>13, <1>14, <1>15, <1>16, <1>17, <1>18, NextCases

\* One unit, one child inside: a child enters when the unit is there, which it
\* is not while anybody is inside.
LEMMA SemStep ==
    ASSUME TypeOK, Places, SemInv, [Next]_vars
    PROVE  SemInv'
<1> USE ParentAssumption, FaultsAssumption DEF Procs, At, Running, Ended, Goto, End, barrier, parentVars, TypeOK, Places, SemInv, InSemaphore
<1>1. ASSUME NEW c \in Children, Fork(c) PROVE SemInv'
  BY <1>1 DEF Fork
<1>2. ASSUME NEW p \in Procs, Fails(p) PROVE SemInv'
  BY <1>2 DEF Fails
<1>3. ASSUME NEW c \in Children, SemOpen(c) PROVE SemInv'
  BY <1>3 DEF SemOpen
<1>4. ASSUME NEW c \in Children, BarrierEnter(c) PROVE SemInv'
  BY <1>4 DEF BarrierEnter
<1>5. ASSUME NEW c \in Children, BarrierLeave(c) PROVE SemInv'
  BY <1>5 DEF BarrierLeave
<1>6. ASSUME NEW c \in Children, SemWait(c) PROVE SemInv'
  BY <1>6 DEF SemWait
<1>7. ASSUME NEW c \in Children, LockOrRecover(c) PROVE SemInv'
  BY <1>7 DEF LockOrRecover
<1>8. ASSUME NEW c \in Children, Load(c) PROVE SemInv'
  BY <1>8 DEF Load
<1>9. ASSUME NEW c \in Children, Store(c) PROVE SemInv'
  BY <1>9 DEF Store
<1>10. ASSUME NEW c \in Children, Unlock(c) PROVE SemInv'
  BY <1>10 DEF Unlock
<1>11. ASSUME NEW c \in Children, SemPost(c) PROVE SemInv'
  BY <1>11 DEF SemPost
<1>12. ASSUME NEW c \in Children, Exit(c) PROVE SemInv'
  BY <1>12 DEF Exit
<1>13. ASSUME NEW c \in Children, Kill(c) PROVE SemInv'
  BY <1>13 DEF Kill
<1>14. ASSUME NEW c \in Children, Reap(c) PROVE SemInv'
  BY <1>14 DEF Reap
<1>15. ASSUME Report PROVE SemInv'
  BY <1>15 DEF Report
<1>16. ASSUME DestroyBarrier PROVE SemInv'
  BY <1>16 DEF DestroyBarrier
<1>17. ASSUME Teardown PROVE SemInv'
  BY <1>17 DEF Teardown
<1>18. CASE UNCHANGED vars
  BY <1>18 DEF vars
<1> QED
  BY <1>1, <1>2, <1>3, <1>4, <1>5, <1>6, <1>7, <1>8, <1>9, <1>10, <1>11, <1>12,
     <1>13, <1>14, <1>15, <1>16, <1>17, <1>18, NextCases

\* The mutex follows the child inside it.
LEMMA MutexStep ==
    ASSUME TypeOK, Places, SemInv, MutexInv, [Next]_vars
    PROVE  MutexInv'
<1> USE ParentAssumption, FaultsAssumption DEF Procs, At, Running, Ended, Goto, End, barrier, parentVars, TypeOK, Places, MutexInv, InMutex
<1>1. ASSUME NEW c \in Children, Fork(c) PROVE MutexInv'
  BY <1>1 DEF Fork
<1>2. ASSUME NEW p \in Procs, Fails(p) PROVE MutexInv'
  BY <1>2 DEF Fails
<1>3. ASSUME NEW c \in Children, SemOpen(c) PROVE MutexInv'
  BY <1>3 DEF SemOpen
<1>4. ASSUME NEW c \in Children, BarrierEnter(c) PROVE MutexInv'
  BY <1>4 DEF BarrierEnter
<1>5. ASSUME NEW c \in Children, BarrierLeave(c) PROVE MutexInv'
  BY <1>5 DEF BarrierLeave
<1>6. ASSUME NEW c \in Children, SemWait(c) PROVE MutexInv'
  BY <1>6 DEF SemWait
<1>7. ASSUME NEW c \in Children, LockOrRecover(c) PROVE MutexInv'
  <2>1. InSemaphore(c) /\ ~InMutex(c) /\ \A d \in Children : InMutex(d) => d = c
    BY <1>7 DEF LockOrRecover, SemInv, InSemaphore
  <2>2. robust_mtx.state = "consistent"
    <3>1. robust_mtx.state # "inconsistent"
      BY <2>1
    <3> QED  BY <3>1 DEF MutexType
  <2>3. robust_mtx'.holder = {c} /\ robust_mtx'.state = "consistent"
        /\ status' = status /\ pc' = [pc EXCEPT ![c] = "load"] /\ Running(c)
    <3>1. LockResult(robust_mtx) # "ENOTRECOVERABLE"
      BY <2>2 DEF LockResult, MutexType
    <3>2. Acquired(robust_mtx, c) \in MutexType(Procs) /\ Acquired(robust_mtx, c).holder = {c}
      BY DEF Acquired, MutexType
    <3>3. robust_mtx' = MadeConsistent(Acquired(robust_mtx, c))
      BY <1>7, <3>1 DEF LockOrRecover
    <3>4. robust_mtx'.holder = {c} /\ robust_mtx'.state = "consistent"
      BY <3>2, <3>3 DEF MadeConsistent, MutexType
    <3> QED  BY <1>7, <3>1, <3>4 DEF LockOrRecover
  <2> QED  BY <2>1, <2>3
<1>8. ASSUME NEW c \in Children, Load(c) PROVE MutexInv'
  BY <1>8 DEF Load
<1>9. ASSUME NEW c \in Children, Store(c) PROVE MutexInv'
  BY <1>9 DEF Store
<1>10. ASSUME NEW c \in Children, Unlock(c) PROVE MutexInv'
  <2>1. robust_mtx.holder = {c} /\ InSemaphore(c)
    BY <1>10 DEF Unlock, InSemaphore
  <2>2. robust_mtx.state = "consistent"
    <3>1. robust_mtx.state # "inconsistent"
      BY <1>10, <2>1 DEF Unlock, SemInv, InSemaphore
    <3> QED  BY <3>1 DEF MutexType
  <2>3. robust_mtx'.holder = {} /\ robust_mtx'.state = "consistent"
    BY <1>10, <2>2 DEF Unlock, Released, MutexType
  <2>4. \A d \in Children : ~(Running(d) /\ InMutex(d))'
    BY <1>10, <2>1 DEF Unlock
  <2> QED  BY <2>3, <2>4
<1>11. ASSUME NEW c \in Children, SemPost(c) PROVE MutexInv'
  BY <1>11 DEF SemPost
<1>12. ASSUME NEW c \in Children, Exit(c) PROVE MutexInv'
  BY <1>12 DEF Exit
<1>13. ASSUME NEW c \in Children, Kill(c) PROVE MutexInv'
  <2>1. status' = [status EXCEPT ![c] = "killed"] /\ pc' = pc /\ Running(c)
    BY <1>13 DEF Kill
  <2>2. CASE InMutex(c)
    <3>1. robust_mtx'.holder = {} /\ robust_mtx'.state = "inconsistent"
      BY <1>13, <2>2, SMTT(30) DEF Kill, AfterDeath, MutexType
    <3>2. \A d \in Children : ~(Running(d) /\ InMutex(d))'
      BY <2>1, <2>2
    <3> QED  BY <2>1, <2>2, <3>1, <3>2
  <2>3. CASE ~InMutex(c)
    <3>1. robust_mtx' = robust_mtx
      BY <1>13, <2>3 DEF Kill, AfterDeath, MutexType
    <3> QED  BY <2>1, <2>3, <3>1
  <2> QED  BY <2>2, <2>3
<1>14. ASSUME NEW c \in Children, Reap(c) PROVE MutexInv'
  BY <1>14 DEF Reap
<1>15. ASSUME Report PROVE MutexInv'
  BY <1>15 DEF Report
<1>16. ASSUME DestroyBarrier PROVE MutexInv'
  BY <1>16 DEF DestroyBarrier
<1>17. ASSUME Teardown PROVE MutexInv'
  BY <1>17 DEF Teardown
<1>18. CASE UNCHANGED vars
  BY <1>18 DEF vars
<1> QED
  BY <1>1, <1>2, <1>3, <1>4, <1>5, <1>6, <1>7, <1>8, <1>9, <1>10, <1>11, <1>12,
     <1>13, <1>14, <1>15, <1>16, <1>17, <1>18, NextCases

\* Nobody passes the barrier before the last has come.
LEMMA BarrierStep ==
    ASSUME TypeOK, Places, BarrierInv, [Next]_vars
    PROVE  BarrierInv'
<1> USE ParentAssumption, FaultsAssumption DEF Procs, At, Running, Ended, Goto, End, barrier, parentVars, TypeOK, Places, BarrierInv, BarrierHolds
<1>1. ASSUME NEW c \in Children, Fork(c) PROVE BarrierInv'
  BY <1>1 DEF Fork
<1>2. ASSUME NEW p \in Procs, Fails(p) PROVE BarrierInv'
  BY <1>2 DEF Fails
<1>3. ASSUME NEW c \in Children, SemOpen(c) PROVE BarrierInv'
  BY <1>3 DEF SemOpen
<1>4. ASSUME NEW c \in Children, BarrierEnter(c) PROVE BarrierInv'
  BY <1>4 DEF BarrierEnter
<1>5. ASSUME NEW c \in Children, BarrierLeave(c) PROVE BarrierInv'
  <2>1. arrived = Children
    <3>1. Cardinality(arrived) <= Cardinality(Children)
      BY ChildrenAssumption, FS_Subset
    <3>2. Cardinality(arrived) = Cardinality(Children)
      BY <1>5, <3>1, ChildrenAssumption, FS_Subset, FS_CardinalityType
         DEF BarrierLeave, BarrierCount, N
    <3> QED  BY <3>2, ChildrenAssumption, FS_Subset
  <2> QED  BY <1>5, <2>1 DEF BarrierLeave
<1>6. ASSUME NEW c \in Children, SemWait(c) PROVE BarrierInv'
  BY <1>6 DEF SemWait
<1>7. ASSUME NEW c \in Children, LockOrRecover(c) PROVE BarrierInv'
  BY <1>7 DEF LockOrRecover
<1>8. ASSUME NEW c \in Children, Load(c) PROVE BarrierInv'
  BY <1>8 DEF Load
<1>9. ASSUME NEW c \in Children, Store(c) PROVE BarrierInv'
  BY <1>9 DEF Store
<1>10. ASSUME NEW c \in Children, Unlock(c) PROVE BarrierInv'
  BY <1>10 DEF Unlock
<1>11. ASSUME NEW c \in Children, SemPost(c) PROVE BarrierInv'
  BY <1>11 DEF SemPost
<1>12. ASSUME NEW c \in Children, Exit(c) PROVE BarrierInv'
  BY <1>12 DEF Exit
<1>13. ASSUME NEW c \in Children, Kill(c) PROVE BarrierInv'
  BY <1>13 DEF Kill
<1>14. ASSUME NEW c \in Children, Reap(c) PROVE BarrierInv'
  BY <1>14 DEF Reap
<1>15. ASSUME Report PROVE BarrierInv'
  BY <1>15 DEF Report
<1>16. ASSUME DestroyBarrier PROVE BarrierInv'
  BY <1>16 DEF DestroyBarrier
<1>17. ASSUME Teardown PROVE BarrierInv'
  BY <1>17 DEF Teardown
<1>18. CASE UNCHANGED vars
  BY <1>18 DEF vars
<1> QED
  BY <1>1, <1>2, <1>3, <1>4, <1>5, <1>6, <1>7, <1>8, <1>9, <1>10, <1>11, <1>12,
     <1>13, <1>14, <1>15, <1>16, <1>17, <1>18, NextCases

\* Only the one child inside the mutex stores, and what it loaded is current.
LEMMA CountStep ==
    ASSUME TypeOK, Places, SemInv, CountInv, [Next]_vars
    PROVE  CountInv'
<1> USE ParentAssumption, FaultsAssumption DEF Procs, At, Running, Ended, Goto, End, barrier, parentVars, TypeOK, Places, CountInv, Stored
<1>1. ASSUME NEW c \in Children, Fork(c) PROVE CountInv'
  BY <1>1 DEF Fork
<1>2. ASSUME NEW p \in Procs, Fails(p) PROVE CountInv'
  BY <1>2 DEF Fails
<1>3. ASSUME NEW c \in Children, SemOpen(c) PROVE CountInv'
  BY <1>3 DEF SemOpen
<1>4. ASSUME NEW c \in Children, BarrierEnter(c) PROVE CountInv'
  BY <1>4 DEF BarrierEnter
<1>5. ASSUME NEW c \in Children, BarrierLeave(c) PROVE CountInv'
  BY <1>5 DEF BarrierLeave
<1>6. ASSUME NEW c \in Children, SemWait(c) PROVE CountInv'
  BY <1>6 DEF SemWait
<1>7. ASSUME NEW c \in Children, LockOrRecover(c) PROVE CountInv'
  BY <1>7 DEF LockOrRecover
<1>8. ASSUME NEW c \in Children, Load(c) PROVE CountInv'
  BY <1>8 DEF Load
<1>9. ASSUME NEW c \in Children, Store(c) PROVE CountInv'
  <2> DEFINE stored == {d \in Children : Stored(d)}
  <2>1. pc[c] = "store" /\ status[c] = "running" /\ pc' = [pc EXCEPT ![c] = "unlock"]
        /\ status' = status /\ reg' = reg /\ shared_counter' = reg[c] + 1
    BY <1>9 DEF Store
  <2>2. stored' = stored \cup {c} /\ c \notin stored
    BY <2>1
  <2>3. IsFiniteSet(stored)
    BY ChildrenAssumption, FS_Subset
  <2>4. Cardinality(stored') = Cardinality(stored) + 1
    BY ONLY <2>2, <2>3, FS_AddElement
  <2>5. shared_counter' = Cardinality(stored')
    BY <2>1, <2>4
  <2>6. \A d \in Children : ~At(d, "store")'
    BY <2>1 DEF SemInv, InSemaphore
  <2> QED  BY <2>5, <2>6
<1>10. ASSUME NEW c \in Children, Unlock(c) PROVE CountInv'
  BY <1>10 DEF Unlock
<1>11. ASSUME NEW c \in Children, SemPost(c) PROVE CountInv'
  BY <1>11 DEF SemPost
<1>12. ASSUME NEW c \in Children, Exit(c) PROVE CountInv'
  BY <1>12 DEF Exit
<1>13. ASSUME NEW c \in Children, Kill(c) PROVE CountInv'
  BY <1>13 DEF Kill
<1>14. ASSUME NEW c \in Children, Reap(c) PROVE CountInv'
  BY <1>14 DEF Reap
<1>15. ASSUME Report PROVE CountInv'
  BY <1>15 DEF Report
<1>16. ASSUME DestroyBarrier PROVE CountInv'
  BY <1>16 DEF DestroyBarrier
<1>17. ASSUME Teardown PROVE CountInv'
  BY <1>17 DEF Teardown
<1>18. CASE UNCHANGED vars
  BY <1>18 DEF vars
<1> QED
  BY <1>1, <1>2, <1>3, <1>4, <1>5, <1>6, <1>7, <1>8, <1>9, <1>10, <1>11, <1>12,
     <1>13, <1>14, <1>15, <1>16, <1>17, <1>18, NextCases

\* Children that have ended stay as they are.
LEMMA ReportStep ==
    ASSUME TypeOK, Places, MutexInv, ReportInv, [Next]_vars
    PROVE  ReportInv'
<1> USE ParentAssumption, FaultsAssumption DEF Procs, At, Running, Ended, Goto, End, barrier, parentVars, TypeOK, Places, ReportInv
<1>1. ASSUME NEW c \in Children, Fork(c) PROVE ReportInv'
  BY <1>1 DEF Fork
<1>2. ASSUME NEW p \in Procs, Fails(p) PROVE ReportInv'
  BY <1>2 DEF Fails
<1>3. ASSUME NEW c \in Children, SemOpen(c) PROVE ReportInv'
  BY <1>3 DEF SemOpen
<1>4. ASSUME NEW c \in Children, BarrierEnter(c) PROVE ReportInv'
  BY <1>4 DEF BarrierEnter
<1>5. ASSUME NEW c \in Children, BarrierLeave(c) PROVE ReportInv'
  BY <1>5 DEF BarrierLeave
<1>6. ASSUME NEW c \in Children, SemWait(c) PROVE ReportInv'
  BY <1>6 DEF SemWait
<1>7. ASSUME NEW c \in Children, LockOrRecover(c) PROVE ReportInv'
  <2>1. status' = status
    BY <1>7 DEF LockOrRecover, MutexInv, LockResult, MutexType
  <2> QED  BY <1>7, <2>1 DEF LockOrRecover
<1>8. ASSUME NEW c \in Children, Load(c) PROVE ReportInv'
  BY <1>8 DEF Load
<1>9. ASSUME NEW c \in Children, Store(c) PROVE ReportInv'
  BY <1>9 DEF Store
<1>10. ASSUME NEW c \in Children, Unlock(c) PROVE ReportInv'
  BY <1>10 DEF Unlock
<1>11. ASSUME NEW c \in Children, SemPost(c) PROVE ReportInv'
  BY <1>11 DEF SemPost
<1>12. ASSUME NEW c \in Children, Exit(c) PROVE ReportInv'
  BY <1>12 DEF Exit
<1>13. ASSUME NEW c \in Children, Kill(c) PROVE ReportInv'
  BY <1>13 DEF Kill
<1>14. ASSUME NEW c \in Children, Reap(c) PROVE ReportInv'
  BY <1>14 DEF Reap
<1>15. ASSUME Report PROVE ReportInv'
  BY <1>15 DEF Report
<1>16. ASSUME DestroyBarrier PROVE ReportInv'
  BY <1>16 DEF DestroyBarrier
<1>17. ASSUME Teardown PROVE ReportInv'
  BY <1>17 DEF Teardown
<1>18. CASE UNCHANGED vars
  BY <1>18 DEF vars
<1> QED
  BY <1>1, <1>2, <1>3, <1>4, <1>5, <1>6, <1>7, <1>8, <1>9, <1>10, <1>11, <1>12,
     <1>13, <1>14, <1>15, <1>16, <1>17, <1>18, NextCases

-----------------------------------------------------------------------------
\* The parent starts alone, with everything free and nothing counted.
LEMMA Initially == Init => IInv
<1> SUFFICES ASSUME Init PROVE IInv
  OBVIOUS
<1> USE ChildrenAssumption, ParentAssumption, FaultsAssumption DEF Init, Procs
<1>1. TypeOK
  BY DEF TypeOK, SemInitial, FreshMutex, MutexType
<1>2. Places /\ SemInv /\ BarrierInv /\ ReportInv
  BY DEF Places, SemInv, InSemaphore, BarrierInv, BarrierHolds, ReportInv
<1>3. MutexInv
  BY DEF MutexInv, Running, InMutex, FreshMutex, MutexType
<1>4. CountInv
  <2>1. {c \in Children : Stored(c)} = {}
    BY DEF Stored
  <2> QED  BY <2>1, FS_EmptySet DEF CountInv, At
<1> QED  BY <1>1, <1>2, <1>3, <1>4 DEF IInv

\* IInv holds in every reachable state.
THEOREM Inductive == Spec => []IInv
<1>1. IInv /\ [Next]_vars => IInv'
  BY TypeStep, PlacesStep, SemStep, MutexStep, BarrierStep, CountStep, ReportStep DEF IInv
<1> QED  BY <1>1, Initially, PTL DEF Spec

\* The counter is exact whoever is killed and wherever, nobody counts before
\* everybody has come to the barrier, and without faults the parent reports the
\* number of children: for every finite set of children and any number of kills.
THEOREM CounterIsExact == Spec => []CounterExact
<1>1. IInv => CounterExact
  <2> SUFFICES ASSUME IInv PROVE CounterExact
    OBVIOUS
  <2>1. ASSUME reported # -1, faults = 0 PROVE reported = N
    <3>1. reaped = Children
      BY <2>1 DEF IInv, ReportInv
    <3>2. \A c \in Children : status[c] = "ok" /\ pc[c] = "close"
      BY <2>1, <3>1 DEF IInv, ReportInv, Ended, TypeOK, Procs
    <3>3. {c \in Children : Stored(c)} = Children
      BY <3>2 DEF Stored
    <3> QED  BY <2>1, <3>3 DEF IInv, ReportInv, CountInv, N
  <2> QED  BY <2>1 DEF IInv, BarrierInv, CountInv, ReportInv, CounterExact
<1> QED  BY <1>1, Inductive, PTL

\* The recovery branch is dead code: a mutex in doubt means that its semaphore
\* is gone for good, and no running child is inside.
THEOREM RecoveryIsNeverMet == Spec => []RecoveryNeverMet
<1>1. IInv => RecoveryNeverMet
  BY DEF IInv, TypeOK, MutexType, MutexInv, SemInv, InMutex, InSemaphore, RecoveryNeverMet
<1> QED  BY <1>1, Inductive, PTL

=============================================================================
