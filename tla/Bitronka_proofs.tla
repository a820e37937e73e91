--------------------------- MODULE Bitronka_proofs ---------------------------
(***************************************************************************)
(* Theorems about Bitronka for every number of shelves, workers and        *)
(* shuffles.  IInv is the inductive invariant: the types, the order of the *)
(* two shelves a worker has picked, which shelves each thread holds, how   *)
(* far main is behind the signal thread and the workers, and what an       *)
(* exchange under way has read and written.                                *)
(***************************************************************************)
EXTENDS Bitronka, WellFoundedInduction, TLAPS

\* The shelves that a worker and the signal thread hold.
HeldBy(w) ==
    {s \in Polki : \/ wpc[w] \in {"lockb", "compare", "writea", "writeb", "unlocka"} /\ s = a[w]
                   \/ wpc[w] \in {"compare", "writea", "writeb", "unlocka", "unlockb"} /\ s = b[w]}
SigHolds ==
    {s \in Polki : \/ sigpc = "lock" /\ s < i
                   \/ sigpc \in {"print", "shuffle"}
                   \/ sigpc = "unlock" /\ s >= i}

\* A worker locks the lower of its shelves first; and the loops of the signal
\* thread start at the first shelf.
Places ==
    /\ \A w \in Workers : wpc[w] \notin {"unborn", "check", "done"} => a[w] < b[w]
    /\ sigpc \notin {"lock", "shuffle", "unlock"} => i = 1

\* The mutex of a shelf belongs to the thread that holds the shelf.
LockInv ==
    \A s \in Polki :
        /\ \A w \in Workers : mx_polki[s] = {w} <=> s \in HeldBy(w)
        /\ mx_polki[s] = {Sig} <=> s \in SigHolds

\* stop is set before the signal thread goes, and main is past its polling only
\* when the signal thread has gone, past its joins only when the workers have.
StopInv ==
    /\ mx_stop = {Sig} <=> sigpc \in {"setstop", "unlockstop"}
    /\ stop = 1 <=> sigpc \in {"unlockstop", "gone"}
    /\ mainpc \notin {"create", "poll"} => sigpc = "gone"
    /\ mainpc \in {"print", "free", "bye"} => \A w \in Workers : wpc[w] = "done"

\* What a worker has read is what stands on its shelves, less its own first
\* store.
ReadsInv ==
    \A w \in Workers :
        /\ wpc[w] = "writea" => /\ vala[w] = polki[a[w]] /\ valb[w] = polki[b[w]]
                                /\ vala[w] > valb[w]
        /\ wpc[w] = "writeb" => polki[b[w]] = polki[a[w]]

\* The goods, as the exchanges under way will leave them, are all there.
GoodsInv == Injective(Goods)

IInv == TypeOK /\ Places /\ LockInv /\ StopInv /\ ReadsInv /\ GoodsInv

Threads == Workers \cup {Sig}
Holds(t) == IF t = Sig THEN SigHolds ELSE HeldBy(t)

\* Next by its actions.
LEMMA NextCases ==
    ASSUME Next
    PROVE  \/ \E w \in Workers : \/ Finish(w) \/ LockA(w) \/ LockB(w) \/ Compare(w) \/ WriteA(w)
                                 \/ WriteB(w) \/ UnlockA(w) \/ UnlockB(w) \/ Create(w)
                                 \/ \E x, y \in Polki : Pick(w, x, y)
           \/ SigStart \/ SigLock(Sig) \/ SigPrint \/ SigUnlock
           \/ SigLockStop \/ SigSetStop \/ SigUnlockStop
           \/ \E s \in Signals : Sigwait(s)
           \/ \E j \in Polki : SigShuffle(j)
           \/ Poll \/ JoinWorkers \/ MainPrint \/ MainFree
           \/ TimerExpires \/ SendUsr1 \/ SendInt
BY DEF Next, WorkerStep, SigStep, MainStep

\* The shelves are numbers, and a loop stays on them.
LEMMA ShelfFacts ==
    /\ Polki \subseteq Int /\ 1 \in Polki /\ n \in Polki
    /\ \A s \in Polki : 1 <= s /\ s <= n /\ (s < n => s + 1 \in Polki)
BY nAssumption DEF Polki

\* The types are preserved.
LEMMA TypeStep ==
    ASSUME TypeOK, [Next]_vars
    PROVE  TypeOK'
<1> USE DEF locks, workerVars, signalVars, GotoW, TypeOK, Signals
<1>1. ASSUME NEW w \in Workers, Finish(w) PROVE TypeOK'
  BY <1>1 DEF Finish, SeesStop
<1>2. ASSUME NEW w \in Workers, NEW x \in Polki, NEW y \in Polki, Pick(w, x, y) PROVE TypeOK'
  BY <1>2 DEF Pick, SeesStop, Ordered
<1>3. ASSUME NEW w \in Workers, LockA(w) PROVE TypeOK'
  BY <1>3 DEF LockA
<1>4. ASSUME NEW w \in Workers, LockB(w) PROVE TypeOK'
  BY <1>4 DEF LockB
<1>5. ASSUME NEW w \in Workers, Compare(w) PROVE TypeOK'
  BY <1>5 DEF Compare
<1>6. ASSUME NEW w \in Workers, WriteA(w) PROVE TypeOK'
  BY <1>6 DEF WriteA
<1>7. ASSUME NEW w \in Workers, WriteB(w) PROVE TypeOK'
  BY <1>7, ShelfFacts DEF WriteB
<1>8. ASSUME NEW w \in Workers, UnlockA(w) PROVE TypeOK'
  BY <1>8, ZenonT(40) DEF UnlockA
<1>9. ASSUME NEW w \in Workers, UnlockB(w) PROVE TypeOK'
  BY <1>9, ShelfFacts DEF UnlockB
<1>10. ASSUME NEW w \in Workers, Create(w) PROVE TypeOK'
  BY <1>10 DEF Create
<1>11. ASSUME SigStart PROVE TypeOK'
  BY <1>11 DEF SigStart
<1>12. ASSUME NEW s \in Signals, Sigwait(s) PROVE TypeOK'
  BY <1>12, ShelfFacts DEF Sigwait
<1>13. ASSUME SigLock(Sig) PROVE TypeOK'
  BY <1>13, ShelfFacts DEF SigLock, Turn
<1>14. ASSUME SigPrint PROVE TypeOK'
  BY <1>14 DEF SigPrint
<1>15. ASSUME NEW j \in Polki, SigShuffle(j) PROVE TypeOK'
  BY <1>15, ShelfFacts DEF SigShuffle, Turn
<1>16. ASSUME SigUnlock PROVE TypeOK'
  BY <1>16, ShelfFacts DEF SigUnlock, Turn
<1>17. ASSUME SigLockStop PROVE TypeOK'
  BY <1>17 DEF SigLockStop
<1>18. ASSUME SigSetStop PROVE TypeOK'
  BY <1>18 DEF SigSetStop
<1>19. ASSUME SigUnlockStop PROVE TypeOK'
  BY <1>19 DEF SigUnlockStop
<1>20. ASSUME Poll PROVE TypeOK'
  BY <1>20 DEF Poll
<1>21. ASSUME JoinWorkers PROVE TypeOK'
  BY <1>21 DEF JoinWorkers
<1>22. ASSUME MainPrint PROVE TypeOK'
  BY <1>22 DEF MainPrint
<1>23. ASSUME MainFree PROVE TypeOK'
  BY <1>23 DEF MainFree
<1>24. ASSUME TimerExpires PROVE TypeOK'
  BY <1>24 DEF TimerExpires
<1>25. ASSUME SendUsr1 PROVE TypeOK'
  BY <1>25, ShufflesAssumption DEF SendUsr1
<1>26. ASSUME SendInt PROVE TypeOK'
  BY <1>26 DEF SendInt
<1>27. CASE UNCHANGED vars
  BY <1>27 DEF vars
<1> QED
  BY <1>1, <1>2, <1>3, <1>4, <1>5, <1>6, <1>7, <1>8, <1>9, <1>10, <1>11, <1>12,
     <1>13, <1>14, <1>15, <1>16, <1>17, <1>18, <1>19, <1>20, <1>21, <1>22, <1>23,
     <1>24, <1>25, <1>26, <1>27, NextCases

\* A worker keeps the order of its shelves, and every loop ends at the first.
LEMMA PlacesStep ==
    ASSUME TypeOK, Places, [Next]_vars
    PROVE  Places'
<1> USE DEF locks, workerVars, signalVars, GotoW, TypeOK, Places
<1>1. ASSUME NEW w \in Workers, Finish(w) PROVE Places'
  BY <1>1 DEF Finish, SeesStop
<1>2. ASSUME NEW w \in Workers, NEW x \in Polki, NEW y \in Polki, Pick(w, x, y) PROVE Places'
  BY <1>2, ShelfFacts DEF Pick, SeesStop, Ordered
<1>3. ASSUME NEW w \in Workers, LockA(w) PROVE Places'
  BY <1>3 DEF LockA
<1>4. ASSUME NEW w \in Workers, LockB(w) PROVE Places'
  BY <1>4 DEF LockB
<1>5. ASSUME NEW w \in Workers, Compare(w) PROVE Places'
  BY <1>5 DEF Compare
<1>6. ASSUME NEW w \in Workers, WriteA(w) PROVE Places'
  BY <1>6 DEF WriteA
<1>7. ASSUME NEW w \in Workers, WriteB(w) PROVE Places'
  BY <1>7 DEF WriteB
<1>8. ASSUME NEW w \in Workers, UnlockA(w) PROVE Places'
  BY <1>8 DEF UnlockA
<1>9. ASSUME NEW w \in Workers, UnlockB(w) PROVE Places'
  BY <1>9 DEF UnlockB
<1>10. ASSUME NEW w \in Workers, Create(w) PROVE Places'
  BY <1>10 DEF Create
<1>11. ASSUME SigStart PROVE Places'
  BY <1>11 DEF SigStart
<1>12. ASSUME NEW s \in Signals, Sigwait(s) PROVE Places'
  BY <1>12 DEF Sigwait
<1>13. ASSUME SigLock(Sig) PROVE Places'
  BY <1>13 DEF SigLock, Turn
<1>14. ASSUME SigPrint PROVE Places'
  BY <1>14 DEF SigPrint
<1>15. ASSUME NEW j \in Polki, SigShuffle(j) PROVE Places'
  BY <1>15 DEF SigShuffle, Turn
<1>16. ASSUME SigUnlock PROVE Places'
  BY <1>16 DEF SigUnlock, Turn
<1>17. ASSUME SigLockStop PROVE Places'
  BY <1>17 DEF SigLockStop
<1>18. ASSUME SigSetStop PROVE Places'
  BY <1>18 DEF SigSetStop
<1>19. ASSUME SigUnlockStop PROVE Places'
  BY <1>19 DEF SigUnlockStop
<1>20. ASSUME Poll PROVE Places'
  BY <1>20 DEF Poll
<1>21. ASSUME JoinWorkers PROVE Places'
  BY <1>21 DEF JoinWorkers
<1>22. ASSUME MainPrint PROVE Places'
  BY <1>22 DEF MainPrint
<1>23. ASSUME MainFree PROVE Places'
  BY <1>23 DEF MainFree
<1>24. ASSUME TimerExpires PROVE Places'
  BY <1>24 DEF TimerExpires
<1>25. ASSUME SendUsr1 PROVE Places'
  BY <1>25 DEF SendUsr1
<1>26. ASSUME SendInt PROVE Places'
  BY <1>26 DEF SendInt
<1>27. CASE UNCHANGED vars
  BY <1>27 DEF vars
<1> QED
  BY <1>1, <1>2, <1>3, <1>4, <1>5, <1>6, <1>7, <1>8, <1>9, <1>10, <1>11, <1>12,
     <1>13, <1>14, <1>15, <1>16, <1>17, <1>18, <1>19, <1>20, <1>21, <1>22, <1>23,
     <1>24, <1>25, <1>26, <1>27, NextCases

\* Who holds the mutex of stop, and how far main may be.
LEMMA StopStep ==
    ASSUME TypeOK, StopInv, [Next]_vars
    PROVE  StopInv'
<1> USE ThreadsAssumption DEF locks, workerVars, signalVars, GotoW, TypeOK, StopInv
<1>1. ASSUME NEW w \in Workers, Finish(w) PROVE StopInv'
  BY <1>1 DEF Finish, SeesStop
<1>2. ASSUME NEW w \in Workers, NEW x \in Polki, NEW y \in Polki, Pick(w, x, y) PROVE StopInv'
  BY <1>2 DEF Pick, SeesStop, Ordered
<1>3. ASSUME NEW w \in Workers, LockA(w) PROVE StopInv'
  BY <1>3 DEF LockA
<1>4. ASSUME NEW w \in Workers, LockB(w) PROVE StopInv'
  BY <1>4 DEF LockB
<1>5. ASSUME NEW w \in Workers, Compare(w) PROVE StopInv'
  BY <1>5 DEF Compare
<1>6. ASSUME NEW w \in Workers, WriteA(w) PROVE StopInv'
  BY <1>6 DEF WriteA
<1>7. ASSUME NEW w \in Workers, WriteB(w) PROVE StopInv'
  BY <1>7 DEF WriteB
<1>8. ASSUME NEW w \in Workers, UnlockA(w) PROVE StopInv'
  BY <1>8 DEF UnlockA
<1>9. ASSUME NEW w \in Workers, UnlockB(w) PROVE StopInv'
  BY <1>9 DEF UnlockB
<1>10. ASSUME NEW w \in Workers, Create(w) PROVE StopInv'
  BY <1>10 DEF Create
<1>11. ASSUME SigStart PROVE StopInv'
  BY <1>11 DEF SigStart
<1>12. ASSUME NEW s \in Signals, Sigwait(s) PROVE StopInv'
  BY <1>12 DEF Sigwait
<1>13. ASSUME SigLock(Sig) PROVE StopInv'
  BY <1>13 DEF SigLock, Turn
<1>14. ASSUME SigPrint PROVE StopInv'
  BY <1>14 DEF SigPrint
<1>15. ASSUME NEW j \in Polki, SigShuffle(j) PROVE StopInv'
  BY <1>15 DEF SigShuffle, Turn
<1>16. ASSUME SigUnlock PROVE StopInv'
  BY <1>16 DEF SigUnlock, Turn
<1>17. ASSUME SigLockStop PROVE StopInv'
  BY <1>17 DEF SigLockStop
<1>18. ASSUME SigSetStop PROVE StopInv'
  BY <1>18 DEF SigSetStop
<1>19. ASSUME SigUnlockStop PROVE StopInv'
  BY <1>19 DEF SigUnlockStop
<1>20. ASSUME Poll PROVE StopInv'
  BY <1>20 DEF Poll
<1>21. ASSUME JoinWorkers PROVE StopInv'
  BY <1>21 DEF JoinWorkers
<1>22. ASSUME MainPrint PROVE StopInv'
  BY <1>22 DEF MainPrint
<1>23. ASSUME MainFree PROVE StopInv'
  BY <1>23 DEF MainFree
<1>24. ASSUME TimerExpires PROVE StopInv'
  BY <1>24 DEF TimerExpires
<1>25. ASSUME SendUsr1 PROVE StopInv'
  BY <1>25 DEF SendUsr1
<1>26. ASSUME SendInt PROVE StopInv'
  BY <1>26 DEF SendInt
<1>27. CASE UNCHANGED vars
  BY <1>27 DEF vars
<1> QED
  BY <1>1, <1>2, <1>3, <1>4, <1>5, <1>6, <1>7, <1>8, <1>9, <1>10, <1>11, <1>12,
     <1>13, <1>14, <1>15, <1>16, <1>17, <1>18, <1>19, <1>20, <1>21, <1>22, <1>23,
     <1>24, <1>25, <1>26, <1>27, NextCases

\* LockInv for all threads alike.
LEMMA LockInvByThread ==
    ASSUME TRUE
    PROVE  LockInv <=> \A s \in Polki : \A t \in Threads : mx_polki[s] = {t} <=> s \in Holds(t)
BY ThreadsAssumption DEF LockInv, Threads, Holds

\* The same of the next state.
LEMMA LockInvByThreadNext ==
    ASSUME \A s \in Polki : \A t \in Threads : mx_polki'[s] = {t} <=> s \in Holds(t)'
    PROVE  LockInv'
BY ThreadsAssumption DEF LockInv, Threads, Holds

\* LockInv outlives the locking of a free shelf by one thread,
LEMMA TakeKeepsLockInv ==
    ASSUME TypeOK, LockInv, NEW t \in Threads, NEW s \in Polki,
           mx_polki[s] = {}, mx_polki' = [mx_polki EXCEPT ![s] = {t}],
           \A u \in Threads : Holds(u)' = IF u = t THEN Holds(u) \cup {s} ELSE Holds(u)
    PROVE  LockInv'
<1>1. ASSUME NEW r \in Polki, NEW u \in Threads PROVE mx_polki'[r] = {u} <=> r \in Holds(u)'
  <2>1. mx_polki[r] = {u} <=> r \in Holds(u)
    BY LockInvByThread
  <2>2. mx_polki'[r] = IF r = s THEN {t} ELSE mx_polki[r]
    BY DEF TypeOK
  <2>3. {t} = {u} <=> t = u
    BY ONLY TRUE
  <2>4. r = s => mx_polki[r] # {u}
    BY ONLY mx_polki[s] = {}
  <2> QED  BY <2>1, <2>2, <2>3, <2>4
<1> QED  BY <1>1, LockInvByThreadNext

\* the unlocking of a shelf by the thread that holds it,
LEMMA GiveKeepsLockInv ==
    ASSUME TypeOK, LockInv, NEW t \in Threads, NEW s \in Polki,
           s \in Holds(t), mx_polki' = [mx_polki EXCEPT ![s] = {}],
           \A u \in Threads : Holds(u)' = IF u = t THEN Holds(u) \ {s} ELSE Holds(u)
    PROVE  LockInv'
<1>1. ASSUME NEW r \in Polki, NEW u \in Threads PROVE mx_polki'[r] = {u} <=> r \in Holds(u)'
  <2>1. /\ mx_polki[r] = {u} <=> r \in Holds(u)
        /\ mx_polki[s] = {t}
        /\ mx_polki[s] = {u} <=> s \in Holds(u)
    BY LockInvByThread
  <2>2. mx_polki'[r] = IF r = s THEN {} ELSE mx_polki[r]
    BY DEF TypeOK
  <2>3. ({t} = {u} <=> t = u) /\ {} # {u}
    BY ONLY TRUE
  <2> QED  BY <2>1, <2>2, <2>3
<1> QED  BY <1>1, LockInvByThreadNext

\* and every step at which nobody takes or gives up a shelf.
LEMMA QuietKeepsLockInv ==
    ASSUME LockInv, mx_polki' = mx_polki, \A u \in Threads : Holds(u)' = Holds(u)
    PROVE  LockInv'
BY LockInvByThread, LockInvByThreadNext

\* What a thread holds depends on its own place only.
LEMMA HoldsSame ==
    /\ \A v \in Workers : wpc'[v] = wpc[v] /\ a'[v] = a[v] /\ b'[v] = b[v] => HeldBy(v)' = HeldBy(v)
    /\ sigpc' = sigpc /\ i' = i => SigHolds' = SigHolds
BY DEF HeldBy, SigHolds

\* Every step is of one of the three kinds.
LEMMA LockStep ==
    ASSUME TypeOK, Places, LockInv, [Next]_vars
    PROVE  LockInv'
<1> USE ThreadsAssumption DEF locks, workerVars, signalVars, GotoW, TypeOK, Places, Threads
<1>1. ASSUME NEW w \in Workers, Finish(w) PROVE LockInv'
  <2>1. mx_polki' = mx_polki /\ \A u \in Threads : Holds(u)' = Holds(u)
    BY <1>1 DEF Finish, SeesStop, Holds, HeldBy, SigHolds
  <2> QED  BY ONLY <2>1, LockInv, QuietKeepsLockInv
<1>2. ASSUME NEW w \in Workers, NEW x \in Polki, NEW y \in Polki, Pick(w, x, y) PROVE LockInv'
  <2>1. mx_polki' = mx_polki /\ \A u \in Threads : Holds(u)' = Holds(u)
    BY <1>2 DEF Pick, SeesStop, Ordered, Holds, HeldBy, SigHolds
  <2> QED  BY ONLY <2>1, LockInv, QuietKeepsLockInv
<1>3. ASSUME NEW w \in Workers, LockA(w) PROVE LockInv'
  <2>1.  \A u \in Threads : Holds(u)' = IF u = w THEN Holds(u) \cup {a[w]} ELSE Holds(u)
    <3>1. HeldBy(w)' = HeldBy(w) \cup {a[w]}
      BY <1>3 DEF LockA, HeldBy
    <3>2. (\A v \in Workers \ {w} : HeldBy(v)' = HeldBy(v)) /\ SigHolds' = SigHolds
      BY <1>3, HoldsSame DEF LockA
    <3> QED  BY ONLY <3>1, <3>2, ThreadsAssumption, w \in Workers DEF Threads, Holds
  <2>2. w \in Threads /\ a[w] \in Polki /\ mx_polki[a[w]] = {} /\ mx_polki' = [mx_polki EXCEPT ![a[w]] = {w}]
    BY <1>3 DEF LockA
  <2> QED  BY ONLY <2>1, <2>2, TypeOK, LockInv, TakeKeepsLockInv
<1>4. ASSUME NEW w \in Workers, LockB(w) PROVE LockInv'
  <2>1.  \A u \in Threads : Holds(u)' = IF u = w THEN Holds(u) \cup {b[w]} ELSE Holds(u)
    <3>1. HeldBy(w)' = HeldBy(w) \cup {b[w]}
      BY <1>4 DEF LockB, HeldBy
    <3>2. (\A v \in Workers \ {w} : HeldBy(v)' = HeldBy(v)) /\ SigHolds' = SigHolds
      BY <1>4, HoldsSame DEF LockB
    <3> QED  BY ONLY <3>1, <3>2, ThreadsAssumption, w \in Workers DEF Threads, Holds
  <2>2. w \in Threads /\ b[w] \in Polki /\ mx_polki[b[w]] = {} /\ mx_polki' = [mx_polki EXCEPT ![b[w]] = {w}]
    BY <1>4 DEF LockB
  <2> QED  BY ONLY <2>1, <2>2, TypeOK, LockInv, TakeKeepsLockInv
<1>5. ASSUME NEW w \in Workers, Compare(w) PROVE LockInv'
  <2>1. mx_polki' = mx_polki /\ \A u \in Threads : Holds(u)' = Holds(u)
    BY <1>5 DEF Compare, Holds, HeldBy, SigHolds
  <2> QED  BY ONLY <2>1, LockInv, QuietKeepsLockInv
<1>6. ASSUME NEW w \in Workers, WriteA(w) PROVE LockInv'
  <2>1. mx_polki' = mx_polki /\ \A u \in Threads : Holds(u)' = Holds(u)
    BY <1>6 DEF WriteA, Holds, HeldBy, SigHolds
  <2> QED  BY ONLY <2>1, LockInv, QuietKeepsLockInv
<1>7. ASSUME NEW w \in Workers, WriteB(w) PROVE LockInv'
  <2>1. mx_polki' = mx_polki /\ \A u \in Threads : Holds(u)' = Holds(u)
    BY <1>7 DEF WriteB, Holds, HeldBy, SigHolds
  <2> QED  BY ONLY <2>1, LockInv, QuietKeepsLockInv
<1>8. ASSUME NEW w \in Workers, UnlockA(w) PROVE LockInv'
  <2>1.  \A u \in Threads : Holds(u)' = IF u = w THEN Holds(u) \ {a[w]} ELSE Holds(u)
    <3>1. HeldBy(w)' = HeldBy(w) \ {a[w]}
      <4>1. a[w] # b[w]
        <5>1. a[w] < b[w]
          BY <1>8 DEF UnlockA
        <5>2. a[w] \in Int /\ b[w] \in Int
          BY ShelfFacts
        <5> QED  BY ONLY <5>1, <5>2
      <4> QED  BY <1>8, <4>1 DEF UnlockA, HeldBy
    <3>2. (\A v \in Workers \ {w} : HeldBy(v)' = HeldBy(v)) /\ SigHolds' = SigHolds
      BY <1>8, HoldsSame DEF UnlockA
    <3> QED  BY ONLY <3>1, <3>2, ThreadsAssumption, w \in Workers DEF Threads, Holds
  <2>2. w \in Threads /\ a[w] \in Polki /\ a[w] \in Holds(w) /\ mx_polki' = [mx_polki EXCEPT ![a[w]] = {}]
    BY <1>8 DEF UnlockA, Holds, HeldBy, SigHolds, Polki
  <2> QED  BY ONLY <2>1, <2>2, TypeOK, LockInv, GiveKeepsLockInv
<1>9. ASSUME NEW w \in Workers, UnlockB(w) PROVE LockInv'
  <2>1.  \A u \in Threads : Holds(u)' = IF u = w THEN Holds(u) \ {b[w]} ELSE Holds(u)
    <3>1. HeldBy(w)' = HeldBy(w) \ {b[w]}
      BY <1>9 DEF UnlockB, HeldBy
    <3>2. (\A v \in Workers \ {w} : HeldBy(v)' = HeldBy(v)) /\ SigHolds' = SigHolds
      BY <1>9, HoldsSame DEF UnlockB
    <3> QED  BY ONLY <3>1, <3>2, ThreadsAssumption, w \in Workers DEF Threads, Holds
  <2>2. w \in Threads /\ b[w] \in Polki /\ b[w] \in Holds(w) /\ mx_polki' = [mx_polki EXCEPT ![b[w]] = {}]
    BY <1>9 DEF UnlockB, Holds, HeldBy, SigHolds, Polki
  <2> QED  BY ONLY <2>1, <2>2, TypeOK, LockInv, GiveKeepsLockInv
<1>10. ASSUME NEW w \in Workers, Create(w) PROVE LockInv'
  <2>1. mx_polki' = mx_polki /\ \A u \in Threads : Holds(u)' = Holds(u)
    BY <1>10 DEF Create, Holds, HeldBy, SigHolds
  <2> QED  BY ONLY <2>1, LockInv, QuietKeepsLockInv
<1>11. ASSUME SigStart PROVE LockInv'
  <2>1. mx_polki' = mx_polki /\ \A u \in Threads : Holds(u)' = Holds(u)
    BY <1>11 DEF SigStart, Holds, HeldBy, SigHolds, Polki
  <2> QED  BY ONLY <2>1, LockInv, QuietKeepsLockInv
<1>12. ASSUME NEW s \in Signals, Sigwait(s) PROVE LockInv'
  <2>1. mx_polki' = mx_polki /\ \A u \in Threads : Holds(u)' = Holds(u)
    <3>1. SigHolds' = SigHolds
      <4>1. ASSUME NEW r \in Polki PROVE r \in SigHolds' <=> r \in SigHolds
        <5>1. r \in Int /\ i \in Int /\ n \in Int /\ 1 <= r /\ r <= n /\ i <= n
          BY ShelfFacts
        <5> QED  BY <1>12, <5>1 DEF Sigwait, SigHolds
      <4>2. SigHolds \subseteq Polki /\ SigHolds' \subseteq Polki /\ i \in Polki
        BY DEF SigHolds
      <4> QED  BY ONLY <4>1, <4>2
    <3>2. mx_polki' = mx_polki /\ \A v \in Workers : HeldBy(v)' = HeldBy(v)
      BY <1>12, HoldsSame DEF Sigwait
    <3> QED  BY ONLY <3>1, <3>2, ThreadsAssumption DEF Threads, Holds
  <2> QED  BY ONLY <2>1, LockInv, QuietKeepsLockInv
<1>13. ASSUME SigLock(Sig) PROVE LockInv'
  <2>1.  \A u \in Threads : Holds(u)' = IF u = Sig THEN Holds(u) \cup {i} ELSE Holds(u)
    <3>1. SigHolds' = SigHolds \cup {i}
      <4>1. ASSUME NEW s \in Polki PROVE s \in SigHolds' <=> s \in SigHolds \/ s = i
        <5>1. s \in Int /\ i \in Int /\ n \in Int /\ 1 <= s /\ s <= n /\ i <= n
          BY ShelfFacts
        <5> QED  BY <1>13, <5>1 DEF SigLock, Turn, SigHolds
      <4>2. SigHolds \subseteq Polki /\ SigHolds' \subseteq Polki /\ i \in Polki
        BY DEF SigHolds
      <4> QED  BY ONLY <4>1, <4>2
    <3>2. \A v \in Workers : HeldBy(v)' = HeldBy(v)
      BY <1>13, HoldsSame DEF SigLock, Turn
    <3> QED  BY ONLY <3>1, <3>2, ThreadsAssumption DEF Threads, Holds
  <2>2. Sig \in Threads /\ i \in Polki /\ mx_polki[i] = {} /\ mx_polki' = [mx_polki EXCEPT ![i] = {Sig}]
    BY <1>13 DEF SigLock, Turn
  <2> QED  BY ONLY <2>1, <2>2, TypeOK, LockInv, TakeKeepsLockInv
<1>14. ASSUME SigPrint PROVE LockInv'
  <2>1. mx_polki' = mx_polki /\ \A u \in Threads : Holds(u)' = Holds(u)
    <3>1. SigHolds' = SigHolds
      BY <1>14, ShelfFacts DEF SigPrint, SigHolds
    <3>2. mx_polki' = mx_polki /\ \A v \in Workers : HeldBy(v)' = HeldBy(v)
      BY <1>14, HoldsSame DEF SigPrint
    <3> QED  BY ONLY <3>1, <3>2, ThreadsAssumption DEF Threads, Holds
  <2> QED  BY ONLY <2>1, LockInv, QuietKeepsLockInv
<1>15. ASSUME NEW j \in Polki, SigShuffle(j) PROVE LockInv'
  <2>1. mx_polki' = mx_polki /\ \A u \in Threads : Holds(u)' = Holds(u)
    <3>1. SigHolds' = SigHolds
      <4>1. ASSUME NEW s \in Polki PROVE s \in SigHolds' <=> s \in SigHolds
        <5>1. s \in Int /\ i \in Int /\ n \in Int /\ 1 <= s /\ s <= n /\ i <= n
          BY ShelfFacts
        <5> QED  BY <1>15, <5>1 DEF SigShuffle, Turn, SigHolds
      <4>2. SigHolds \subseteq Polki /\ SigHolds' \subseteq Polki /\ i \in Polki
        BY DEF SigHolds
      <4> QED  BY ONLY <4>1, <4>2
    <3>2. mx_polki' = mx_polki /\ \A v \in Workers : HeldBy(v)' = HeldBy(v)
      BY <1>15, HoldsSame DEF SigShuffle, Turn
    <3> QED  BY ONLY <3>1, <3>2, ThreadsAssumption DEF Threads, Holds
  <2> QED  BY ONLY <2>1, LockInv, QuietKeepsLockInv
<1>16. ASSUME SigUnlock PROVE LockInv'
  <2>1.  \A u \in Threads : Holds(u)' = IF u = Sig THEN Holds(u) \ {i} ELSE Holds(u)
    <3>1. SigHolds' = SigHolds \ {i}
      <4>1. ASSUME NEW s \in Polki PROVE s \in SigHolds' <=> s \in SigHolds /\ s # i
        <5>1. s \in Int /\ i \in Int /\ n \in Int /\ 1 <= s /\ s <= n /\ i <= n
          BY ShelfFacts
        <5> QED  BY <1>16, <5>1 DEF SigUnlock, Turn, SigHolds
      <4>2. SigHolds \subseteq Polki /\ SigHolds' \subseteq Polki /\ i \in Polki
        BY DEF SigHolds
      <4> QED  BY ONLY <4>1, <4>2
    <3>2. \A v \in Workers : HeldBy(v)' = HeldBy(v)
      BY <1>16, HoldsSame DEF SigUnlock, Turn
    <3> QED  BY ONLY <3>1, <3>2, ThreadsAssumption DEF Threads, Holds
  <2>2. Sig \in Threads /\ i \in Polki /\ i \in Holds(Sig) /\ mx_polki' = [mx_polki EXCEPT ![i] = {}]
    BY <1>16 DEF SigUnlock, Turn, Holds, HeldBy, SigHolds, Polki
  <2> QED  BY ONLY <2>1, <2>2, TypeOK, LockInv, GiveKeepsLockInv
<1>17. ASSUME SigLockStop PROVE LockInv'
  <2>1. mx_polki' = mx_polki /\ \A u \in Threads : Holds(u)' = Holds(u)
    BY <1>17 DEF SigLockStop, Holds, HeldBy, SigHolds, Polki
  <2> QED  BY ONLY <2>1, LockInv, QuietKeepsLockInv
<1>18. ASSUME SigSetStop PROVE LockInv'
  <2>1. mx_polki' = mx_polki /\ \A u \in Threads : Holds(u)' = Holds(u)
    BY <1>18 DEF SigSetStop, Holds, HeldBy, SigHolds, Polki
  <2> QED  BY ONLY <2>1, LockInv, QuietKeepsLockInv
<1>19. ASSUME SigUnlockStop PROVE LockInv'
  <2>1. mx_polki' = mx_polki /\ \A u \in Threads : Holds(u)' = Holds(u)
    BY <1>19 DEF SigUnlockStop, Holds, HeldBy, SigHolds, Polki
  <2> QED  BY ONLY <2>1, LockInv, QuietKeepsLockInv
<1>20. ASSUME Poll PROVE LockInv'
  <2>1. mx_polki' = mx_polki /\ \A u \in Threads : Holds(u)' = Holds(u)
    BY <1>20 DEF Poll, Holds, HeldBy, SigHolds
  <2> QED  BY ONLY <2>1, LockInv, QuietKeepsLockInv
<1>21. ASSUME JoinWorkers PROVE LockInv'
  <2>1. mx_polki' = mx_polki /\ \A u \in Threads : Holds(u)' = Holds(u)
    BY <1>21 DEF JoinWorkers, Holds, HeldBy, SigHolds
  <2> QED  BY ONLY <2>1, LockInv, QuietKeepsLockInv
<1>22. ASSUME MainPrint PROVE LockInv'
  <2>1. mx_polki' = mx_polki /\ \A u \in Threads : Holds(u)' = Holds(u)
    BY <1>22 DEF MainPrint, Holds, HeldBy, SigHolds
  <2> QED  BY ONLY <2>1, LockInv, QuietKeepsLockInv
<1>23. ASSUME MainFree PROVE LockInv'
  <2>1. mx_polki' = mx_polki /\ \A u \in Threads : Holds(u)' = Holds(u)
    BY <1>23 DEF MainFree, Holds, HeldBy, SigHolds
  <2> QED  BY ONLY <2>1, LockInv, QuietKeepsLockInv
<1>24. ASSUME TimerExpires PROVE LockInv'
  <2>1. mx_polki' = mx_polki /\ \A u \in Threads : Holds(u)' = Holds(u)
    BY <1>24 DEF TimerExpires, Holds, HeldBy, SigHolds
  <2> QED  BY ONLY <2>1, LockInv, QuietKeepsLockInv
<1>25. ASSUME SendUsr1 PROVE LockInv'
  <2>1. mx_polki' = mx_polki /\ \A u \in Threads : Holds(u)' = Holds(u)
    BY <1>25 DEF SendUsr1, Holds, HeldBy, SigHolds
  <2> QED  BY ONLY <2>1, LockInv, QuietKeepsLockInv
<1>26. ASSUME SendInt PROVE LockInv'
  <2>1. mx_polki' = mx_polki /\ \A u \in Threads : Holds(u)' = Holds(u)
    BY <1>26 DEF SendInt, Holds, HeldBy, SigHolds
  <2> QED  BY ONLY <2>1, LockInv, QuietKeepsLockInv
<1>27. CASE UNCHANGED vars
  <2>1. mx_polki' = mx_polki /\ \A u \in Threads : Holds(u)' = Holds(u)
    BY <1>27 DEF vars, Holds, HeldBy, SigHolds
  <2> QED  BY ONLY <2>1, LockInv, QuietKeepsLockInv
<1> QED
  BY <1>1, <1>2, <1>3, <1>4, <1>5, <1>6, <1>7, <1>8, <1>9, <1>10, <1>11, <1>12,
     <1>13, <1>14, <1>15, <1>16, <1>17, <1>18, <1>19, <1>20, <1>21, <1>22, <1>23,
     <1>24, <1>25, <1>26, <1>27, NextCases

\* A shelf has one holder, and what a thread has locked nobody else holds.
LEMMA OneHolder ==
    ASSUME LockInv, NEW s \in Polki, NEW t \in Threads, NEW u \in Threads,
           s \in Holds(t), s \in Holds(u)
    PROVE  t = u
<1>1. mx_polki[s] = {t} /\ mx_polki[s] = {u}
  BY LockInvByThread
<1> QED  BY <1>1

\* The shelves a worker is at work on are its own.
LEMMA AtWork ==
    ASSUME TypeOK, Places, NEW w \in Workers, wpc[w] \in {"compare", "writea", "writeb"}
    PROVE  /\ a[w] \in HeldBy(w) /\ b[w] \in HeldBy(w)
           /\ a[w] # b[w] /\ a[w] < b[w]
<1>1. a[w] \in Int /\ b[w] \in Int /\ a[w] < b[w]
  BY ShelfFacts DEF TypeOK, Places
<1> QED  BY <1>1 DEF TypeOK, HeldBy

\* While the signal thread prints or shuffles, no worker is at work.
LEMMA ShopIsShut ==
    ASSUME TypeOK, Places, LockInv, sigpc \in {"print", "shuffle"}, NEW w \in Workers
    PROVE  wpc[w] \notin {"compare", "writea", "writeb"}
<1> SUFFICES ASSUME wpc[w] \in {"compare", "writea", "writeb"} PROVE FALSE
  OBVIOUS
<1>1. a[w] \in Holds(w) /\ a[w] \in Holds(Sig)
  BY AtWork, ThreadsAssumption DEF Holds, SigHolds, HeldBy
<1>2. a[w] \in Polki /\ w \in Threads /\ Sig \in Threads /\ w # Sig
  BY ThreadsAssumption DEF TypeOK, Threads
<1> QED  BY <1>1, <1>2, OneHolder

\* Goods without the choice: on the upper shelf of an exchange under way stands
\* what the worker will put there, on every other shelf what is there.
LEMMA GoodsAt ==
    ASSUME NEW s \in Polki
    PROVE  /\ InExchange(s) = {} => Goods[s] = polki[s]
           /\ \A w \in Workers : InExchange(s) = {w} => Goods[s] = vala[w]
<1>1. ASSUME NEW w, InExchange(s) = {w} PROVE Goods[s] = vala[w]
  <2>1. (CHOOSE v \in {w} : TRUE) = w
    OBVIOUS
  <2> QED  BY <1>1, <2>1 DEF Goods
<1> QED  BY <1>1 DEF Goods

\* The same of the next state.
LEMMA GoodsAtNext ==
    ASSUME NEW s \in Polki
    PROVE  /\ InExchange(s)' = {} => Goods'[s] = polki'[s]
           /\ \A w \in Workers : InExchange(s)' = {w} => Goods'[s] = vala'[w]
<1>1. ASSUME NEW w, InExchange(s)' = {w} PROVE Goods'[s] = vala'[w]
  <2>1. (CHOOSE v \in {w} : TRUE) = w
    OBVIOUS
  <2> QED  BY <1>1, <2>1 DEF Goods
<1> QED  BY <1>1 DEF Goods

\* At most one exchange is under way at a shelf.
LEMMA OneExchange ==
    ASSUME TypeOK, Places, LockInv, NEW s \in Polki, NEW w \in Workers, s \in HeldBy(w)
    PROVE  InExchange(s) = IF wpc[w] = "writeb" /\ b[w] = s THEN {w} ELSE {}
<1>1. ASSUME NEW v \in InExchange(s) PROVE v = w
  <2>1. v \in Workers /\ wpc[v] = "writeb" /\ b[v] = s
    BY <1>1 DEF InExchange
  <2>2. s \in HeldBy(v)
    BY <2>1, AtWork
  <2>3. v \in Threads /\ w \in Threads /\ s \in Holds(v) /\ s \in Holds(w)
    BY <2>1, <2>2, ThreadsAssumption DEF Threads, Holds
  <2> QED  BY <2>3, OneHolder
<1>2. InExchange(s) \subseteq {w}
  BY <1>1
<1>3. w \in InExchange(s) <=> wpc[w] = "writeb" /\ b[w] = s
  BY DEF InExchange
<1> QED  BY <1>2, <1>3

\* Goods is a function on the shelves, in both states.
LEMMA GoodsIsFunction ==
    /\ Goods = [s \in Polki |-> Goods[s]]
    /\ Goods' = [s \in Polki |-> Goods'[s]]
BY DEF Goods

\* A shelf keeps its goods when neither they nor the exchange there change,
LEMMA QuietShelf ==
    ASSUME NEW s \in Polki, InExchange(s)' = InExchange(s), polki'[s] = polki[s],
           \A v \in InExchange(s) : vala'[v] = vala[v]
    PROVE  Goods'[s] = Goods[s]
<1>1. CASE InExchange(s) = {}
  BY <1>1, GoodsAt, GoodsAtNext
<1>2. CASE InExchange(s) # {}
  <2> DEFINE c == CHOOSE v \in InExchange(s) : TRUE
  <2>1. c \in InExchange(s)
    BY <1>2
  <2>2. Goods[s] = vala[c] /\ Goods'[s] = vala'[c]
    BY <1>2 DEF Goods
  <2> QED  BY <2>1, <2>2
<1> QED  BY <1>1, <1>2

\* and every shelf does in a step that neither stores nor starts or ends an
\* exchange.
LEMMA QuietKeepsGoods ==
    ASSUME polki' = polki,
           \A v \in Workers : /\ wpc'[v] = "writeb" <=> wpc[v] = "writeb"
                              /\ wpc[v] = "writeb" => b'[v] = b[v] /\ vala'[v] = vala[v]
    PROVE  Goods' = Goods
<1>1. ASSUME NEW s \in Polki PROVE Goods'[s] = Goods[s]
  <2>1. InExchange(s)' = InExchange(s) /\ \A v \in InExchange(s) : vala'[v] = vala[v]
    BY DEF InExchange
  <2> QED  BY <2>1, QuietShelf
<1> QED  BY <1>1, GoodsIsFunction

\* The goods with those of shelves x and y exchanged.
Exchanged(x, y) == [Goods EXCEPT ![x] = Goods[y], ![y] = Goods[x]]

\* The first store of an exchange exchanges the goods, which stood in the wrong
\* order, in an open shop.
LEMMA FirstStore ==
    ASSUME TypeOK, Places, LockInv, ReadsInv, NEW w \in Workers, WriteA(w)
    PROVE  /\ Goods' = Exchanged(a[w], b[w])
           /\ a[w] < b[w] /\ Goods[a[w]] > Goods[b[w]]
           /\ sigpc \notin {"print", "shuffle"}
<1>1. /\ wpc[w] = "writea" /\ a[w] \in Polki /\ b[w] \in Polki
      /\ a[w] \in HeldBy(w) /\ b[w] \in HeldBy(w) /\ a[w] # b[w] /\ a[w] < b[w]
      /\ vala[w] = polki[a[w]] /\ valb[w] = polki[b[w]] /\ vala[w] > valb[w]
  BY AtWork DEF WriteA, TypeOK, ReadsInv
<1>2. InExchange(a[w]) = {} /\ InExchange(b[w]) = {}
  BY <1>1, OneExchange
<1>3. Goods[a[w]] = vala[w] /\ Goods[b[w]] = valb[w]
  BY <1>1, <1>2, GoodsAt
<1>4. \A s \in Polki : InExchange(s)' = IF s = b[w] THEN {w} ELSE InExchange(s)
  <2>1. ASSUME NEW s \in Polki, NEW v \in Workers
        PROVE  v \in InExchange(s)' <=> v \in InExchange(s) \/ (v = w /\ s = b[w])
    BY <1>1 DEF InExchange, WriteA, GotoW, TypeOK
  <2>2. \A s \in Polki : InExchange(s) \subseteq Workers /\ InExchange(s)' \subseteq Workers
    BY DEF InExchange
  <2> QED  BY <1>1, <1>2, <2>1, <2>2
<1>5. ASSUME NEW s \in Polki PROVE Goods'[s] = Exchanged(a[w], b[w])[s]
  <2>1. Exchanged(a[w], b[w])[s] = IF s = b[w] THEN Goods[a[w]] ELSE IF s = a[w] THEN Goods[b[w]] ELSE Goods[s]
    BY <1>1 DEF Exchanged, Goods
  <2>2. polki'[s] = (IF s = a[w] THEN valb[w] ELSE polki[s]) /\ vala' = vala
    BY DEF WriteA, TypeOK
  <2>3. CASE s = b[w]
    BY <1>3, <1>4, <2>1, <2>2, <2>3, GoodsAtNext
  <2>4. CASE s = a[w]
    BY <1>1, <1>2, <1>3, <1>4, <2>1, <2>2, <2>4, GoodsAtNext
  <2>5. CASE s # a[w] /\ s # b[w]
    BY <1>4, <2>1, <2>2, <2>5, QuietShelf
  <2> QED  BY <2>3, <2>4, <2>5
<1>6. Goods' = Exchanged(a[w], b[w])
  BY <1>5, GoodsIsFunction DEF Exchanged
<1>7. sigpc \notin {"print", "shuffle"}
  BY <1>1, ShopIsShut
<1> QED  BY <1>1, <1>3, <1>6, <1>7

\* The second store brings what the first has promised.
LEMMA SecondStore ==
    ASSUME TypeOK, Places, LockInv, NEW w \in Workers, WriteB(w)
    PROVE  Goods' = Goods
<1>1. wpc[w] = "writeb" /\ b[w] \in Polki /\ b[w] \in HeldBy(w)
  BY AtWork DEF WriteB, TypeOK
<1>2. InExchange(b[w]) = {w}
  BY <1>1, OneExchange
<1>3. ASSUME NEW s \in Polki, NEW v \in Workers
      PROVE  v \in InExchange(s)' <=> v \in InExchange(s) /\ v # w
  BY <1>1 DEF InExchange, WriteB, GotoW, TypeOK
<1>4. \A s \in Polki : InExchange(s) \subseteq Workers /\ InExchange(s)' \subseteq Workers
  BY DEF InExchange
<1>5. \A s \in Polki : s = b[w] => InExchange(s)' = {}
  BY <1>2, <1>3, <1>4
<1>6. ASSUME NEW s \in Polki PROVE Goods'[s] = Goods[s]
  <2>1. CASE s = b[w]
    <3>1. polki'[s] = vala[w]
      BY <2>1 DEF WriteB, TypeOK
    <3>2. Goods[s] = vala[w] /\ Goods'[s] = polki'[s]
      BY <1>2, <1>5, <2>1, GoodsAt, GoodsAtNext
    <3> QED  BY <3>1, <3>2
  <2>2. CASE s # b[w]
    <3>1. w \notin InExchange(s)
      BY <2>2 DEF InExchange
    <3>2. InExchange(s)' = InExchange(s)
      BY <1>3, <1>4, <3>1
    <3>3. polki'[s] = polki[s] /\ \A v \in Workers \ {w} : vala'[v] = vala[v]
      BY <2>2 DEF WriteB, TypeOK
    <3> QED  BY <1>4, <3>1, <3>2, <3>3, QuietShelf
  <2> QED  BY <2>1, <2>2
<1> QED  BY <1>6, GoodsIsFunction

\* One turn of the shuffle exchanges goods that all stand still.
LEMMA ShuffleExchanges ==
    ASSUME TypeOK, Places, LockInv, NEW j \in Polki, SigShuffle(j)
    PROVE  Goods' = Exchanged(i, j)
<1>1. \A w \in Workers : wpc[w] # "writeb" /\ wpc' = wpc
  BY ShopIsShut DEF SigShuffle, workerVars
<1>2. \A s \in Polki : InExchange(s) = {} /\ InExchange(s)' = {}
  BY <1>1 DEF InExchange
<1>3. ASSUME NEW s \in Polki PROVE Goods'[s] = Exchanged(i, j)[s]
  <2>1. polki'[s] = [polki EXCEPT ![i] = polki[j], ![j] = polki[i]][s]
    BY DEF SigShuffle
  <2>2. Goods'[s] = polki'[s] /\ \A r \in Polki : Goods[r] = polki[r]
    BY <1>2, GoodsAt, GoodsAtNext
  <2>3. i \in Polki
    BY DEF TypeOK
  <2> QED  BY <2>1, <2>2, <2>3, GoodsIsFunction DEF Exchanged, TypeOK
<1> QED  BY <1>3, GoodsIsFunction DEF Exchanged

\* What a step does to the goods, and to the signal thread's place at its shuffle.
LEMMA GoodsStep ==
    ASSUME TypeOK, Places, LockInv, ReadsInv, [Next]_vars
    PROVE  \/ Goods' = Goods /\ (sigpc' = "shuffle" <=> sigpc = "shuffle")
           \/ Goods' = Goods /\ sigpc = "lock" /\ sigpc' = "shuffle"
           \/ \E w \in Workers : WriteA(w)
           \/ \E j \in Polki : SigShuffle(j)
<1> DEFINE Still == Goods' = Goods /\ (sigpc' = "shuffle" <=> sigpc = "shuffle")
<1> USE DEF locks, workerVars, signalVars, GotoW, TypeOK
<1>1. ASSUME NEW w \in Workers, Finish(w) PROVE Still
  BY <1>1, QuietKeepsGoods DEF Finish, SeesStop
<1>2. ASSUME NEW w \in Workers, NEW x \in Polki, NEW y \in Polki, Pick(w, x, y) PROVE Still
  BY <1>2, QuietKeepsGoods DEF Pick, SeesStop, Ordered
<1>3. ASSUME NEW w \in Workers, LockA(w) PROVE Still
  BY <1>3, QuietKeepsGoods DEF LockA
<1>4. ASSUME NEW w \in Workers, LockB(w) PROVE Still
  BY <1>4, QuietKeepsGoods DEF LockB
<1>5. ASSUME NEW w \in Workers, Compare(w) PROVE Still
  BY <1>5, QuietKeepsGoods DEF Compare
<1>6. ASSUME NEW w \in Workers, WriteB(w) PROVE Still
  <2>1. sigpc' = sigpc
    BY <1>6 DEF WriteB
  <2> QED  BY ONLY <1>6, <2>1, TypeOK, Places, LockInv, SecondStore
<1>7. ASSUME NEW w \in Workers, UnlockA(w) PROVE Still
  BY <1>7, QuietKeepsGoods DEF UnlockA
<1>8. ASSUME NEW w \in Workers, UnlockB(w) PROVE Still
  BY <1>8, QuietKeepsGoods DEF UnlockB
<1>9. ASSUME NEW w \in Workers, Create(w) PROVE Still
  BY <1>9, QuietKeepsGoods DEF Create
<1>10. ASSUME SigStart PROVE Still
  BY <1>10, QuietKeepsGoods DEF SigStart
<1>11. ASSUME NEW s \in Signals, Sigwait(s) PROVE Still
  BY <1>11, QuietKeepsGoods DEF Sigwait
<1>12. ASSUME SigLock(Sig) PROVE Still \/ (Goods' = Goods /\ sigpc = "lock" /\ sigpc' = "shuffle")
  BY <1>12, QuietKeepsGoods DEF SigLock, Turn
<1>13. ASSUME SigPrint PROVE Still
  BY <1>13, QuietKeepsGoods DEF SigPrint
<1>14. ASSUME SigUnlock PROVE Still
  BY <1>14, QuietKeepsGoods DEF SigUnlock, Turn
<1>15. ASSUME SigLockStop PROVE Still
  BY <1>15, QuietKeepsGoods DEF SigLockStop
<1>16. ASSUME SigSetStop PROVE Still
  BY <1>16, QuietKeepsGoods DEF SigSetStop
<1>17. ASSUME SigUnlockStop PROVE Still
  BY <1>17, QuietKeepsGoods DEF SigUnlockStop
<1>18. ASSUME Poll PROVE Still
  BY <1>18, QuietKeepsGoods DEF Poll
<1>19. ASSUME JoinWorkers PROVE Still
  BY <1>19, QuietKeepsGoods DEF JoinWorkers
<1>20. ASSUME MainPrint PROVE Still
  BY <1>20, QuietKeepsGoods DEF MainPrint
<1>21. ASSUME MainFree PROVE Still
  BY <1>21, QuietKeepsGoods DEF MainFree
<1>22. ASSUME TimerExpires PROVE Still
  BY <1>22, QuietKeepsGoods DEF TimerExpires
<1>23. ASSUME SendUsr1 PROVE Still
  BY <1>23, QuietKeepsGoods DEF SendUsr1
<1>24. ASSUME SendInt PROVE Still
  BY <1>24, QuietKeepsGoods DEF SendInt
<1>25. CASE UNCHANGED vars
  BY <1>25, QuietKeepsGoods DEF vars
<1> QED
  BY ONLY <1>1, <1>2, <1>3, <1>4, <1>5, <1>6, <1>7, <1>8, <1>9, <1>10, <1>11, <1>12,
     <1>13, <1>14, <1>15, <1>16, <1>17, <1>18, <1>19, <1>20, <1>21, <1>22, <1>23,
     <1>24, <1>25, [Next]_vars, NextCases

\* Every step is a step of Shelves or leaves it as it is.
LEMMA PromiseStep ==
    ASSUME TypeOK, Places, LockInv, ReadsInv, [Next]_vars
    PROVE  [Promise!Next]_(Promise!vars)
<1>1. CASE Goods' = Goods /\ (sigpc' = "shuffle" <=> sigpc = "shuffle")
  BY <1>1 DEF Promise!vars
<1>2. CASE Goods' = Goods /\ sigpc = "lock" /\ sigpc' = "shuffle"
  BY <1>2 DEF Promise!Next, Promise!StartShuffle
<1>3. ASSUME NEW w \in Workers, WriteA(w) PROVE Promise!Next
  <2>1. /\ Goods' = Exchanged(a[w], b[w]) /\ a[w] < b[w] /\ Goods[a[w]] > Goods[b[w]]
        /\ sigpc # "shuffle"
    BY <1>3, FirstStore
  <2>2. sigpc' = sigpc /\ a[w] \in Polki /\ b[w] \in Polki
    BY <1>3 DEF WriteA, signalVars, TypeOK
  <2>3. Promise!Sort(a[w], b[w])
    BY <2>1, <2>2 DEF Promise!Sort, Promise!Exchanged, Exchanged
  <2> QED  BY <2>2, <2>3 DEF Promise!Next
<1>4. ASSUME NEW j \in Polki, SigShuffle(j) PROVE Promise!Next
  <2>1. Goods' = Exchanged(i, j) /\ sigpc = "shuffle" /\ i \in Polki
    BY <1>4, ShuffleExchanges DEF SigShuffle, TypeOK
  <2>2. Promise!Exchange(i, j)
    BY <2>1 DEF Promise!Exchange, Promise!Exchanged, Exchanged
  <2> QED  BY <2>1, <2>2 DEF Promise!Next
<1> QED  BY <1>1, <1>2, <1>3, <1>4, GoodsStep

\* Nothing is lost or doubled when goods change places.
LEMMA GoodsInvStep ==
    ASSUME TypeOK, Places, LockInv, ReadsInv, GoodsInv, [Next]_vars
    PROVE  GoodsInv'
<1>1. ASSUME NEW x \in Polki, NEW y \in Polki, Goods' = Exchanged(x, y) PROVE GoodsInv'
  <2>1. ASSUME NEW r \in Polki, NEW s \in Polki, Goods'[r] = Goods'[s] PROVE r = s
    <3>1. \A q \in Polki : Goods'[q] = IF q = y THEN Goods[x] ELSE IF q = x THEN Goods[y] ELSE Goods[q]
      BY <1>1, GoodsIsFunction DEF Exchanged
    <3>2. \A q, t \in Polki : Goods[q] = Goods[t] => q = t
      BY DEF GoodsInv, Injective
    <3> QED  BY ONLY <2>1, <3>1, <3>2, x \in Polki, y \in Polki
  <2> QED  BY <2>1 DEF GoodsInv, Injective
<1>2. ASSUME Goods' = Goods PROVE GoodsInv'
  BY <1>2 DEF GoodsInv, Injective
<1>3. ASSUME NEW w \in Workers, WriteA(w) PROVE GoodsInv'
  BY <1>1, <1>3, FirstStore DEF TypeOK
<1>4. ASSUME NEW j \in Polki, SigShuffle(j) PROVE GoodsInv'
  BY <1>1, <1>4, ShuffleExchanges DEF TypeOK
<1> QED  BY <1>2, <1>3, <1>4, GoodsStep

\* Two workers at work have no shelf in common.
LEMMA ApartAtWork ==
    ASSUME TypeOK, Places, LockInv, NEW v \in Workers, NEW w \in Workers, v # w,
           wpc[v] \in {"compare", "writea", "writeb"}, wpc[w] \in {"compare", "writea", "writeb"}
    PROVE  a[v] \notin {a[w], b[w]} /\ b[v] \notin {a[w], b[w]}
<1>1. /\ {a[v], b[v]} \subseteq HeldBy(v) /\ {a[w], b[w]} \subseteq HeldBy(w)
      /\ {a[v], b[v], a[w], b[w]} \subseteq Polki
  BY AtWork DEF TypeOK
<1>2. \A s \in Polki : s \in HeldBy(v) => s \notin HeldBy(w)
  BY OneHolder, ThreadsAssumption DEF Threads, Holds
<1> QED  BY ONLY <1>1, <1>2

\* What a worker at work has read stays true: nobody else stores on its shelves.
LEMMA ReadsStep ==
    ASSUME TypeOK, Places, LockInv, ReadsInv, [Next]_vars
    PROVE  ReadsInv'
<1> USE DEF locks, workerVars, signalVars, GotoW, TypeOK, ReadsInv
<1>1. ASSUME NEW w \in Workers, Finish(w) PROVE ReadsInv'
  BY <1>1 DEF Finish, SeesStop
<1>2. ASSUME NEW w \in Workers, NEW x \in Polki, NEW y \in Polki, Pick(w, x, y) PROVE ReadsInv'
  BY <1>2 DEF Pick, SeesStop, Ordered
<1>3. ASSUME NEW w \in Workers, LockA(w) PROVE ReadsInv'
  BY <1>3 DEF LockA
<1>4. ASSUME NEW w \in Workers, LockB(w) PROVE ReadsInv'
  BY <1>4 DEF LockB
<1>5. ASSUME NEW w \in Workers, Compare(w) PROVE ReadsInv'
  BY <1>5 DEF Compare
<1>6. ASSUME NEW w \in Workers, WriteA(w) PROVE ReadsInv'
  <2>1. /\ wpc[w] = "writea" /\ a[w] # b[w] /\ valb[w] = polki[b[w]]
        /\ a[w] \in Polki /\ b[w] \in Polki
    BY <1>6, AtWork DEF WriteA
  <2>2. ASSUME NEW v \in Workers, v # w, wpc[v] \in {"writea", "writeb"}
        PROVE  polki'[a[v]] = polki[a[v]] /\ polki'[b[v]] = polki[b[v]]
    BY <1>6, <2>1, <2>2, ApartAtWork DEF WriteA
  <2>3. polki'[a[w]] = valb[w] /\ polki'[b[w]] = polki[b[w]]
    BY <1>6, <2>1 DEF WriteA
  <2> QED  BY <1>6, <2>1, <2>2, <2>3 DEF WriteA
<1>7. ASSUME NEW w \in Workers, WriteB(w) PROVE ReadsInv'
  <2>1. wpc[w] = "writeb"
    BY <1>7 DEF WriteB
  <2>2. ASSUME NEW v \in Workers, v # w, wpc[v] \in {"writea", "writeb"}
        PROVE  polki'[a[v]] = polki[a[v]] /\ polki'[b[v]] = polki[b[v]]
    BY <1>7, <2>1, <2>2, ApartAtWork DEF WriteB
  <2> QED  BY <1>7, <2>1, <2>2 DEF WriteB
<1>8. ASSUME NEW w \in Workers, UnlockA(w) PROVE ReadsInv'
  BY <1>8 DEF UnlockA
<1>9. ASSUME NEW w \in Workers, UnlockB(w) PROVE ReadsInv'
  BY <1>9 DEF UnlockB
<1>10. ASSUME NEW w \in Workers, Create(w) PROVE ReadsInv'
  BY <1>10 DEF Create
<1>11. ASSUME SigStart PROVE ReadsInv'
  BY <1>11 DEF SigStart
<1>12. ASSUME NEW s \in Signals, Sigwait(s) PROVE ReadsInv'
  BY <1>12 DEF Sigwait
<1>13. ASSUME SigLock(Sig) PROVE ReadsInv'
  BY <1>13 DEF SigLock, Turn
<1>14. ASSUME SigPrint PROVE ReadsInv'
  BY <1>14 DEF SigPrint
<1>15. ASSUME NEW j \in Polki, SigShuffle(j) PROVE ReadsInv'
  <2>1. \A v \in Workers : wpc'[v] \notin {"writea", "writeb"}
    BY <1>15, ShopIsShut DEF SigShuffle
  <2> QED  BY <2>1
<1>16. ASSUME SigUnlock PROVE ReadsInv'
  BY <1>16 DEF SigUnlock, Turn
<1>17. ASSUME SigLockStop PROVE ReadsInv'
  BY <1>17 DEF SigLockStop
<1>18. ASSUME SigSetStop PROVE ReadsInv'
  BY <1>18 DEF SigSetStop
<1>19. ASSUME SigUnlockStop PROVE ReadsInv'
  BY <1>19 DEF SigUnlockStop
<1>20. ASSUME Poll PROVE ReadsInv'
  BY <1>20 DEF Poll
<1>21. ASSUME JoinWorkers PROVE ReadsInv'
  BY <1>21 DEF JoinWorkers
<1>22. ASSUME MainPrint PROVE ReadsInv'
  BY <1>22 DEF MainPrint
<1>23. ASSUME MainFree PROVE ReadsInv'
  BY <1>23 DEF MainFree
<1>24. ASSUME TimerExpires PROVE ReadsInv'
  BY <1>24 DEF TimerExpires
<1>25. ASSUME SendUsr1 PROVE ReadsInv'
  BY <1>25 DEF SendUsr1
<1>26. ASSUME SendInt PROVE ReadsInv'
  BY <1>26 DEF SendInt
<1>27. CASE UNCHANGED vars
  BY <1>27 DEF vars
<1> QED
  BY <1>1, <1>2, <1>3, <1>4, <1>5, <1>6, <1>7, <1>8, <1>9, <1>10, <1>11, <1>12,
     <1>13, <1>14, <1>15, <1>16, <1>17, <1>18, <1>19, <1>20, <1>21, <1>22, <1>23,
     <1>24, <1>25, <1>26, <1>27, NextCases

\* IInv holds at the start.
LEMMA InitIInv ==
    ASSUME Init
    PROVE  IInv
<1> USE DEF Init
<1>1. TypeOK
  <2>1. /\ a \in [Workers -> Polki] /\ b \in [Workers -> Polki] /\ i \in Polki
        /\ vala \in [Workers -> Polki] /\ valb \in [Workers -> Polki]
    BY ShelfFacts
  <2>2. mx_polki \in [Polki -> {{}} \cup {{t} : t \in Workers \cup {Sig}}]
    OBVIOUS
  <2>3. 0 \in 0 .. MaxShuffles
    BY ShufflesAssumption
  <2> QED  BY <2>1, <2>2, <2>3 DEF TypeOK, Signals
<1>2. Places /\ StopInv /\ ReadsInv
  BY DEF Places, StopInv, ReadsInv
<1>3. LockInv
  <2>1. SigHolds = {} /\ \A w \in Workers : HeldBy(w) = {}
    BY DEF SigHolds, HeldBy
  <2> QED  BY <2>1 DEF LockInv
<1>4. Goods = polki
  <2>1. \A s \in Polki : InExchange(s) = {}
    BY DEF InExchange
  <2> QED  BY <2>1, GoodsAt, GoodsIsFunction
<1> QED  BY <1>1, <1>2, <1>3, <1>4 DEF IInv, GoodsInv, Injective

\* IInv is inductive.
THEOREM Inductive == Spec => []IInv
<1>1. Init => IInv
  BY InitIInv
<1>2. IInv /\ [Next]_vars => IInv'
  BY TypeStep, PlacesStep, LockStep, StopStep, ReadsStep, GoodsInvStep DEF IInv
<1> QED  BY <1>1, <1>2, PTL DEF Spec

\* What is printed is a full inventory, and the shuffle meets no worker: both hold
\* every mutex (signal_routine), and the last print follows the joins (main).
THEOREM PrintsWholeInventory == Spec => []WholeInventory
<1>1. IInv => WholeInventory
  <2> SUFFICES ASSUME IInv PROVE WholeInventory
    OBVIOUS
  <2> USE DEF IInv
  <2>1. ASSUME \A w \in Workers : wpc[w] # "writeb" PROVE Injective(polki)
    <3>1. \A s \in Polki : InExchange(s) = {}
      BY <2>1 DEF InExchange
    <3>2. Goods = polki
      BY <3>1, GoodsAt, GoodsIsFunction DEF TypeOK
    <3> QED  BY <3>2 DEF GoodsInv
  <2>2. sigpc \in {"print", "shuffle"} \/ mainpc = "print" =>
            \A w \in Workers : wpc[w] \notin {"compare", "writea", "writeb"}
    BY ShopIsShut DEF StopInv
  <2> QED  BY <2>1, <2>2 DEF WholeInventory
<1> QED  BY <1>1, Inductive, PTL

\* Nobody uses what main frees, although it never joins the signal thread: it
\* gets to free() only past stop, which that thread sets as good as last.
THEOREM FreesTheUnused == Spec => []NothingUsedAfterFree
<1>1. IInv => NothingUsedAfterFree
  <2> SUFFICES ASSUME IInv, mainpc \in {"free", "bye"} PROVE NothingUsedAfterFree
    BY DEF NothingUsedAfterFree
  <2>1. sigpc = "gone" /\ \A w \in Workers : wpc[w] = "done"
    BY DEF IInv, StopInv
  <2>2. mx_stop = {}
    BY <2>1 DEF IInv, StopInv, TypeOK
  <2>3. SigHolds = {} /\ \A w \in Workers : HeldBy(w) = {}
    BY <2>1 DEF SigHolds, HeldBy
  <2>4. \A s \in Polki : mx_polki[s] = {}
    <3>1. ASSUME NEW s \in Polki PROVE \A t \in Workers \cup {Sig} : mx_polki[s] # {t}
      BY <2>3 DEF IInv, LockInv
    <3>2. \A s \in Polki : mx_polki[s] \in {{}} \cup {{t} : t \in Workers \cup {Sig}}
      BY DEF IInv, TypeOK
    <3> QED  BY <3>1, <3>2
  <2> QED  BY <2>1, <2>2, <2>4 DEF NothingUsedAfterFree
<1> QED  BY <1>1, Inductive, PTL

\* Of the shelves that are held one is the highest.
LEMMA HighestShelf ==
    ASSUME NEW S \in SUBSET Polki, S # {}
    PROVE  \E s \in S : \A r \in S : r <= s
<1> DEFINE R == OpToRel(<, Nat)
           T == {n - s : s \in S}
<1>1. IsWellFoundedOn(R, Nat)
  BY NatLessThanWellFounded
<1>2. T \subseteq Nat /\ T # {}
  <2>1. ASSUME NEW s \in S PROVE n - s \in Nat
    BY nAssumption DEF Polki
  <2> QED  BY <2>1
<1>3. PICK x \in T : \A y \in T : <<y, x>> \notin R
  <2> HIDE DEF R, T
  <2> QED  BY <1>1, <1>2, WFMin
<1>4. \A y \in T : ~(y < x)
  BY <1>2, <1>3 DEF OpToRel
<1>5. PICK s \in S : x = n - s
  OBVIOUS
<1>6. ASSUME NEW r \in S PROVE r <= s
  <2>1. ~(n - r < n - s)
    BY <1>4, <1>5
  <2>2. n \in Int /\ r \in Int /\ s \in Int
    BY nAssumption DEF Polki
  <2> QED  BY <2>1, <2>2
<1> QED  BY <1>6

\* The threads never wait for each other in a circle: whoever holds the highest
\* of the held shelves waits for none, as every thread locks upwards
\* (worker_work, signal_routine).
THEOREM NobodyWaitsInACircle == Spec => []NoCircle
<1>1. IInv => NoCircle
  <2> SUFFICES ASSUME IInv, NEW q \in Polki, mx_polki[q] # {}, ~NoCircle PROVE FALSE
    BY DEF NoCircle
  <2> DEFINE held == {s \in Polki : mx_polki[s] # {}}
  <2>1. PICK s \in held : \A r \in held : r <= s
    <3>1. held \in SUBSET Polki /\ held # {}
      OBVIOUS
    <3> HIDE DEF held
    <3> QED  BY <3>1, HighestShelf
  <2>2. ~ \E r \in held : s < r
    BY <2>1, ShelfFacts
  <2>3. \/ \E w \in Workers : s \in HeldBy(w)
        \/ s \in SigHolds
    BY DEF IInv, LockInv, TypeOK
  <2>4. ASSUME NEW w \in Workers, s \in HeldBy(w) PROVE FALSE
    <3>1. wpc[w] = "lockb" /\ s = a[w] /\ mx_polki[b[w]] # {}
      BY <2>4 DEF HeldBy, NoCircle, CanGoOn
    <3>2. a[w] < b[w] /\ b[w] \in Polki
      BY <3>1 DEF IInv, TypeOK, Places
    <3> QED  BY <2>2, <3>1, <3>2
  <2>5. ASSUME s \in SigHolds PROVE FALSE
    <3>1. sigpc = "lock" /\ s < i /\ mx_polki[i] # {}
      BY <2>5 DEF SigHolds, NoCircle
    <3>2. i \in Polki
      BY DEF IInv, TypeOK
    <3> QED  BY <2>2, <3>1, <3>2
  <2> QED  BY <2>3, <2>4, <2>5
<1> QED  BY <1>1, Inductive, PTL

\* The program implements Shelves: goods only ever change places in pairs that
\* stood in the wrong order, or in the shuffle.
THEOREM ImplementsShelves == Spec => PromiseKept
<1>1. Init => Promise!Init
  <2> SUFFICES ASSUME Init PROVE Promise!Init
    OBVIOUS
  <2>1. Goods = polki
    <3>1. \A s \in Polki : InExchange(s) = {}
      BY DEF Init, InExchange
    <3> QED  BY <3>1, GoodsAt, GoodsIsFunction DEF Init
  <2> QED  BY <2>1 DEF Init, Promise!Init, Injective
<1>2. IInv /\ [Next]_vars => [Promise!Next]_(Promise!vars)
  BY PromiseStep DEF IInv
<1> QED  BY <1>1, <1>2, Inductive, PTL DEF Spec, PromiseKept, Promise!Spec
=============================================================================
