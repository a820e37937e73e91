------------------------ MODULE IntegralCalc_proofs ------------------------
(***************************************************************************)
(* Theorems about IntegralCalc for any number of processes, of batches, of *)
(* blocks and of kills.  IInv is the inductive invariant.  It says who can *)
(* be inside a block's section, as long as nobody locked the block while   *)
(* it was being initialised, that a loaded value is then current, that     *)
(* the initialiser zeroes what is still zero, and that processes_count is  *)
(* no lower than the number of processes that count on it.                 *)
(***************************************************************************)
EXTENDS IntegralCalc, FiniteSetTheorems, TLAPS

Zeros == [k \in Cells |-> 0]

\* A process has mapped a block before it does anything to it, it works on the
\* counter its job calls for, and its job is 0 until it has joined.
Places ==
    \A p \in Procs :
        /\ pc[p] # "open" => block[p] \in Blocks
        /\ pc[p] \in {"open", "trywait"} \cup SetUp => job[p] = 0
        /\ pc[p] \in {"load", "store"} =>
              IF job[p] \in 1 .. Rounds THEN cell[p] \in {"los", "traf"}
                                        ELSE cell[p] = "processes_count"

\* Before the first sem_trywait nothing has happened; one process at most
\* initialises.
FirstInv ==
    /\ sem = 1 => /\ \A p \in Procs : pc[p] \in {"open", "trywait", "killed"}
                  /\ \A o \in Blocks : ctrl[o] = Zeros
    /\ \A p, q \in Procs : pc[p] \in SetUp /\ pc[q] \in SetUp => p = q

\* Between lock and unlock.
Section == {"load", "store", "unlock", "lastunlock"}

\* The initialiser meets nobody inside the block, and all counters zero.
SetUpInv ==
    \A q \in Procs : pc[q] \in SetUp /\ block[q] \notin raced =>
        /\ ctrl[block[q]] = Zeros
        /\ \A p \in Procs : pc[p] \in Section => block[p] # block[q]

\* A process inside the section owns the mutex of its block.
OwnerInv ==
    \A p \in Procs : pc[p] \in Section /\ block[p] \notin raced =>
        mutex[block[p]].holder = {p}

\* The counters are exact, a loaded value is current, and whoever has found
\* processes_count at zero is right as long as it holds the mutex.
ExactInv ==
    /\ \A o \in Blocks \ raced : ctrl[o] = added[o]
    /\ \A p \in Procs : pc[p] = "store" /\ block[p] \notin raced =>
          reg[p] = ctrl[block[p]][cell[p]]
    /\ \A p \in Procs : pc[p] = "lastunlock" /\ block[p] \notin raced =>
          ctrl[block[p]]["processes_count"] = 0

\* Nobody is inside a block that does not count on it.
Insiders(o) == {q \in Procs : block[q] = o /\ Inside(q)}
InsideInv ==
    \A o \in Blocks \ raced : ctrl[o]["processes_count"] >= Cardinality(Insiders(o))

IInv ==
    /\ TypeOK /\ Places /\ FirstInv /\ SetUpInv /\ OwnerInv /\ ExactInv /\ InsideInv

\* Next by its actions.
LEMMA NextCases ==
    ASSUME Next
    PROVE  \E p \in Procs :
              \/ Open(p) \/ Trywait(p) \/ InitMutex(p) \/ ZeroLos(p) \/ ZeroTraf(p)
              \/ Lock(p) \/ Block(p) \/ LockFails(p) \/ Load(p) \/ Store(p)
              \/ Unlock(p) \/ LastUnlock(p) \/ Destroy(p) \/ Unlink(p) \/ Kill(p)
BY DEF Next, Step

\* A store adds some d to the counter and to its history, and goes on as the
\* counter and the job say.
LEMMA StoreEffect ==
    ASSUME TypeOK, Places, NEW p \in Procs, Store(p)
    PROVE  \E d \in Int : \E place \in {"load", "unlock", "lastunlock"} :
        /\ ctrl' = [ctrl EXCEPT ![block[p]][cell[p]] = reg[p] + d]
        /\ added' = [added EXCEPT ![block[p]][cell[p]] = @ + d]
        /\ pc' = [pc EXCEPT ![p] = place]
        /\ cell' = [cell EXCEPT ![p] = IF @ = "los" THEN "traf" ELSE @]
        /\ place = "load" <=> cell[p] = "los"
        /\ place = "lastunlock" => job[p] = Leaving /\ reg[p] + d = 0
        /\ cell[p] = "processes_count" => d = IF job[p] = Leaving THEN -1 ELSE 1
<1>1. cell[p] \in Cells /\ job[p] \in 0 .. Leaving /\ reg[p] \in Int
      /\ (cell[p] # "processes_count" => job[p] # Leaving)
  BY RoundsAssumption DEF TypeOK, Places, Store, Leaving
<1>2. PICK d \in Additions(p) :
        /\ ctrl' = [ctrl EXCEPT ![block[p]][cell[p]] = reg[p] + d]
        /\ added' = [added EXCEPT ![block[p]][cell[p]] = @ + d]
        /\ Goto(p, AfterStore(p, reg[p] + d))
  BY DEF Store
<1>3. d \in Int /\ (cell[p] = "processes_count" => d = IF job[p] = Leaving THEN -1 ELSE 1)
  BY <1>1 DEF Additions, Cells
<1> DEFINE place == AfterStore(p, reg[p] + d)
<1>4. /\ place \in {"load", "unlock", "lastunlock"}
      /\ place = "load" <=> cell[p] = "los"
      /\ place = "lastunlock" => job[p] = Leaving /\ reg[p] + d = 0
  BY <1>1, <1>3 DEF AfterStore, NobodyLeft, Cells
<1>5. cell' = [cell EXCEPT ![p] = IF @ = "los" THEN "traf" ELSE @]
  BY DEF Store
<1> QED  BY <1>2, <1>3, <1>4, <1>5 DEF Goto

\* The lock lets one in, unless it kills the caller.
LEMMA LockEffect ==
    ASSUME TypeOK, Places, NEW p \in Procs, Lock(p)
    PROVE  \/ /\ pc' = [pc EXCEPT ![p] = "failed"]
              /\ UNCHANGED <<mutex, cell, raced>>
           \/ \E m \in MutexType(Procs) :
              /\ m.holder = {p}
              /\ mutex[block[p]].holder = {}
              /\ mutex' = [mutex EXCEPT ![block[p]] = m]
              /\ raced' = IF \E q \in Procs : pc[q] \in SetUp /\ block[q] = block[p]
                          THEN raced \cup {block[p]} ELSE raced
              /\ cell' = [cell EXCEPT ![p] =
                             IF job[p] \in 1 .. Rounds THEN "los" ELSE "processes_count"]
              /\ pc' = [pc EXCEPT ![p] = "load"]
<1> DEFINE o == block[p]
<1>1. o \in Blocks
  BY DEF Places, Lock
<1>2. mutex[o] \in MutexType(Procs)
  BY <1>1 DEF TypeOK
<1>3. CASE LockResult(mutex[o]) = "ENOTRECOVERABLE"
  BY <1>3 DEF Lock, Goto
<1>4. CASE LockResult(mutex[o]) # "ENOTRECOVERABLE"
  <2> DEFINE m == MadeConsistent(Acquired(mutex[o], p))
  <2>1. m \in MutexType(Procs) /\ m.holder = {p}
    BY <1>2 DEF Acquired, MadeConsistent, MutexType
  <2>2. mutex[o].holder = {}
    BY DEF Lock, Lockable
  <2>3. /\ mutex' = [mutex EXCEPT ![o] = m]
        /\ raced' = IF \E q \in Procs : pc[q] \in SetUp /\ block[q] = o
                    THEN raced \cup {o} ELSE raced
        /\ cell' = [cell EXCEPT ![p] =
                       IF job[p] \in 1 .. Rounds THEN "los" ELSE "processes_count"]
        /\ pc' = [pc EXCEPT ![p] = "load"]
    BY <1>4 DEF Lock, Goto
  <2> HIDE DEF m
  <2> QED  BY <2>1, <2>2, <2>3
<1> QED  BY <1>3, <1>4

\* The unlock frees at most the mutex of p's own block, and only from p.
LEMMA UnlockEffect ==
    ASSUME TypeOK, Places, NEW p \in Procs, block[p] \in Blocks
    PROVE  /\ Unlocked(p) \in [Blocks -> MutexType(Procs)]
           /\ \A o \in Blocks : o # block[p] => Unlocked(p)[o] = mutex[o]
<1>1. Released(mutex[block[p]]) \in MutexType(Procs)
  BY DEF TypeOK, Released, MutexType
<1> QED  BY <1>1 DEF Unlocked, TypeOK

\* A death touches no mutex but those of the dead.
LEMMA KillEffect ==
    ASSUME TypeOK, NEW p \in Procs, Kill(p)
    PROVE  /\ mutex' \in [Blocks -> MutexType(Procs)]
           /\ \A o \in Blocks : mutex[o].holder # {p} => mutex'[o] = mutex[o]
<1>1. \A o \in Blocks : mutex[o] \in MutexType(Procs)
  BY DEF TypeOK
<1>2. \A o \in Blocks : /\ AfterDeath(mutex[o], p) \in MutexType(Procs)
                        /\ mutex[o].holder # {p} => AfterDeath(mutex[o], p) = mutex[o]
  BY <1>1 DEF AfterDeath, MutexType
<1> QED  BY <1>1, <1>2 DEF Kill

\* With nobody new inside and no change to processes_count the balance stays.
LEMMA NoNewcomers ==
    ASSUME TypeOK, InsideInv, raced \subseteq raced',
           \A o \in Blocks \ raced' : ctrl'[o]["processes_count"] = ctrl[o]["processes_count"],
           \A q \in Procs : Inside(q)' => Inside(q) /\ block'[q] = block[q]
    PROVE  InsideInv'
<1> SUFFICES ASSUME NEW o \in Blocks \ raced'
             PROVE  ctrl'[o]["processes_count"] >= Cardinality(Insiders(o)')
  BY DEF InsideInv, Blocks
<1>1. Insiders(o)' \subseteq Insiders(o) /\ Insiders(o) \subseteq Procs
  BY DEF Insiders
<1>2. IsFiniteSet(Insiders(o)) /\ IsFiniteSet(Insiders(o)')
  BY ONLY <1>1, ProcsAssumption, FS_Subset
<1>3. Cardinality(Insiders(o)') <= Cardinality(Insiders(o))
  BY ONLY <1>1, <1>2, FS_Subset
<1>4. Cardinality(Insiders(o)') \in Nat /\ Cardinality(Insiders(o)) \in Nat
  BY ONLY <1>2, FS_CardinalityType
<1>5. ctrl[o]["processes_count"] >= Cardinality(Insiders(o)) /\ ctrl[o]["processes_count"] \in Int
  BY DEF InsideInv, TypeOK, Cells
<1> QED  BY <1>3, <1>4, <1>5

\* Two processes are not inside the same block.
LEMMA Alone ==
    ASSUME OwnerInv, NEW p \in Procs, pc[p] \in Section
    PROVE  \A q \in Procs : q # p /\ pc[q] \in Section /\ block[q] \notin raced =>
               block[q] # block[p]
<1>1. \A q \in Procs : q # p => {q} # {p}
  OBVIOUS
<1> QED  BY <1>1 DEF OwnerInv

\* The types are preserved.
LEMMA TypeStep ==
    ASSUME TypeOK, Places, [Next]_vars
    PROVE  TypeOK'
<1> USE RoundsAssumption, BoundsAssumption DEF names, own, history, Goto, TypeOK, SetUp, Fates, Places
<1>1. ASSUME NEW p \in Procs, Open(p) PROVE TypeOK'
  BY <1>1 DEF Open
<1>2. ASSUME NEW p \in Procs, Trywait(p) PROVE TypeOK'
  BY <1>2 DEF Trywait
<1>3. ASSUME NEW p \in Procs, InitMutex(p) PROVE TypeOK'
  <2>1. mutex' \in [Blocks -> MutexType(Procs)]
    BY <1>3 DEF InitMutex, FreshMutex, MutexType
  <2> QED  BY <1>3, <2>1 DEF InitMutex
<1>4. ASSUME NEW p \in Procs, ZeroLos(p) PROVE TypeOK'
  <2>1. block[p] \in Blocks
    BY <1>4 DEF ZeroLos
  <2>2. ctrl' \in [Blocks -> [Cells -> Int]]
    BY <1>4, <2>1 DEF ZeroLos, Cells
  <2> QED  BY <1>4, <2>2 DEF ZeroLos
<1>5. ASSUME NEW p \in Procs, ZeroTraf(p) PROVE TypeOK'
  <2>1. block[p] \in Blocks
    BY <1>5 DEF ZeroTraf
  <2>2. ctrl' \in [Blocks -> [Cells -> Int]]
    BY <1>5, <2>1 DEF ZeroTraf, Cells
  <2> QED  BY <1>5, <2>2 DEF ZeroTraf
<1>6. ASSUME NEW p \in Procs, Lock(p) PROVE TypeOK'
  <2>1. block[p] \in Blocks
    BY <1>6 DEF Lock
  <2>2. /\ mutex' \in [Blocks -> MutexType(Procs)]
        /\ raced' \subseteq Blocks
        /\ cell' \in [Procs -> Cells]
    <3>1. CASE UNCHANGED <<mutex, cell, raced>>
      BY <3>1
    <3>2. ASSUME NEW m \in MutexType(Procs), mutex' = [mutex EXCEPT ![block[p]] = m],
                 raced' = IF \E q \in Procs : pc[q] \in SetUp /\ block[q] = block[p]
                          THEN raced \cup {block[p]} ELSE raced,
                 cell' = [cell EXCEPT ![p] =
                             IF job[p] \in 1 .. Rounds THEN "los" ELSE "processes_count"]
          PROVE  /\ mutex' \in [Blocks -> MutexType(Procs)]
                 /\ raced' \subseteq Blocks
                 /\ cell' \in [Procs -> Cells]
      BY <2>1, <3>2 DEF Cells
    <3> QED  BY <1>6, LockEffect, <3>1, <3>2
  <2>3. \E place \in {"load", "failed"} : pc' = [pc EXCEPT ![p] = place]
    BY <1>6, LockEffect
  <2> QED  BY <1>6, <2>2, <2>3 DEF Lock
<1>7. ASSUME NEW p \in Procs, Block(p) PROVE TypeOK'
  BY <1>7 DEF Block
<1>8. ASSUME NEW p \in Procs, LockFails(p) PROVE TypeOK'
  BY <1>8 DEF LockFails
<1>9. ASSUME NEW p \in Procs, Load(p) PROVE TypeOK'
  BY <1>9 DEF Load
<1>10. ASSUME NEW p \in Procs, Store(p) PROVE TypeOK'
  <2>1. block[p] \in Blocks /\ cell[p] \in Cells
    BY <1>10 DEF Store
  <2>2. PICK d \in Int, place \in {"load", "unlock", "lastunlock"} :
        /\ ctrl' = [ctrl EXCEPT ![block[p]][cell[p]] = reg[p] + d]
        /\ added' = [added EXCEPT ![block[p]][cell[p]] = @ + d]
        /\ pc' = [pc EXCEPT ![p] = place]
        /\ cell' = [cell EXCEPT ![p] = IF @ = "los" THEN "traf" ELSE @]
    BY ONLY <1>10, TypeOK, Places, StoreEffect, SMTT(30)
  <2>3. ctrl' \in [Blocks -> [Cells -> Int]]
    BY <2>1, <2>2
  <2>4. added' \in [Blocks -> [Cells -> Int]]
    BY <2>1, <2>2
  <2>5. cell' \in [Procs -> Cells]
    BY <2>2 DEF Cells
  <2> QED  BY <1>10, <2>2, <2>3, <2>4, <2>5 DEF Store
<1>11. ASSUME NEW p \in Procs, Unlock(p) PROVE TypeOK'
  <2>1. mutex' \in [Blocks -> MutexType(Procs)]
    BY <1>11, UnlockEffect DEF Unlock
  <2>2. job' \in [Procs -> 0 .. Leaving]
    <3>1. job[p] \in Nat /\ (job[p] # Leaving => job[p] + 1 \in 0 .. Leaving)
      <4>1. job[p] \in 0 .. Leaving /\ Leaving \in Nat
        BY DEF Leaving
      <4> QED  BY ONLY <4>1
    <3> QED  BY <1>11, <3>1 DEF Unlock
  <2> QED  BY <1>11, <2>1, <2>2 DEF Unlock
<1>12. ASSUME NEW p \in Procs, LastUnlock(p) PROVE TypeOK'
  <2>1. mutex' \in [Blocks -> MutexType(Procs)]
    BY <1>12, UnlockEffect DEF LastUnlock
  <2> QED  BY <1>12, <2>1 DEF LastUnlock
<1>13. ASSUME NEW p \in Procs, Destroy(p) PROVE TypeOK'
  BY <1>13 DEF Destroy
<1>14. ASSUME NEW p \in Procs, Unlink(p) PROVE TypeOK'
  BY <1>14 DEF Unlink, NoBlock
<1>15. ASSUME NEW p \in Procs, Kill(p) PROVE TypeOK'
  <2>1. mutex' \in [Blocks -> MutexType(Procs)]
    BY <1>15, KillEffect
  <2> QED  BY <1>15, <2>1 DEF Kill
<1>16. CASE UNCHANGED vars
  BY <1>16 DEF vars
<1> QED
  BY <1>1, <1>2, <1>3, <1>4, <1>5, <1>6, <1>7, <1>8, <1>9, <1>10, <1>11, <1>12,
     <1>13, <1>14, <1>15, <1>16, NextCases

\* Every process follows its program.
LEMMA PlacesStep ==
    ASSUME TypeOK, Places, [Next]_vars
    PROVE  Places'
<1> USE RoundsAssumption, BoundsAssumption DEF names, own, history, Goto, TypeOK, SetUp, Fates, Places
<1>1. ASSUME NEW p \in Procs, Open(p) PROVE Places'
  <2>1. linked' \in Blocks
    BY <1>1, SMTT(30) DEF Open, NoBlock, Blocks
  <2> QED  BY <1>1, <2>1 DEF Open
<1>2. ASSUME NEW p \in Procs, Trywait(p) PROVE Places'
  BY <1>2 DEF Trywait
<1>3. ASSUME NEW p \in Procs, InitMutex(p) PROVE Places'
  BY <1>3 DEF InitMutex
<1>4. ASSUME NEW p \in Procs, ZeroLos(p) PROVE Places'
  BY <1>4 DEF ZeroLos
<1>5. ASSUME NEW p \in Procs, ZeroTraf(p) PROVE Places'
  BY <1>5 DEF ZeroTraf
<1>6. ASSUME NEW p \in Procs, Lock(p) PROVE Places'
  BY <1>6 DEF Lock
<1>7. ASSUME NEW p \in Procs, Block(p) PROVE Places'
  BY <1>7 DEF Block
<1>8. ASSUME NEW p \in Procs, LockFails(p) PROVE Places'
  BY <1>8 DEF LockFails
<1>9. ASSUME NEW p \in Procs, Load(p) PROVE Places'
  BY <1>9 DEF Load
<1>10. ASSUME NEW p \in Procs, Store(p) PROVE Places'
  <2>1. PICK place \in {"load", "unlock", "lastunlock"} :
        /\ pc' = [pc EXCEPT ![p] = place]
        /\ cell' = [cell EXCEPT ![p] = IF @ = "los" THEN "traf" ELSE @]
        /\ place = "load" <=> cell[p] = "los"
    BY ONLY <1>10, TypeOK, Places, StoreEffect
  <2> QED  BY <1>10, <2>1 DEF Store
<1>11. ASSUME NEW p \in Procs, Unlock(p) PROVE Places'
  BY <1>11 DEF Unlock
<1>12. ASSUME NEW p \in Procs, LastUnlock(p) PROVE Places'
  BY <1>12 DEF LastUnlock
<1>13. ASSUME NEW p \in Procs, Destroy(p) PROVE Places'
  BY <1>13 DEF Destroy
<1>14. ASSUME NEW p \in Procs, Unlink(p) PROVE Places'
  BY <1>14 DEF Unlink
<1>15. ASSUME NEW p \in Procs, Kill(p) PROVE Places'
  BY <1>15 DEF Kill
<1>16. CASE UNCHANGED vars
  BY <1>16 DEF vars
<1> QED
  BY <1>1, <1>2, <1>3, <1>4, <1>5, <1>6, <1>7, <1>8, <1>9, <1>10, <1>11, <1>12,
     <1>13, <1>14, <1>15, <1>16, NextCases

\* The one that takes the semaphore from 1 is the first to go on.
LEMMA FirstStep ==
    ASSUME TypeOK, Places, FirstInv, [Next]_vars
    PROVE  FirstInv'
<1> USE RoundsAssumption, BoundsAssumption DEF names, own, history, Goto, TypeOK, SetUp, Fates, FirstInv
<1>1. ASSUME NEW p \in Procs, Open(p) PROVE FirstInv'
  BY <1>1 DEF Open
<1>2. ASSUME NEW p \in Procs, Trywait(p) PROVE FirstInv'
  BY <1>2 DEF Trywait
<1>3. ASSUME NEW p \in Procs, InitMutex(p) PROVE FirstInv'
  BY <1>3 DEF InitMutex
<1>4. ASSUME NEW p \in Procs, ZeroLos(p) PROVE FirstInv'
  BY <1>4 DEF ZeroLos
<1>5. ASSUME NEW p \in Procs, ZeroTraf(p) PROVE FirstInv'
  BY <1>5 DEF ZeroTraf
<1>6. ASSUME NEW p \in Procs, Lock(p) PROVE FirstInv'
  BY <1>6 DEF Lock
<1>7. ASSUME NEW p \in Procs, Block(p) PROVE FirstInv'
  BY <1>7 DEF Block
<1>8. ASSUME NEW p \in Procs, LockFails(p) PROVE FirstInv'
  BY <1>8 DEF LockFails
<1>9. ASSUME NEW p \in Procs, Load(p) PROVE FirstInv'
  BY <1>9 DEF Load
<1>10. ASSUME NEW p \in Procs, Store(p) PROVE FirstInv'
  <2>1. PICK place \in {"load", "unlock", "lastunlock"} : pc' = [pc EXCEPT ![p] = place]
    BY ONLY <1>10, TypeOK, Places, StoreEffect
  <2>2. sem # 1 /\ sem' = sem
    BY <1>10 DEF Store
  <2> QED  BY <2>1, <2>2
<1>11. ASSUME NEW p \in Procs, Unlock(p) PROVE FirstInv'
  BY <1>11 DEF Unlock
<1>12. ASSUME NEW p \in Procs, LastUnlock(p) PROVE FirstInv'
  BY <1>12 DEF LastUnlock
<1>13. ASSUME NEW p \in Procs, Destroy(p) PROVE FirstInv'
  BY <1>13, ZenonT(40) DEF Destroy
<1>14. ASSUME NEW p \in Procs, Unlink(p) PROVE FirstInv'
  BY <1>14 DEF Unlink
<1>15. ASSUME NEW p \in Procs, Kill(p) PROVE FirstInv'
  BY <1>15 DEF Kill
<1>16. CASE UNCHANGED vars
  BY <1>16 DEF vars
<1> QED
  BY <1>1, <1>2, <1>3, <1>4, <1>5, <1>6, <1>7, <1>8, <1>9, <1>10, <1>11, <1>12,
     <1>13, <1>14, <1>15, <1>16, NextCases

\* Whoever locks a block that is being initialised leaves a mark on it.
LEMMA SetUpStep ==
    ASSUME TypeOK, Places, FirstInv, SetUpInv, [Next]_vars
    PROVE  SetUpInv'
<1> USE RoundsAssumption, BoundsAssumption DEF names, own, history, Goto, TypeOK, SetUp, Fates, FirstInv, SetUpInv, Section
<1>1. ASSUME NEW p \in Procs, Open(p) PROVE SetUpInv'
  BY <1>1 DEF Open
<1>2. ASSUME NEW p \in Procs, Trywait(p) PROVE SetUpInv'
  <2>1. sem = 1 => \A q \in Procs : pc[q] \notin Section /\ pc[q] \notin SetUp
    BY DEF SetUp
  <2>2. sem = 1 => ctrl[block[p]] = Zeros
    BY <1>2 DEF Trywait, Places
  <2> QED  BY <1>2, <2>1, <2>2 DEF Trywait
<1>3. ASSUME NEW p \in Procs, InitMutex(p) PROVE SetUpInv'
  BY <1>3 DEF InitMutex
<1>4. ASSUME NEW p \in Procs, ZeroLos(p) PROVE SetUpInv'
  <2>1. block[p] \in Blocks
    BY <1>4 DEF ZeroLos, Places
  <2>2. ctrl[block[p]] = Zeros => ctrl'[block[p]] = Zeros
    BY <1>4, <2>1 DEF ZeroLos, Zeros, Cells
  <2>3. \A o \in Blocks : o # block[p] => ctrl'[o] = ctrl[o]
    BY <1>4, <2>1 DEF ZeroLos
  <2> QED  BY <1>4, <2>2, <2>3 DEF ZeroLos
<1>5. ASSUME NEW p \in Procs, ZeroTraf(p) PROVE SetUpInv'
  BY <1>5 DEF ZeroTraf
<1>6. ASSUME NEW p \in Procs, Lock(p) PROVE SetUpInv'
  <2>1. CASE pc' = [pc EXCEPT ![p] = "failed"] /\ raced' = raced
    BY <1>6, <2>1 DEF Lock
  <2>2. CASE /\ pc' = [pc EXCEPT ![p] = "load"]
             /\ raced' = IF \E q \in Procs : pc[q] \in SetUp /\ block[q] = block[p]
                         THEN raced \cup {block[p]} ELSE raced
    BY <1>6, <2>2 DEF Lock
  <2> QED  BY <1>6, <2>1, <2>2, LockEffect
<1>7. ASSUME NEW p \in Procs, Block(p) PROVE SetUpInv'
  BY <1>7 DEF Block
<1>8. ASSUME NEW p \in Procs, LockFails(p) PROVE SetUpInv'
  BY <1>8 DEF LockFails
<1>9. ASSUME NEW p \in Procs, Load(p) PROVE SetUpInv'
  BY <1>9 DEF Load
<1>10. ASSUME NEW p \in Procs, Store(p) PROVE SetUpInv'
  <2>1. PICK d \in Int, place \in {"load", "unlock", "lastunlock"} :
        /\ ctrl' = [ctrl EXCEPT ![block[p]][cell[p]] = reg[p] + d]
        /\ pc' = [pc EXCEPT ![p] = place]
    BY ONLY <1>10, TypeOK, Places, StoreEffect
  <2>2. \A o \in Blocks : o # block[p] => ctrl'[o] = ctrl[o]
    BY <2>1
  <2>3. \A q \in Procs : pc[q] \in SetUp /\ block[q] \notin raced => block[p] # block[q]
    BY <1>10 DEF Store
  <2> QED  BY <1>10, <2>1, <2>2, <2>3 DEF Store
<1>11. ASSUME NEW p \in Procs, Unlock(p) PROVE SetUpInv'
  BY <1>11 DEF Unlock
<1>12. ASSUME NEW p \in Procs, LastUnlock(p) PROVE SetUpInv'
  BY <1>12 DEF LastUnlock
<1>13. ASSUME NEW p \in Procs, Destroy(p) PROVE SetUpInv'
  BY <1>13 DEF Destroy
<1>14. ASSUME NEW p \in Procs, Unlink(p) PROVE SetUpInv'
  BY <1>14 DEF Unlink
<1>15. ASSUME NEW p \in Procs, Kill(p) PROVE SetUpInv'
  BY <1>15 DEF Kill
<1>16. CASE UNCHANGED vars
  BY <1>16 DEF vars
<1> QED
  BY <1>1, <1>2, <1>3, <1>4, <1>5, <1>6, <1>7, <1>8, <1>9, <1>10, <1>11, <1>12,
     <1>13, <1>14, <1>15, <1>16, NextCases

\* Locks keep others out, and only its owner gives one back.
LEMMA OwnerStep ==
    ASSUME TypeOK, Places, FirstInv, SetUpInv, OwnerInv, [Next]_vars
    PROVE  OwnerInv'
<1> USE RoundsAssumption, BoundsAssumption DEF names, own, history, Goto, TypeOK, SetUp, Fates, OwnerInv, Section
<1>1. ASSUME NEW p \in Procs, Open(p) PROVE OwnerInv'
  BY <1>1 DEF Open
<1>2. ASSUME NEW p \in Procs, Trywait(p) PROVE OwnerInv'
  BY <1>2 DEF Trywait
<1>3. ASSUME NEW p \in Procs, InitMutex(p) PROVE OwnerInv'
  <2>1. \A q \in Procs : pc[q] \in Section /\ block[q] \notin raced => block[q] # block[p]
    BY <1>3 DEF InitMutex, SetUpInv
  <2>2. \A o \in Blocks : o # block[p] => mutex'[o] = mutex[o]
    BY <1>3 DEF InitMutex
  <2> QED  BY <1>3, <2>1, <2>2 DEF InitMutex
<1>4. ASSUME NEW p \in Procs, ZeroLos(p) PROVE OwnerInv'
  BY <1>4 DEF ZeroLos
<1>5. ASSUME NEW p \in Procs, ZeroTraf(p) PROVE OwnerInv'
  BY <1>5 DEF ZeroTraf
<1>6. ASSUME NEW p \in Procs, Lock(p) PROVE OwnerInv'
  <2>1. CASE pc' = [pc EXCEPT ![p] = "failed"] /\ raced' = raced /\ mutex' = mutex
    BY <1>6, <2>1 DEF Lock
  <2>2. ASSUME NEW m \in MutexType(Procs), m.holder = {p}, mutex[block[p]].holder = {},
               mutex' = [mutex EXCEPT ![block[p]] = m], raced \subseteq raced',
               pc' = [pc EXCEPT ![p] = "load"]
        PROVE  OwnerInv'
    <3>1. block[p] \in Blocks /\ block' = block
      BY <1>6 DEF Lock, Places
    <3>2. \A q \in Procs : pc[q] \in Section /\ block[q] \notin raced => block[q] # block[p]
      <4>1. \A q \in Procs : {q} # {}
        OBVIOUS
      <4>2. OwnerInv
        OBVIOUS
      <4> QED  BY ONLY <2>2, <4>1, <4>2 DEF OwnerInv, Section
    <3> QED  BY <2>2, <3>1, <3>2
  <2> QED  BY <1>6, <2>1, <2>2, LockEffect
<1>7. ASSUME NEW p \in Procs, Block(p) PROVE OwnerInv'
  BY <1>7 DEF Block
<1>8. ASSUME NEW p \in Procs, LockFails(p) PROVE OwnerInv'
  BY <1>8 DEF LockFails
<1>9. ASSUME NEW p \in Procs, Load(p) PROVE OwnerInv'
  BY <1>9 DEF Load
<1>10. ASSUME NEW p \in Procs, Store(p) PROVE OwnerInv'
  BY <1>10 DEF Store
<1>11. ASSUME NEW p \in Procs, Unlock(p) PROVE OwnerInv'
  <2>1. block[p] \in Blocks /\ block' = block /\ raced' = raced /\ pc[p] = "unlock"
        /\ mutex' = Unlocked(p) /\ \E place \in {"done", "lock"} : pc' = [pc EXCEPT ![p] = place]
    BY <1>11 DEF Unlock, Places
  <2>2. \A q \in Procs : q # p /\ pc[q] \in Section /\ block[q] \notin raced => block[q] # block[p]
    BY <2>1, Alone
  <2>3. \A o \in Blocks : o # block[p] => mutex'[o] = mutex[o]
    <3>1. \A o \in Blocks : o # block[p] => Unlocked(p)[o] = mutex[o]
      <4>1. TypeOK /\ Places /\ block[p] \in Blocks
        BY <2>1
      <4> QED  BY ONLY <4>1, UnlockEffect
    <3> QED  BY <2>1, <3>1
  <2>4. \A q \in Procs : pc'[q] \in Section => pc[q] \in Section /\ q # p /\ block[q] \in Blocks
    BY <2>1 DEF Places
  <2> QED  BY <2>1, <2>2, <2>3, <2>4
<1>12. ASSUME NEW p \in Procs, LastUnlock(p) PROVE OwnerInv'
  <2>1. block[p] \in Blocks /\ block' = block /\ raced' = raced /\ pc[p] = "lastunlock"
        /\ mutex' = Unlocked(p) /\ pc' = [pc EXCEPT ![p] = "destroy"]
    BY <1>12 DEF LastUnlock, Places
  <2>2. \A q \in Procs : q # p /\ pc[q] \in Section /\ block[q] \notin raced => block[q] # block[p]
    BY <2>1, Alone
  <2>3. \A o \in Blocks : o # block[p] => mutex'[o] = mutex[o]
    <3>1. \A o \in Blocks : o # block[p] => Unlocked(p)[o] = mutex[o]
      <4>1. TypeOK /\ Places /\ block[p] \in Blocks
        BY <2>1
      <4> QED  BY ONLY <4>1, UnlockEffect
    <3> QED  BY <2>1, <3>1
  <2>4. \A q \in Procs : pc'[q] \in Section => pc[q] \in Section /\ q # p /\ block[q] \in Blocks
    BY <2>1 DEF Places
  <2> QED  BY <2>1, <2>2, <2>3, <2>4
<1>13. ASSUME NEW p \in Procs, Destroy(p) PROVE OwnerInv'
  BY <1>13 DEF Destroy
<1>14. ASSUME NEW p \in Procs, Unlink(p) PROVE OwnerInv'
  BY <1>14 DEF Unlink
<1>15. ASSUME NEW p \in Procs, Kill(p) PROVE OwnerInv'
  <2>1. block' = block /\ raced' = raced /\ pc' = [pc EXCEPT ![p] = "killed"]
    BY <1>15 DEF Kill
  <2>2. \A q \in Procs : q # p /\ pc[q] \in Section /\ block[q] \notin raced =>
            mutex[block[q]].holder # {p}
    <3>1. \A q \in Procs : q # p => {q} # {p}
      OBVIOUS
    <3> QED  BY <3>1
  <2>3. \A q \in Procs : q # p /\ pc[q] \in Section /\ block[q] \notin raced =>
            mutex'[block[q]] = mutex[block[q]]
    <3>1. \A q \in Procs : pc[q] \in Section => block[q] \in Blocks
      BY DEF Places
    <3>2. \A o \in Blocks : mutex[o].holder # {p} => mutex'[o] = mutex[o]
      BY ONLY <1>15, TypeOK, KillEffect
    <3> QED  BY ONLY <2>2, <3>1, <3>2
  <2> QED  BY <2>1, <2>3
<1>16. CASE UNCHANGED vars
  BY <1>16 DEF vars
<1> QED
  BY <1>1, <1>2, <1>3, <1>4, <1>5, <1>6, <1>7, <1>8, <1>9, <1>10, <1>11, <1>12,
     <1>13, <1>14, <1>15, <1>16, NextCases

\* A store adds to what is there.
LEMMA ExactStep ==
    ASSUME TypeOK, Places, SetUpInv, OwnerInv, ExactInv, [Next]_vars
    PROVE  ExactInv'
<1> USE RoundsAssumption, BoundsAssumption DEF names, own, history, Goto, TypeOK, SetUp, Fates, ExactInv
<1>1. ASSUME NEW p \in Procs, Open(p) PROVE ExactInv'
  BY <1>1 DEF Open
<1>2. ASSUME NEW p \in Procs, Trywait(p) PROVE ExactInv'
  BY <1>2 DEF Trywait
<1>3. ASSUME NEW p \in Procs, InitMutex(p) PROVE ExactInv'
  BY <1>3 DEF InitMutex
<1>4. ASSUME NEW p \in Procs, ZeroLos(p) PROVE ExactInv'
  <2>1. block[p] \in Blocks /\ UNCHANGED <<raced, added, reg, block, cell>>
        /\ pc' = [pc EXCEPT ![p] = "zerotraf"]
    BY <1>4 DEF ZeroLos, Places
  <2>2. \A o \in Blocks \ raced : ctrl'[o] = ctrl[o]
    <3>1. block[p] \notin raced => ctrl[block[p]] = Zeros
      BY <1>4 DEF ZeroLos, SetUpInv
    <3>2. block[p] \notin raced => ctrl'[block[p]] = ctrl[block[p]]
      BY <1>4, <2>1, <3>1 DEF ZeroLos, Zeros, Cells
    <3>3. \A o \in Blocks : o # block[p] => ctrl'[o] = ctrl[o]
      BY <1>4, <2>1 DEF ZeroLos
    <3> QED  BY <3>2, <3>3
  <2>3. \A q \in Procs : pc'[q] \in {"store", "lastunlock"} => pc[q] = pc'[q] /\ block[q] \in Blocks
    BY <2>1 DEF Places
  <2> QED  BY <2>1, <2>2, <2>3
<1>5. ASSUME NEW p \in Procs, ZeroTraf(p) PROVE ExactInv'
  <2>1. block[p] \in Blocks /\ UNCHANGED <<raced, added, reg, block, cell>>
        /\ pc' = [pc EXCEPT ![p] = "lock"]
    BY <1>5 DEF ZeroTraf, Places
  <2>2. \A o \in Blocks \ raced : ctrl'[o] = ctrl[o]
    <3>1. block[p] \notin raced => ctrl[block[p]] = Zeros
      BY <1>5 DEF ZeroTraf, SetUpInv
    <3>2. block[p] \notin raced => ctrl'[block[p]] = ctrl[block[p]]
      BY <1>5, <2>1, <3>1 DEF ZeroTraf, Zeros, Cells
    <3>3. \A o \in Blocks : o # block[p] => ctrl'[o] = ctrl[o]
      BY <1>5, <2>1 DEF ZeroTraf
    <3> QED  BY <3>2, <3>3
  <2>3. \A q \in Procs : pc'[q] \in {"store", "lastunlock"} => pc[q] = pc'[q] /\ block[q] \in Blocks
    BY <2>1 DEF Places
  <2> QED  BY <2>1, <2>2, <2>3
<1>6. ASSUME NEW p \in Procs, Lock(p) PROVE ExactInv'
  BY <1>6 DEF Lock
<1>7. ASSUME NEW p \in Procs, Block(p) PROVE ExactInv'
  BY <1>7 DEF Block
<1>8. ASSUME NEW p \in Procs, LockFails(p) PROVE ExactInv'
  BY <1>8 DEF LockFails
<1>9. ASSUME NEW p \in Procs, Load(p) PROVE ExactInv'
  BY <1>9 DEF Load
<1>10. ASSUME NEW p \in Procs, Store(p) PROVE ExactInv'
  <2>1. block[p] \in Blocks /\ cell[p] \in Cells /\ pc[p] = "store"
        /\ UNCHANGED <<raced, reg, block>>
    BY <1>10 DEF Store, Places
  <2>2. PICK d \in Int, place \in {"load", "unlock", "lastunlock"} :
        /\ ctrl' = [ctrl EXCEPT ![block[p]][cell[p]] = reg[p] + d]
        /\ added' = [added EXCEPT ![block[p]][cell[p]] = @ + d]
        /\ pc' = [pc EXCEPT ![p] = place]
        /\ cell' = [cell EXCEPT ![p] = IF @ = "los" THEN "traf" ELSE @]
        /\ place = "lastunlock" => job[p] = Leaving /\ reg[p] + d = 0
    BY ONLY <1>10, TypeOK, Places, StoreEffect
  <2>3. \A o \in Blocks : o # block[p] => ctrl'[o] = ctrl[o] /\ added'[o] = added[o]
    BY <2>1, <2>2
  <2>4. block[p] \notin raced => ctrl'[block[p]] = added'[block[p]]
    <3>1. ctrl'[block[p]] = [ctrl[block[p]] EXCEPT ![cell[p]] = reg[p] + d]
      BY <2>1, <2>2
    <3>2. added'[block[p]] = [added[block[p]] EXCEPT ![cell[p]] = added[block[p]][cell[p]] + d]
      BY <2>1, <2>2
    <3> QED  BY <2>1, <3>1, <3>2
  <2>5. \A q \in Procs : q # p /\ pc[q] \in Section /\ block[q] \notin raced => block[q] # block[p]
    <3>1. pc[p] \in Section
      BY <2>1 DEF Section
    <3> QED  BY <3>1, Alone
  <2>6. \A q \in Procs : pc'[q] = "store" =>
            q # p /\ pc[q] = "store" /\ cell'[q] = cell[q] /\ block[q] \in Blocks
    <3>1. \A q \in Procs : pc[q] = "store" => block[q] \in Blocks
      BY DEF Places
    <3>2. \A q \in Procs : pc'[q] = "store" => q # p /\ pc[q] = "store"
      BY <2>2
    <3>3. \A q \in Procs : q # p => cell'[q] = cell[q]
      BY <2>2
    <3> QED  BY <3>1, <3>2, <3>3
  <2>7. \A o \in Blocks \ raced : ctrl'[o] = added'[o]
    BY <2>1, <2>3, <2>4
  <2>8. ASSUME NEW q \in Procs, pc'[q] = "store", block[q] \notin raced
        PROVE  reg[q] = ctrl'[block[q]][cell'[q]]
    BY <2>3, <2>5, <2>6, <2>8 DEF Section
  <2>9. ASSUME NEW q \in Procs, pc'[q] = "lastunlock", block[q] \notin raced
        PROVE  ctrl'[block[q]]["processes_count"] = 0
    <3>1. CASE q = p
      <4>1. place = "lastunlock" /\ reg[p] + d = 0 /\ job[p] = Leaving
        BY <2>2, <2>9, <3>1
      <4>2. cell[p] = "processes_count"
        BY <2>1, <4>1 DEF Places, Leaving
      <4> QED  BY <2>1, <2>2, <3>1, <4>1, <4>2
    <3>2. CASE q # p
      <4>1. pc[q] = "lastunlock" /\ block[q] \in Blocks
        BY <2>2, <2>9, <3>2 DEF Places
      <4> QED  BY <2>3, <2>5, <2>9, <3>2, <4>1 DEF Section
    <3> QED  BY <3>1, <3>2
  <2> QED  BY <2>1, <2>7, <2>8, <2>9
<1>11. ASSUME NEW p \in Procs, Unlock(p) PROVE ExactInv'
  BY <1>11 DEF Unlock
<1>12. ASSUME NEW p \in Procs, LastUnlock(p) PROVE ExactInv'
  BY <1>12 DEF LastUnlock
<1>13. ASSUME NEW p \in Procs, Destroy(p) PROVE ExactInv'
  BY <1>13 DEF Destroy
<1>14. ASSUME NEW p \in Procs, Unlink(p) PROVE ExactInv'
  BY <1>14 DEF Unlink
<1>15. ASSUME NEW p \in Procs, Kill(p) PROVE ExactInv'
  BY <1>15 DEF Kill
<1>16. CASE UNCHANGED vars
  BY <1>16 DEF vars
<1> QED
  BY <1>1, <1>2, <1>3, <1>4, <1>5, <1>6, <1>7, <1>8, <1>9, <1>10, <1>11, <1>12,
     <1>13, <1>14, <1>15, <1>16, NextCases

\* processes_count goes up before a process gets in and down as one leaves.
LEMMA InsideStep ==
    ASSUME TypeOK, Places, SetUpInv, OwnerInv, ExactInv, InsideInv, [Next]_vars
    PROVE  InsideInv'
<1> USE RoundsAssumption, BoundsAssumption DEF names, own, history, Goto, TypeOK, SetUp, Fates, Inside, Ended, Leaving
<1>1. ASSUME NEW p \in Procs, Open(p) PROVE InsideInv'
  <2>1. \A q \in Procs : Inside(q)' => Inside(q) /\ block'[q] = block[q]
    BY <1>1 DEF Open, Places
  <2>2. ctrl' = ctrl /\ raced' = raced
    BY <1>1 DEF Open
  <2> QED  BY ONLY <2>1, <2>2, TypeOK, InsideInv, NoNewcomers
<1>2. ASSUME NEW p \in Procs, Trywait(p) PROVE InsideInv'
  <2>1. \A q \in Procs : Inside(q)' => Inside(q) /\ block'[q] = block[q]
    BY <1>2 DEF Trywait, Places
  <2>2. ctrl' = ctrl /\ raced' = raced
    BY <1>2 DEF Trywait
  <2> QED  BY ONLY <2>1, <2>2, TypeOK, InsideInv, NoNewcomers
<1>3. ASSUME NEW p \in Procs, InitMutex(p) PROVE InsideInv'
  <2>1. \A q \in Procs : Inside(q)' => Inside(q) /\ block'[q] = block[q]
    BY <1>3 DEF InitMutex
  <2>2. ctrl' = ctrl /\ raced' = raced
    BY <1>3 DEF InitMutex
  <2> QED  BY ONLY <2>1, <2>2, TypeOK, InsideInv, NoNewcomers
<1>4. ASSUME NEW p \in Procs, ZeroLos(p) PROVE InsideInv'
  <2>1. \A q \in Procs : Inside(q)' => Inside(q) /\ block'[q] = block[q]
    BY <1>4 DEF ZeroLos
  <2>2. \A o \in Blocks : ctrl'[o]["processes_count"] = ctrl[o]["processes_count"]
    <3>1. block[p] \in Blocks
      BY <1>4 DEF ZeroLos, Places
    <3> QED  BY <1>4, <3>1 DEF ZeroLos, Cells
  <2>3. raced' = raced
    BY <1>4 DEF ZeroLos
  <2> QED  BY ONLY <2>1, <2>2, <2>3, TypeOK, InsideInv, NoNewcomers
<1>5. ASSUME NEW p \in Procs, ZeroTraf(p) PROVE InsideInv'
  <2>1. \A q \in Procs : Inside(q)' => Inside(q) /\ block'[q] = block[q]
    BY <1>5 DEF ZeroTraf, Places
  <2>2. \A o \in Blocks : ctrl'[o]["processes_count"] = ctrl[o]["processes_count"]
    <3>1. block[p] \in Blocks
      BY <1>5 DEF ZeroTraf, Places
    <3> QED  BY <1>5, <3>1 DEF ZeroTraf, Cells
  <2>3. raced' = raced
    BY <1>5 DEF ZeroTraf
  <2> QED  BY ONLY <2>1, <2>2, <2>3, TypeOK, InsideInv, NoNewcomers
<1>6. ASSUME NEW p \in Procs, Lock(p) PROVE InsideInv'
  <2>1. \A q \in Procs : Inside(q)' => Inside(q) /\ block'[q] = block[q]
    BY <1>6 DEF Lock
  <2>2. ctrl' = ctrl /\ raced \subseteq raced'
    BY <1>6 DEF Lock
  <2> QED  BY ONLY <2>1, <2>2, TypeOK, InsideInv, NoNewcomers
<1>7. ASSUME NEW p \in Procs, Block(p) PROVE InsideInv'
  <2>1. \A q \in Procs : Inside(q)' => Inside(q) /\ block'[q] = block[q]
    BY <1>7 DEF Block
  <2>2. ctrl' = ctrl /\ raced' = raced
    BY <1>7 DEF Block
  <2> QED  BY ONLY <2>1, <2>2, TypeOK, InsideInv, NoNewcomers
<1>8. ASSUME NEW p \in Procs, LockFails(p) PROVE InsideInv'
  <2>1. \A q \in Procs : Inside(q)' => Inside(q) /\ block'[q] = block[q]
    BY <1>8 DEF LockFails
  <2>2. ctrl' = ctrl /\ raced' = raced
    BY <1>8 DEF LockFails
  <2> QED  BY ONLY <2>1, <2>2, TypeOK, InsideInv, NoNewcomers
<1>9. ASSUME NEW p \in Procs, Load(p) PROVE InsideInv'
  <2>1. \A q \in Procs : Inside(q)' => Inside(q) /\ block'[q] = block[q]
    BY <1>9 DEF Load
  <2>2. ctrl' = ctrl /\ raced' = raced
    BY <1>9 DEF Load
  <2> QED  BY ONLY <2>1, <2>2, TypeOK, InsideInv, NoNewcomers
<1>10. ASSUME NEW p \in Procs, Store(p) PROVE InsideInv'
  <2>1. block[p] \in Blocks /\ cell[p] \in Cells /\ pc[p] = "store" /\ reg[p] \in Int
        /\ UNCHANGED <<raced, block, job>>
    BY <1>10 DEF Store, Places
  <2>2. PICK d \in Int, place \in {"load", "unlock", "lastunlock"} :
        /\ ctrl' = [ctrl EXCEPT ![block[p]][cell[p]] = reg[p] + d]
        /\ pc' = [pc EXCEPT ![p] = place]
        /\ place = "load" <=> cell[p] = "los"
        /\ place = "lastunlock" => job[p] = Leaving
        /\ cell[p] = "processes_count" => d = IF job[p] = Leaving THEN -1 ELSE 1
    BY ONLY <1>10, TypeOK, Places, StoreEffect
  <2>3. CASE cell[p] # "processes_count"
    <3>1. job[p] \in 1 .. Rounds
      BY <2>1, <2>3 DEF Places
    <3>2. \A q \in Procs : Inside(q)' => Inside(q) /\ block'[q] = block[q]
      BY <2>1, <2>2, <3>1
    <3>3. \A o \in Blocks : ctrl'[o]["processes_count"] = ctrl[o]["processes_count"]
      BY <2>1, <2>2, <2>3 DEF Cells
    <3> QED  BY ONLY <2>1, <3>2, <3>3, TypeOK, InsideInv, NoNewcomers
  <2>4. CASE cell[p] = "processes_count"
    <3>1. job[p] \in {0, Leaving} /\ 0 # Leaving /\ place \in {"unlock", "lastunlock"}
      <4>1. job[p] \notin 1 .. Rounds
        BY <2>1, <2>4 DEF Places
      <4>2. job[p] \in 0 .. Leaving
        OBVIOUS
      <4>3. place # "load"
        BY <2>2, <2>4
      <4> QED  BY <4>1, <4>2, <4>3
    <3>2. \A q \in Procs : q # p => (Inside(q)' <=> Inside(q))
      BY <2>1, <2>2
    <3>3. Inside(p) <=> job[p] = Leaving
      BY <2>1, <3>1
    <3>4. Inside(p)' <=> job[p] = 0
      BY <2>1, <2>2, <3>1
    <3>5. \A o \in Blocks : o # block[p] =>
              ctrl'[o]["processes_count"] = ctrl[o]["processes_count"]
      BY <2>1, <2>2
    <3>6. block[p] \notin raced => ctrl'[block[p]]["processes_count"]
              = ctrl[block[p]]["processes_count"] + (IF job[p] = Leaving THEN -1 ELSE 1)
      BY <2>1, <2>2, <2>4 DEF ExactInv
    <3>7. \A o \in Blocks : Insiders(o) \in SUBSET Procs
      BY DEF Insiders
    <3>8. \A o \in Blocks : o # block[p] => Insiders(o)' = Insiders(o)
      BY <2>1, <3>2 DEF Insiders
    <3>9. IF job[p] = Leaving
          THEN p \in Insiders(block[p]) /\ Insiders(block[p])' = Insiders(block[p]) \ {p}
          ELSE p \notin Insiders(block[p]) /\ Insiders(block[p])' = Insiders(block[p]) \cup {p}
      BY <2>1, <3>1, <3>2, <3>3, <3>4 DEF Insiders
    <3>10. IsFiniteSet(Insiders(block[p])) /\ Cardinality(Insiders(block[p])) \in Nat
      BY ONLY <2>1, <3>7, ProcsAssumption, FS_Subset, FS_CardinalityType
    <3>11. Cardinality(Insiders(block[p])')
           = Cardinality(Insiders(block[p])) + (IF job[p] = Leaving THEN -1 ELSE 1)
      <4>1. CASE job[p] = Leaving
        BY ONLY <3>9, <3>10, <4>1, FS_RemoveElement
      <4>2. CASE job[p] # Leaving
        BY ONLY <3>9, <3>10, <4>2, FS_AddElement
      <4> QED  BY ONLY <4>1, <4>2
    <3>12. \A o \in Blocks \ raced :
               ctrl[o]["processes_count"] >= Cardinality(Insiders(o))
               /\ ctrl[o]["processes_count"] \in Int
      BY DEF InsideInv, Cells
    <3>13. ASSUME NEW o \in Blocks \ raced
           PROVE  ctrl'[o]["processes_count"] >= Cardinality(Insiders(o)')
      <4>1. CASE o = block[p]
        <5> DEFINE c == ctrl[block[p]]["processes_count"]
                   size == Cardinality(Insiders(block[p]))
        <5>1. c >= size /\ c \in Int /\ size \in Nat
          BY ONLY <3>10, <3>12, <4>1
        <5>2. block[p] \notin raced
          BY <4>1
        <5>3. o = block[p] /\ ctrl'[block[p]]["processes_count"]
                  = c + (IF job[p] = Leaving THEN -1 ELSE 1)
          BY ONLY <3>6, <4>1, <5>2
        <5>4. Cardinality(Insiders(block[p])') = size + (IF job[p] = Leaving THEN -1 ELSE 1)
          BY ONLY <3>11
        <5> HIDE DEF c, size
        <5>5. ctrl'[block[p]]["processes_count"] >= Cardinality(Insiders(block[p])')
          <6>1. CASE job[p] = Leaving
            BY ONLY <5>1, <5>3, <5>4, <6>1
          <6>2. CASE job[p] # Leaving
            BY ONLY <5>1, <5>3, <5>4, <6>2
          <6> QED  BY ONLY <6>1, <6>2
        <5>6. Insiders(o)' = Insiders(block[p])'
          BY ONLY <2>1, <4>1 DEF Insiders
        <5> QED  BY ONLY <5>3, <5>5, <5>6
      <4>2. CASE o # block[p]
        BY ONLY <3>5, <3>8, <3>12, <4>2
      <4> QED  BY <4>1, <4>2
    <3> QED  BY ONLY <2>1, <3>13 DEF InsideInv, Blocks
  <2> QED  BY <2>3, <2>4
<1>11. ASSUME NEW p \in Procs, Unlock(p) PROVE InsideInv'
  <2>1. \A q \in Procs : Inside(q)' => Inside(q) /\ block'[q] = block[q]
    BY <1>11 DEF Unlock
  <2>2. ctrl' = ctrl /\ raced' = raced
    BY <1>11 DEF Unlock
  <2> QED  BY ONLY <2>1, <2>2, TypeOK, InsideInv, NoNewcomers
<1>12. ASSUME NEW p \in Procs, LastUnlock(p) PROVE InsideInv'
  <2>1. \A q \in Procs : Inside(q)' => Inside(q) /\ block'[q] = block[q]
    BY <1>12 DEF LastUnlock
  <2>2. ctrl' = ctrl /\ raced' = raced
    BY <1>12 DEF LastUnlock
  <2> QED  BY ONLY <2>1, <2>2, TypeOK, InsideInv, NoNewcomers
<1>13. ASSUME NEW p \in Procs, Destroy(p) PROVE InsideInv'
  <2>1. \A q \in Procs : Inside(q)' => Inside(q) /\ block'[q] = block[q]
    BY <1>13 DEF Destroy
  <2>2. ctrl' = ctrl /\ raced' = raced
    BY <1>13 DEF Destroy
  <2> QED  BY ONLY <2>1, <2>2, TypeOK, InsideInv, NoNewcomers
<1>14. ASSUME NEW p \in Procs, Unlink(p) PROVE InsideInv'
  <2>1. \A q \in Procs : Inside(q)' => Inside(q) /\ block'[q] = block[q]
    BY <1>14 DEF Unlink
  <2>2. ctrl' = ctrl /\ raced' = raced
    BY <1>14 DEF Unlink
  <2> QED  BY ONLY <2>1, <2>2, TypeOK, InsideInv, NoNewcomers
<1>15. ASSUME NEW p \in Procs, Kill(p) PROVE InsideInv'
  <2>1. \A q \in Procs : Inside(q)' => Inside(q) /\ block'[q] = block[q]
    BY <1>15 DEF Kill
  <2>2. ctrl' = ctrl /\ raced' = raced
    BY <1>15 DEF Kill
  <2> QED  BY ONLY <2>1, <2>2, TypeOK, InsideInv, NoNewcomers
<1>16. CASE UNCHANGED vars
  <2>1. \A q \in Procs : Inside(q)' => Inside(q) /\ block'[q] = block[q]
    BY <1>16 DEF vars
  <2>2. ctrl' = ctrl /\ raced' = raced
    BY <1>16 DEF vars
  <2> QED  BY ONLY <2>1, <2>2, TypeOK, InsideInv, NoNewcomers
<1> QED
  BY <1>1, <1>2, <1>3, <1>4, <1>5, <1>6, <1>7, <1>8, <1>9, <1>10, <1>11, <1>12,
     <1>13, <1>14, <1>15, <1>16, NextCases

-----------------------------------------------------------------------------
\* Nothing has happened in the first state.
LEMMA Initially == Init => IInv
<1> SUFFICES ASSUME Init PROVE IInv
  OBVIOUS
<1> USE RoundsAssumption, BoundsAssumption DEF Init, NoBlock, Leaving
<1>1. TypeOK
  BY DEF TypeOK, Cells, FreshMutex, MutexType
<1>2. Places /\ FirstInv /\ SetUpInv /\ OwnerInv /\ ExactInv
  BY DEF Places, FirstInv, SetUpInv, OwnerInv, ExactInv, SetUp, Section, Zeros
<1>3. InsideInv
  <2>1. \A o \in Blocks : Insiders(o) = {}
    BY DEF Insiders, Inside
  <2>2. \A o \in Blocks : ctrl[o]["processes_count"] = 0
    BY DEF Cells
  <2> QED  BY <2>1, <2>2, FS_EmptySet, SMTT(30) DEF InsideInv
<1> QED  BY <1>1, <1>2, <1>3 DEF IInv

\* IInv holds in every reachable state.
THEOREM Inductive == Spec => []IInv
<1>1. IInv /\ [Next]_vars => IInv'
  BY TypeStep, PlacesStep, FirstStep, SetUpStep, OwnerStep, ExactStep, InsideStep DEF IInv
<1> QED  BY <1>1, Initially, PTL DEF Spec

\* A set of processes that counts none is empty.
LEMMA CountsNone ==
    ASSUME NEW q \in Procs, NEW o, q \in Insiders(o), 0 >= Cardinality(Insiders(o))
    PROVE  FALSE
<1>1. IsFiniteSet(Insiders(o))
  BY ProcsAssumption, FS_Subset DEF Insiders
<1>2. Cardinality({q}) <= Cardinality(Insiders(o)) /\ Cardinality(Insiders(o)) \in Nat
  BY ONLY <1>1, q \in Insiders(o), FS_Subset, FS_CardinalityType
<1>3. Cardinality({q}) = 1
  BY ONLY FS_Singleton
<1> QED  BY <1>2, <1>3

\* Whoever has found processes_count at zero is alone in its block as long as
\* it holds the mutex, dead processes or not.
LEMMA LeavesNobodyBehind ==
    ASSUME IInv, NEW p \in Procs, NEW q \in Procs
    PROVE  LastOneOut(p, q)
<1>1. ASSUME pc[p] = "lastunlock",
             block[p] \notin raced, p # q, block[q] = block[p], Inside(q)
      PROVE  FALSE
  <2>1. block[p] \in Blocks \ raced
    BY <1>1 DEF IInv, Places
  <2>2. ctrl[block[p]]["processes_count"] = 0
    BY <1>1 DEF IInv, ExactInv
  <2>3. 0 >= Cardinality(Insiders(block[p]))
    BY <1>1, <2>1, <2>2 DEF IInv, InsideInv
  <2>4. q \in Insiders(block[p])
    BY <1>1 DEF Insiders
  <2> QED  BY ONLY <2>3, <2>4, CountsNone, q \in Procs
<1> QED  BY <1>1 DEF LastOneOut

\* What a block says of its sums, and to the last one out, is true, whoever
\* dies and on zero-filled blocks too, unless somebody locked the block while
\* it was being initialised: for any number of processes, batches, blocks and
\* kills.
THEOREM ExactIfNotRaced == Spec => []ExactUnlessRaced
<1>1. IInv => ExactUnlessRaced
  BY LeavesNobodyBehind DEF IInv, ExactInv, ExactUnlessRaced
<1> QED  BY <1>1, Inductive, PTL

=============================================================================
