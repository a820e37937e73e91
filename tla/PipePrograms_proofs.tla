------------------------ MODULE PipePrograms_proofs ------------------------
(***************************************************************************)
(* Theorems about the three programs that talk through inherited pipes:    *)
(* Battle, by name, and those of PipePrograms, ThreadPipes as Tp! and      *)
(* PipeRing as Rg!.  Each has its inductive invariant: who holds which end *)
(* of which pipe follows from where everybody is, and from that what       *)
(* EPIPE, end-of-file and a number given out again can mean.               *)
(***************************************************************************)
EXTENDS
    Battle, PipePrograms, FiniteSetTheorems, SequenceTheorems, NaturalsInduction, WellFoundedInduction, TLAPS

(***************************************************************************)
(* Battle, for any two sides, hit points, attacks a signed char can hold,  *)
(* and any sizes of a pipe and of the buffer it is read into.              *)
(***************************************************************************)
\* A knight in the battle, and one that was beaten or never came.
Fights(k) == pc[k] \in {"read", "attack"}
Lost(k) == pc[k] \in {"absent", "dead"}

\* Which ends of the pipes a knight holds, from its place: all of them before its
\* set-up, then its own read end and the write ends its array names, none at its end.
\* The parent holds all of them until the last fork.
EndsInv ==
    /\ \A j, k \in Knights :
          /\ k \in readers[j] <=> pc[k] = "setup" \/ (Fights(k) /\ j = k)
          /\ k \in writers[j] <=> pc[k] = "setup" \/ (Fights(k) /\ j \in ToSet(foes[k]))
    /\ \A j \in Knights : (Parent \in readers[j] <=> ppc = "fork")
                          /\ (Parent \in writers[j] <=> ppc = "fork")
    /\ ppc # "fork" => \A k \in Knights : pc[k] # "unborn"

\* A knight's array names enemies, each once; who is not in it any more has lost.
FoesInv ==
    /\ wrog \in [Knights -> Nat]
    /\ \A k \in Knights :
          /\ foes[k] \in Seq(Enemies(k)) /\ IsInjective(foes[k])
          /\ \A e \in Enemies(k) \ ToSet(foes[k]) :
                pc[k] \notin {"unborn", "setup"} /\ (Fights(k) => Lost(e))

\* Whoever survives has only enemies that have lost.
VictoryInv == \A k \in Knights : Survives(k) => \A e \in Enemies(k) : Lost(e)

IInv == TypeOK /\ EndsInv /\ FoesInv /\ VictoryInv

\* The sides: everybody has an enemy, and enmity is mutual.
LEMMA Sides ==
    /\ \A k \in Knights : Enemies(k) \subseteq Knights /\ Enemies(k) # {}
                          /\ IsFiniteSet(Enemies(k)) /\ k \notin Enemies(k)
    /\ \A j, k \in Knights : j \in Enemies(k) => k \in Enemies(j)
    /\ Parent \notin Knights
BY SidesAssumption DEF Knights, Enemies

\* A sequence without entry x: what it names but that.
LEMMA EntryTaken ==
    ASSUME NEW S, NEW s \in Seq(S), IsInjective(s), NEW x \in 1 .. Len(s)
    PROVE  /\ WithoutEntry(s, x) \in Seq(S) /\ IsInjective(WithoutEntry(s, x))
           /\ Len(WithoutEntry(s, x)) = Len(s) - 1
           /\ ToSet(WithoutEntry(s, x)) = ToSet(s) \ {s[x]}
<1> DEFINE n == Len(s)
           c == [s EXCEPT ![x] = s[n]]
           t == WithoutEntry(s, x)
<1>1. n \in Nat /\ x \in 1 .. n /\ n \in 1 .. n /\ DOMAIN s = 1 .. n
  BY LenProperties
<1>2. c \in Seq(S) /\ Len(c) = n /\ \A i \in 1 .. n : c[i] = IF i = x THEN s[n] ELSE s[i]
  <2>1. s[n] \in S
    BY <1>1, ElementOfSeq
  <2> QED  BY <1>1, <2>1, ExceptSeq
<1>3. t = SubSeq(c, 1, n - 1)
  BY <1>2 DEF WithoutEntry, Front
<1> HIDE DEF c
<1>4. t \in Seq(S) /\ Len(t) = n - 1 /\ \A i \in 1 .. n - 1 : t[i] = c[i]
  BY <1>1, <1>2, <1>3, SubSeqProperties
<1>5. DOMAIN t = 1 .. n - 1
  BY <1>4, LenProperties
<1>6. \A i \in 1 .. n - 1 : t[i] = IF i = x THEN s[n] ELSE s[i]
  BY <1>1, <1>2, <1>4
<1>7. \A i, j \in 1 .. n : s[i] = s[j] => i = j
  BY <1>1 DEF IsInjective
<1> HIDE DEF t, n
<1>8. \A i, j \in 1 .. n - 1 : t[i] = t[j] => i = j
  BY <1>1, <1>6, <1>7
<1>9. ToSet(t) = ToSet(s) \ {s[x]}
  <2>1. ASSUME NEW i \in 1 .. n - 1 PROVE t[i] \in ToSet(s) \ {s[x]}
    BY <1>1, <1>6, <1>7 DEF ToSet
  <2>2. ASSUME NEW i \in 1 .. n, s[i] # s[x] PROVE \E j \in 1 .. n - 1 : s[i] = t[j]
    <3>1. CASE i = n
      BY <1>1, <1>6, <2>2, <3>1
    <3>2. CASE i # n
      BY <1>1, <1>6, <2>2, <3>2
    <3> QED  BY <3>1, <3>2
  <2>3. ToSet(s) = {s[i] : i \in 1 .. n} /\ ToSet(t) = {t[i] : i \in 1 .. n - 1}
    BY <1>1, <1>5 DEF ToSet
  <2> QED  BY <2>1, <2>2, <2>3
<1> QED  BY <1>4, <1>5, <1>8, <1>9 DEF IsInjective, t, n

\* The array a knight begins with.
LEMMA ArrayAtFirst ==
    ASSUME NEW k \in Knights
    PROVE  /\ SetToSeq(Enemies(k)) \in Seq(Enemies(k)) /\ IsInjective(SetToSeq(Enemies(k)))
           /\ ToSet(SetToSeq(Enemies(k))) = Enemies(k)
           /\ 1 \in 1 .. Len(SetToSeq(Enemies(k)))
<1> DEFINE S == Enemies(k)
           n == Cardinality(S)
           f == SetToSeq(S)
<1>1. IsFiniteSet(S) /\ S # {}
  BY Sides
<1> HIDE DEF S
<1>2. n \in Nat /\ n # 0 /\ ExistsBijection(1 .. n, S)
  BY <1>1, FS_CardinalityType, FS_EmptySet
<1>3. f \in [1 .. n -> S] /\ IsInjective(f)
  <2>1. \E g \in [1 .. n -> S] : IsInjective(g)
    BY <1>2 DEF ExistsBijection, Bijection, Injection
  <2> QED  BY <2>1 DEF SetToSeq
<1>4. f \in Surjection(1 .. n, S)
  <2>1. IsFiniteSet(1 .. n) /\ Cardinality(1 .. n) = n
    BY <1>2, FS_Interval
  <2>2. f \in Injection(1 .. n, S)
    BY <1>3 DEF Injection
  <2> QED  BY <1>1, <2>1, <2>2, FS_Injection
<1> HIDE DEF f, n
<1>5. f \in Seq(S) /\ Len(f) = n /\ DOMAIN f = 1 .. n
  BY <1>2, <1>3
<1>6. ToSet(f) = S
  BY <1>3, <1>4, <1>5 DEF ToSet, Surjection
<1> QED  BY <1>2, <1>3, <1>5, <1>6 DEF f, S

\* A step is one of these.
LEMMA NextCases ==
    ASSUME [Next]_vars
    PROVE  \/ \E k \in Knights : Fork(k) \/ ForkFails(k) \/ Setup(k)
           \/ ParentCloses \/ ParentEnds
           \/ \E k \in Knights : Suffer(k) \/ NothingRead(k) \/ BattleEnded(k) \/ EnemyGone(k)
           \/ \E k \in Knights : \E s \in 0 .. Attack : Strike(k, s)
           \/ UNCHANGED vars
BY DEF Next, ParentStep, KnightStep

\* The enemy an attacking knight has drawn.
LEMMA Drawn ==
    ASSUME TypeOK, FoesInv, NEW k \in Knights, pc[k] = "attack"
    PROVE  /\ wrog[k] \in 1 .. Len(foes[k])
           /\ foes[k][wrog[k]] \in Enemies(k) /\ foes[k][wrog[k]] \in ToSet(foes[k])
<1>1. wrog[k] \in 1 .. Len(foes[k])
  BY DEF TypeOK, Ended, Fates
<1>2. foes[k] \in Seq(Enemies(k)) /\ DOMAIN foes[k] = 1 .. Len(foes[k])
  BY LenProperties DEF FoesInv
<1> QED  BY <1>1, <1>2, ElementOfSeq DEF ToSet

\* An enemy whose pipe nobody can read has lost: it has ended, and it cannot have
\* survived, since its own enemy still attacks.
LEMMA GoneHasLost ==
    ASSUME IInv, NEW k \in Knights, EnemyGone(k)
    PROVE  Lost(foes[k][wrog[k]])
<1> DEFINE e == foes[k][wrog[k]]
<1>1. pc[k] = "attack" /\ readers[e] = {}
  BY DEF EnemyGone
<1>2. e \in Enemies(k) /\ e \in Knights /\ k \in Enemies(e)
  BY <1>1, Drawn, Sides DEF IInv
<1> HIDE DEF e
<1>3. pc[e] \notin {"unborn", "setup", "read", "attack"}
  BY <1>1, <1>2 DEF IInv, EndsInv, Fights
<1>4. ~Survives(e)
  BY <1>1, <1>2 DEF IInv, VictoryInv, Lost
<1> QED  BY <1>2, <1>3, <1>4 DEF IInv, TypeOK, Fates, Survives, Lost, e

\* What is left of the array then.
LEMMA ArrayWithout ==
    ASSUME TypeOK, FoesInv, NEW k \in Knights, EnemyGone(k)
    PROVE  /\ foes'[k] \in Seq(Enemies(k)) /\ IsInjective(foes'[k])
           /\ ToSet(foes'[k]) = ToSet(foes[k]) \ {foes[k][wrog[k]]}
           /\ foes' = [foes EXCEPT ![k] = foes'[k]]
           /\ Len(foes'[k]) \in Nat /\ foes'[k] \in Seq(Knights)
           /\ Len(foes'[k]) < 1 => ToSet(foes'[k]) = {}
<1> DEFINE x == wrog[k]
<1>1. pc[k] = "attack" /\ foes' = [foes EXCEPT ![k] = WithoutEntry(foes[k], x)]
  BY DEF EnemyGone
<1>2. foes'[k] = WithoutEntry(foes[k], x)
  BY <1>1 DEF TypeOK
<1>3. foes[k] \in Seq(Enemies(k)) /\ IsInjective(foes[k]) /\ x \in 1 .. Len(foes[k])
  BY <1>1, Drawn DEF FoesInv
<1> HIDE DEF x
<1>4. /\ foes'[k] \in Seq(Enemies(k)) /\ IsInjective(foes'[k])
      /\ ToSet(foes'[k]) = ToSet(foes[k]) \ {foes[k][x]}
  BY <1>2, <1>3, EntryTaken
<1>5. foes'[k] \in Seq(Knights)
  BY <1>4, Sides, SeqMonotonic
<1>6. Len(foes'[k]) \in Nat /\ DOMAIN foes'[k] = 1 .. Len(foes'[k])
  BY <1>4, LenProperties
<1>7. Len(foes'[k]) < 1 => ToSet(foes'[k]) = {}
  BY <1>6 DEF ToSet
<1> QED  BY <1>1, <1>2, <1>4, <1>5, <1>6, <1>7 DEF x

\* Whatever a read finds, the knight that suffers it dies or draws an enemy.
LEMMA SufferEffect ==
    ASSUME TypeOK, NEW k \in Knights, Suffer(k)
    PROVE  /\ pc[k] = "read" /\ ppc' = ppc /\ foes' = foes
           /\ hp' \in [Knights -> Int]
           /\ pipe' \in [Knights -> [bytes : 0 .. PipeSize, damage : Nat]]
           /\ \/ Leave(k, "dead") /\ wrog' = wrog
              \/ Aim(k) /\ readers' = readers /\ writers' = writers
<1> USE StrengthAssumption
<1>1. /\ hp \in [Knights -> Int]
      /\ pipe \in [Knights -> [bytes : 0 .. PipeSize, damage : Nat]]
  BY DEF TypeOK
<1>2. PICK blow \in Readable(k) :
        /\ hp' = [hp EXCEPT ![k] = @ - blow.damage]
        /\ pipe' = [pipe EXCEPT ![k] = [bytes |-> @.bytes - blow.bytes,
                                        damage |-> @.damage - blow.damage]]
        /\ IF hp[k] - blow.damage <= 0
           THEN Leave(k, "dead") /\ UNCHANGED wrog
           ELSE Aim(k) /\ UNCHANGED descriptors
  BY DEF Suffer
<1>3. /\ blow.bytes \in 0 .. pipe[k].bytes
      /\ blow.damage \in 0 .. pipe[k].damage
  BY <1>1 DEF Readable
<1>4. hp' \in [Knights -> Int]
  BY <1>1, <1>2, <1>3
<1>5. pipe' \in [Knights -> [bytes : 0 .. PipeSize, damage : Nat]]
  <2> DEFINE rest == [bytes |-> pipe[k].bytes - blow.bytes,
                      damage |-> pipe[k].damage - blow.damage]
  <2>1. rest \in [bytes : 0 .. PipeSize, damage : Nat]
    BY <1>1, <1>3
  <2>2. pipe' = [pipe EXCEPT ![k] = rest]
    BY <1>1, <1>2
  <2> HIDE DEF rest
  <2> QED  BY <1>1, <2>1, <2>2
<1> QED  BY <1>2, <1>4, <1>5 DEF Suffer, descriptors

\* The types are preserved: a knight that attacks has drawn an entry of its array.
LEMMA TypeStep ==
    ASSUME TypeOK, FoesInv, [Next]_vars
    PROVE  TypeOK'
<1> USE StrengthAssumption DEF Goto, descriptors, Ended, Fates, Procs, Empty
<1>t. /\ pc \in [Knights -> {"unborn", "setup", "read", "attack"} \cup Fates]
      /\ ppc \in {"fork", "wait", "done"}
      /\ hp \in [Knights -> Int]
      /\ foes \in [Knights -> Seq(Knights)]
      /\ wrog \in [Knights -> Nat]
      /\ \A k \in Knights : wrog[k] \in 1 .. Len(foes[k]) \/ Ended(k)
      /\ readers \in [Knights -> SUBSET Procs]
      /\ writers \in [Knights -> SUBSET Procs]
      /\ pipe \in [Knights -> [bytes : 0 .. PipeSize, damage : Nat]]
  BY DEF TypeOK, FoesInv
<1>1. ASSUME NEW k \in Knights, Fork(k) PROVE TypeOK'
  BY <1>1, <1>t DEF Fork, NextToFork, TypeOK
<1>2. ASSUME NEW k \in Knights, ForkFails(k) PROVE TypeOK'
  BY <1>2, <1>t DEF ForkFails, TypeOK
<1>3. ASSUME NEW k \in Knights, Setup(k) PROVE TypeOK'
  BY <1>3, <1>t DEF Setup, TypeOK
<1>4. ASSUME ParentCloses PROVE TypeOK'
  BY <1>4, <1>t DEF ParentCloses, TypeOK
<1>5. ASSUME ParentEnds PROVE TypeOK'
  BY <1>5, <1>t DEF ParentEnds, TypeOK
<1>6. ASSUME NEW k \in Knights, Suffer(k) PROVE TypeOK'
  <2>1. /\ hp' \in [Knights -> Int] /\ ppc' = ppc /\ foes' = foes
        /\ pipe' \in [Knights -> [bytes : 0 .. PipeSize, damage : Nat]]
    BY <1>6, SufferEffect
  <2>2. CASE Leave(k, "dead") /\ wrog' = wrog
    BY <2>1, <2>2, <1>t DEF Leave, TypeOK
  <2>3. CASE Aim(k) /\ readers' = readers /\ writers' = writers
    <3>1. pc' = [pc EXCEPT ![k] = "attack"]
      BY <2>3 DEF Aim
    <3>2. PICK x \in 1 .. Len(foes[k]) : wrog' = [wrog EXCEPT ![k] = x]
      BY <2>3 DEF Aim
    <3> QED  BY <2>1, <2>3, <3>1, <3>2, <1>t DEF TypeOK
  <2> QED  BY <1>6, <2>2, <2>3, SufferEffect
<1>7. ASSUME NEW k \in Knights, NothingRead(k) PROVE TypeOK'
  <2>1. PICK x \in 1 .. Len(foes[k]) : wrog' = [wrog EXCEPT ![k] = x]
    BY <1>7 DEF NothingRead, Aim
  <2>2. x \in Nat
    BY <1>t, LenProperties
  <2> QED  BY <1>7, <2>1, <2>2, <1>t DEF NothingRead, Aim, TypeOK
<1>8. ASSUME NEW k \in Knights, BattleEnded(k) PROVE TypeOK'
  BY <1>8, <1>t DEF BattleEnded, Leave, TypeOK
<1>9. ASSUME NEW k \in Knights, EnemyGone(k) PROVE TypeOK'
  <2>1. /\ foes' = [foes EXCEPT ![k] = foes'[k]]
        /\ Len(foes'[k]) \in Nat /\ foes'[k] \in Seq(Knights)
    BY <1>9, ArrayWithout
  <2>2. foes' \in [Knights -> Seq(Knights)] /\ \A j \in Knights \ {k} : foes'[j] = foes[j]
    <3> DEFINE s == foes'[k]
    <3>1. foes' = [foes EXCEPT ![k] = s] /\ s \in Seq(Knights)
      BY <2>1
    <3> HIDE DEF s
    <3> QED  BY <3>1, <1>t
  <2>3. wrog' = [wrog EXCEPT ![k] = 1] /\ UNCHANGED <<ppc, hp, pipe>>
    BY <1>9 DEF EnemyGone
  <2>4. CASE Len(foes'[k]) < 1
    <3>1. Leave(k, "home")
      BY <1>9, <2>4 DEF EnemyGone
    <3> QED  BY <2>1, <2>2, <2>3, <3>1, <1>t DEF Leave, TypeOK
  <2>5. CASE ~(Len(foes'[k]) < 1)
    <3> DEFINE e == foes[k][wrog[k]]
    <3>1. /\ pc' = [pc EXCEPT ![k] = "read"] /\ readers' = readers
          /\ writers' = [writers EXCEPT ![e] = @ \ {k}]
      BY <1>9, <2>5 DEF EnemyGone
    <3>2. writers' \in [Knights -> SUBSET Procs] /\ readers' \in [Knights -> SUBSET Procs]
      BY <3>1, <1>t
    <3>3. \A j \in Knights : wrog'[j] \in 1 .. Len(foes'[j]) \/ Ended(j)'
      <4>1. wrog'[k] = 1 /\ 1 \in 1 .. Len(foes'[k])
        BY <2>1, <2>3, <2>5, <1>t
      <4>2. \A j \in Knights \ {k} :
                wrog'[j] = wrog[j] /\ foes'[j] = foes[j] /\ pc'[j] = pc[j]
        BY <2>2, <2>3, <3>1, <1>t
      <4> QED  BY <4>1, <4>2, <1>t
    <3>4. pc' \in [Knights -> {"unborn", "setup", "read", "attack"} \cup Fates]
      BY <3>1, <1>t
    <3> QED  BY <2>2, <2>3, <3>2, <3>3, <3>4, <1>t DEF TypeOK
  <2> QED  BY <2>4, <2>5
<1>10. ASSUME NEW k \in Knights, NEW s \in 0 .. Attack, Strike(k, s) PROVE TypeOK'
  <2> DEFINE e == foes[k][wrog[k]]
  <2>1. pc[k] = "attack"
    BY <1>10 DEF Strike
  <2>2. e \in Knights /\ wrog[k] \in 1 .. Len(foes[k])
    BY <2>1, Drawn, Sides
  <2>3. /\ pipe[e].bytes < PipeSize
        /\ pipe' = [pipe EXCEPT ![e] = [bytes |-> pipe[e].bytes + 1,
                                        damage |-> pipe[e].damage + s]]
    BY <1>10, <2>2, <1>t DEF Strike
  <2>4. /\ pc' = [pc EXCEPT ![k] = "read"] /\ wrog' = [wrog EXCEPT ![k] = 1]
        /\ UNCHANGED <<ppc, hp, foes, readers, writers>>
    BY <1>10 DEF Strike
  <2>5. Len(foes[k]) \in Nat
    BY <1>t, LenProperties
  <2> HIDE DEF e
  <2>6. pipe' \in [Knights -> [bytes : 0 .. PipeSize, damage : Nat]]
    <3>1. pipe[e] \in [bytes : 0 .. PipeSize, damage : Nat]
      BY <2>2, <1>t
    <3>2. pipe[e].bytes + 1 \in 0 .. PipeSize /\ pipe[e].damage + s \in Nat
      BY <2>3, <3>1
    <3> QED  BY <2>3, <3>2, <1>t
  <2>7. \A j \in Knights : wrog'[j] \in 1 .. Len(foes'[j]) \/ Ended(j)'
    <3>1. wrog'[k] = 1 /\ 1 \in 1 .. Len(foes'[k])
      BY <2>2, <2>4, <2>5, <1>t
    <3>2. \A j \in Knights \ {k} :
              wrog'[j] = wrog[j] /\ foes'[j] = foes[j] /\ pc'[j] = pc[j]
      BY <2>4, <1>t
    <3> QED  BY <3>1, <3>2, <1>t
  <2>8. pc' \in [Knights -> {"unborn", "setup", "read", "attack"} \cup Fates]
    BY <2>4, <1>t
  <2> QED  BY <2>4, <2>6, <2>7, <2>8, <1>t DEF TypeOK
<1>11. CASE UNCHANGED vars
  BY <1>11, <1>t DEF vars, TypeOK
<1> QED  BY <1>1, <1>2, <1>3, <1>4, <1>5, <1>6, <1>7, <1>8, <1>9, <1>10, <1>11, NextCases

\* Every process keeps and closes the ends its place says.
LEMMA EndsStep ==
    ASSUME IInv, [Next]_vars
    PROVE  EndsInv'
<1> USE Sides DEF Goto, descriptors, Fights
<1>t. /\ pc \in [Knights -> {"unborn", "setup", "read", "attack"} \cup Fates]
      /\ foes \in [Knights -> Seq(Knights)]
      /\ readers \in [Knights -> SUBSET Procs]
      /\ writers \in [Knights -> SUBSET Procs]
      /\ EndsInv
  BY DEF IInv, TypeOK
<1>1. ASSUME NEW k \in Knights, Fork(k) PROVE EndsInv'
  <2> USE <1>1, <1>t DEF Fork, NextToFork, EndsInv
  <2>1. ASSUME NEW j \in Knights, NEW l \in Knights
        PROVE  (/\ l \in readers[j] <=> pc[l] = "setup" \/ (Fights(l) /\ j = l)
                /\ l \in writers[j] <=> pc[l] = "setup" \/ (Fights(l) /\ j \in ToSet(foes[l])))'
    OBVIOUS
  <2> QED  BY <2>1
<1>2. ASSUME NEW k \in Knights, ForkFails(k) PROVE EndsInv'
  BY <1>2, <1>t DEF ForkFails, NextToFork, EndsInv
<1>3. ASSUME NEW k \in Knights, Setup(k) PROVE EndsInv'
  <2>1. ToSet(foes[k]) = Enemies(k)
    <3>1. foes[k] \in Seq(Enemies(k)) /\ Enemies(k) \subseteq ToSet(foes[k])
      BY <1>3 DEF Setup, IInv, FoesInv
    <3>2. ToSet(foes[k]) \subseteq Enemies(k)
      BY <3>1, LenProperties, ElementOfSeq DEF ToSet
    <3> QED  BY <3>1, <3>2
  <2>2. /\ pc[k] = "setup" /\ pc' = [pc EXCEPT ![k] = "read"] /\ UNCHANGED <<ppc, foes>>
        /\ readers' = [j \in Knights |-> IF j = k THEN readers[j] ELSE readers[j] \ {k}]
        /\ writers' = [j \in Knights |-> IF j \in ToSet(foes[k]) THEN writers[j]
                                                               ELSE writers[j] \ {k}]
    BY <1>3, <2>1 DEF Setup, KeptWriteEnds
  <2> QED  BY <2>2, <1>t DEF EndsInv
<1>4. ASSUME ParentCloses PROVE EndsInv'
  BY <1>4, <1>t DEF ParentCloses, EndsInv
<1>5. ASSUME ParentEnds PROVE EndsInv'
  BY <1>5, <1>t DEF ParentEnds, EndsInv
<1>l. ASSUME NEW k \in Knights, NEW c \in Fates, Leave(k, c), pc[k] # "unborn", ppc' = ppc,
             \A j \in Knights \ {k} : foes'[j] = foes[j]
      PROVE  EndsInv'
  <2>1. /\ pc' = [pc EXCEPT ![k] = c] /\ c \notin {"unborn", "setup", "read", "attack"}
        /\ readers' = [j \in Knights |-> readers[j] \ {k}]
        /\ writers' = [j \in Knights |-> writers[j] \ {k}]
    BY <1>l DEF Leave, Fates
  <2>2. ASSUME NEW j \in Knights, NEW l \in Knights
        PROVE  (/\ l \in readers[j] <=> pc[l] = "setup" \/ (Fights(l) /\ j = l)
                /\ l \in writers[j] <=> pc[l] = "setup" \/ (Fights(l) /\ j \in ToSet(foes[l])))'
    <3>1. CASE l = k
      BY <2>1, <3>1, <1>t
    <3>2. CASE l # k
      <4>1. pc'[l] = pc[l] /\ foes'[l] = foes[l]
        BY <1>l, <2>1, <3>2, <1>t
      <4> QED  BY <2>1, <3>2, <4>1, <1>t DEF EndsInv
    <3> QED  BY <3>1, <3>2
  <2>3. Parent # k
    OBVIOUS
  <2> QED  BY <1>l, <2>1, <2>2, <2>3, <1>t DEF EndsInv
<1>g. ASSUME NEW k \in Knights, Fights(k), NEW c \in {"read", "attack"},
             pc' = [pc EXCEPT ![k] = c], UNCHANGED <<ppc, foes, readers, writers>>
      PROVE  EndsInv'
  BY <1>g, <1>t DEF EndsInv
<1>6. ASSUME NEW k \in Knights, Suffer(k) PROVE EndsInv'
  <2>1. pc[k] = "read" /\ ppc' = ppc /\ foes' = foes
    BY <1>6, SufferEffect DEF IInv
  <2>2. CASE Leave(k, "dead")
    BY <1>l, <2>1, <2>2 DEF Fates
  <2>3. CASE Aim(k) /\ readers' = readers /\ writers' = writers
    BY <1>g, <2>1, <2>3 DEF Aim
  <2> QED  BY <1>6, <2>2, <2>3, SufferEffect DEF IInv
<1>7. ASSUME NEW k \in Knights, NothingRead(k) PROVE EndsInv'
  BY <1>7, <1>g DEF NothingRead, Aim
<1>8. ASSUME NEW k \in Knights, BattleEnded(k) PROVE EndsInv'
  BY <1>8, <1>l DEF BattleEnded, Fates
<1>9. ASSUME NEW k \in Knights, EnemyGone(k) PROVE EndsInv'
  <2> DEFINE e == foes[k][wrog[k]]
  <2>1. pc[k] = "attack" /\ ppc' = ppc
    BY <1>9 DEF EnemyGone
  <2>2. foes[k][wrog[k]] \in Knights
    BY <2>1, Drawn DEF IInv
  <2>3. /\ foes' = [foes EXCEPT ![k] = foes'[k]]
        /\ ToSet(foes'[k]) = ToSet(foes[k]) \ {e}
    BY <1>9, ArrayWithout DEF IInv
  <2>4. \A j \in Knights \ {k} : foes'[j] = foes[j]
    BY <2>3, <1>t
  <2>5. CASE Len(foes'[k]) < 1
    BY <1>9, <1>l, <2>1, <2>4, <2>5 DEF EnemyGone, Fates
  <2>6. CASE ~(Len(foes'[k]) < 1)
    <3>1. pc' = [pc EXCEPT ![k] = "read"] /\ readers' = readers
          /\ writers' = [writers EXCEPT ![e] = @ \ {k}]
      BY <1>9, <2>6 DEF EnemyGone
    <3> HIDE DEF e
    <3>2. ASSUME NEW j \in Knights, NEW l \in Knights
          PROVE  (/\ l \in readers[j] <=> pc[l] = "setup" \/ (Fights(l) /\ j = l)
                  /\ l \in writers[j] <=> pc[l] = "setup" \/ (Fights(l) /\ j \in ToSet(foes[l])))'
      <4>1. CASE l = k
        BY <2>1, <2>2, <2>3, <3>1, <4>1, <1>t DEF EndsInv
      <4>2. CASE l # k
        <5>1. pc'[l] = pc[l] /\ foes'[l] = foes[l]
          BY <2>4, <3>1, <4>2, <1>t
        <5> QED  BY <2>2, <3>1, <4>2, <5>1, <1>t DEF EndsInv
      <4> QED  BY <4>1, <4>2
    <3>3. Parent # k
      OBVIOUS
    <3> QED  BY <2>1, <2>2, <3>1, <3>2, <3>3, <1>t DEF EndsInv
  <2> QED  BY <2>5, <2>6
<1>10. ASSUME NEW k \in Knights, NEW s \in 0 .. Attack, Strike(k, s) PROVE EndsInv'
  BY <1>10, <1>g DEF Strike
<1>11. CASE UNCHANGED vars
  BY <1>11, <1>t DEF vars, EndsInv
<1> QED  BY <1>1, <1>2, <1>3, <1>4, <1>5, <1>6, <1>7, <1>8, <1>9, <1>10, <1>11, NextCases

\* An entry leaves the array only for an enemy that has lost.
LEMMA FoesStep ==
    ASSUME IInv, [Next]_vars
    PROVE  FoesInv'
<1> USE Sides DEF Goto, Fights, Lost
<1>t. /\ pc \in [Knights -> {"unborn", "setup", "read", "attack"} \cup Fates]
      /\ foes \in [Knights -> Seq(Knights)]
      /\ FoesInv
  BY DEF IInv, TypeOK
<1>1. ASSUME NEW k \in Knights, Fork(k) PROVE FoesInv'
  BY <1>1, <1>t DEF Fork, NextToFork, FoesInv
<1>2. ASSUME NEW k \in Knights, ForkFails(k) PROVE FoesInv'
  BY <1>2, <1>t DEF ForkFails, NextToFork, FoesInv
<1>3. ASSUME NEW k \in Knights, Setup(k) PROVE FoesInv'
  BY <1>3, <1>t DEF Setup, FoesInv
<1>4. ASSUME ParentCloses PROVE FoesInv'
  BY <1>4, <1>t DEF ParentCloses, FoesInv
<1>5. ASSUME ParentEnds PROVE FoesInv'
  BY <1>5, <1>t DEF ParentEnds, FoesInv
<1>w. \A k \in Knights : 1 .. Len(foes[k]) \subseteq Nat
  BY <1>t, LenProperties
<1>m. ASSUME NEW k \in Knights, Fights(k), foes' = foes, wrog' \in [Knights -> Nat],
             NEW c \in {"read", "attack", "dead", "ended"}, pc' = [pc EXCEPT ![k] = c]
      PROVE  FoesInv'
  BY <1>m, <1>t DEF FoesInv
<1>6. ASSUME NEW k \in Knights, Suffer(k) PROVE FoesInv'
  <2>1. pc[k] = "read" /\ foes' = foes
    BY <1>6, SufferEffect DEF IInv
  <2>2. CASE Leave(k, "dead") /\ wrog' = wrog
    <3>1. wrog' \in [Knights -> Nat]
      BY <2>2, <1>t DEF FoesInv
    <3> QED  BY <2>1, <2>2, <3>1, <1>m DEF Leave
  <2>3. CASE Aim(k)
    <3>1. wrog' \in [Knights -> Nat]
      BY <2>3, <1>w, <1>t DEF Aim, FoesInv
    <3> QED  BY <2>1, <2>3, <3>1, <1>m DEF Aim
  <2> QED  BY <1>6, <2>2, <2>3, SufferEffect DEF IInv
<1>7. ASSUME NEW k \in Knights, NothingRead(k) PROVE FoesInv'
  <2>1. wrog' \in [Knights -> Nat]
    BY <1>7, <1>w, <1>t DEF NothingRead, Aim, FoesInv
  <2> QED  BY <1>7, <2>1, <1>m DEF NothingRead, Aim
<1>8. ASSUME NEW k \in Knights, BattleEnded(k) PROVE FoesInv'
  BY <1>8, <1>m, <1>t DEF BattleEnded, Leave, FoesInv
<1>9. ASSUME NEW k \in Knights, EnemyGone(k) PROVE FoesInv'
  <2> DEFINE e == foes[k][wrog[k]]
  <2>1. pc[k] = "attack" /\ Lost(e)
    BY <1>9, GoneHasLost DEF EnemyGone
  <2>2. /\ foes' = [foes EXCEPT ![k] = foes'[k]] /\ ToSet(foes'[k]) = ToSet(foes[k]) \ {e}
        /\ foes'[k] \in Seq(Enemies(k)) /\ IsInjective(foes'[k])
    BY <1>9, ArrayWithout DEF IInv
  <2> HIDE DEF e
  <2>3. PICK c \in {"home", "read"} : pc' = [pc EXCEPT ![k] = c]
    BY <1>9 DEF EnemyGone, Leave
  <2>4. wrog' \in [Knights -> Nat]
    BY <1>9, <1>t DEF EnemyGone, FoesInv
  <2>5. \A d \in Knights : Lost(d) => Lost(d)'
    BY <2>1, <2>3, <1>t
  <2>6. \A j \in Knights \ {k} : foes'[j] = foes[j] /\ pc'[j] = pc[j]
    BY <2>2, <2>3, <1>t
  <2>7. ASSUME NEW j \in Knights, NEW d \in Enemies(j) \ ToSet(foes'[j])
        PROVE  pc'[j] \notin {"unborn", "setup"} /\ (Fights(j)' => Lost(d)')
    <3>1. CASE j = k
      <4>1. d \in Knights /\ k \in Knights /\ d \in Enemies(k) \ ToSet(foes'[k])
        BY <2>7, <3>1
      <4>2. pc'[k] \in {"home", "read"}
        BY <2>3, <1>t
      <4>3. Lost(d)
        <5>1. CASE d = e
          BY <2>1, <5>1
        <5>2. CASE d # e
          BY <2>1, <2>2, <4>1, <5>2, <1>t DEF FoesInv
        <5> QED  BY <5>1, <5>2
      <4>4. Lost(d)'
        BY <2>5, <4>1, <4>3
      <4> QED  BY <3>1, <4>2, <4>4
    <3>2. CASE j # k
      BY <2>5, <2>6, <3>2, <1>t DEF FoesInv
    <3> QED  BY <3>1, <3>2
  <2>8. \A j \in Knights : foes'[j] \in Seq(Enemies(j)) /\ IsInjective(foes'[j])
    BY <2>2, <2>6, <1>t DEF FoesInv
  <2> QED  BY <2>4, <2>7, <2>8 DEF FoesInv
<1>10. ASSUME NEW k \in Knights, NEW s \in 0 .. Attack, Strike(k, s) PROVE FoesInv'
  BY <1>10, <1>m, <1>t DEF Strike, FoesInv
<1>11. CASE UNCHANGED vars
  BY <1>11, <1>t DEF vars, FoesInv
<1> QED  BY <1>1, <1>2, <1>3, <1>4, <1>5, <1>6, <1>7, <1>8, <1>9, <1>10, <1>11, NextCases

\* A knight goes home, or is left over, only when its enemies have lost.
LEMMA VictoryStep ==
    ASSUME IInv, [Next]_vars
    PROVE  VictoryInv'
<1> USE Sides DEF IInv, TypeOK, VictoryInv, Survives, Goto, Lost
<1>1. ASSUME NEW k \in Knights, Fork(k) PROVE VictoryInv'
  BY <1>1 DEF Fork, NextToFork
<1>2. ASSUME NEW k \in Knights, ForkFails(k) PROVE VictoryInv'
  BY <1>2 DEF ForkFails, NextToFork
<1>3. ASSUME NEW k \in Knights, Setup(k) PROVE VictoryInv'
  BY <1>3 DEF Setup
<1>4. ASSUME ParentCloses PROVE VictoryInv'
  BY <1>4 DEF ParentCloses
<1>5. ASSUME ParentEnds PROVE VictoryInv'
  BY <1>5 DEF ParentEnds
<1>6. ASSUME NEW k \in Knights, Suffer(k) PROVE VictoryInv'
  <2>1. pc[k] = "read" /\ (pc' = [pc EXCEPT ![k] = "dead"] \/ pc' = [pc EXCEPT ![k] = "attack"])
    BY <1>6, SufferEffect DEF Aim, Leave
  <2>2. \A j \in Knights : (Survives(j)' => Survives(j)) /\ (Lost(j) => Lost(j)')
    BY <2>1
  <2> QED  BY <2>2
<1>7. ASSUME NEW k \in Knights, NothingRead(k) PROVE VictoryInv'
  BY <1>7 DEF NothingRead, Aim
<1>8. ASSUME NEW k \in Knights, BattleEnded(k) PROVE VictoryInv'
  <2>1. pc[k] = "read" /\ writers[k] = {} /\ pc' = [pc EXCEPT ![k] = "ended"]
    BY <1>8 DEF BattleEnded, EndOfFile, Leave
  <2>2. ASSUME NEW e \in Enemies(k) PROVE Lost(e)
    <3>1. e \in Knights /\ k \in Enemies(e) /\ pc[e] \notin {"unborn", "setup"}
      BY <2>1 DEF EndsInv
    <3>2. ~Fights(e)
      <4>1. ASSUME Fights(e) PROVE k \in Enemies(e) \ ToSet(foes[e])
        BY <2>1, <3>1, <4>1 DEF EndsInv
      <4> QED  BY <2>1, <3>1, <4>1 DEF FoesInv
    <3>3. ~Survives(e)
      BY <2>1, <3>1
    <3> QED  BY <3>1, <3>2, <3>3 DEF Fights, Fates
  <2> QED  BY <2>1, <2>2
<1>9. ASSUME NEW k \in Knights, EnemyGone(k) PROVE VictoryInv'
  <2> DEFINE e == foes[k][wrog[k]]
  <2>1. ToSet(foes'[k]) = ToSet(foes[k]) \ {e} /\ pc[k] = "attack" /\ Lost(e)
    BY <1>9, ArrayWithout, GoneHasLost DEF EnemyGone
  <2> HIDE DEF e
  <2>2. CASE Len(foes'[k]) < 1
    <3>1. \A d \in Enemies(k) : Lost(d)
      <4>1. ToSet(foes[k]) \subseteq {e}
        BY <1>9, <2>1, <2>2, ArrayWithout
      <4>2. \A d \in Enemies(k) \ ToSet(foes[k]) : Lost(d)
        BY <2>1 DEF FoesInv, Fights
      <4> QED  BY <2>1, <4>1, <4>2
    <3>2. pc' = [pc EXCEPT ![k] = "home"]
      BY <1>9, <2>2 DEF EnemyGone, Leave
    <3> QED  BY <2>1, <3>1, <3>2
  <2>3. CASE ~(Len(foes'[k]) < 1)
    <3>1. pc' = [pc EXCEPT ![k] = "read"]
      BY <1>9, <2>3 DEF EnemyGone
    <3> QED  BY <2>1, <3>1
  <2> QED  BY <2>2, <2>3
<1>10. ASSUME NEW k \in Knights, NEW s \in 0 .. Attack, Strike(k, s) PROVE VictoryInv'
  BY <1>10 DEF Strike
<1>11. CASE UNCHANGED vars
  BY <1>11 DEF vars
<1> QED  BY <1>1, <1>2, <1>3, <1>4, <1>5, <1>6, <1>7, <1>8, <1>9, <1>10, <1>11, NextCases

\* Nobody is born, and the parent holds every end.
LEMMA Initially == Init => IInv
<1> SUFFICES ASSUME Init PROVE IInv
  OBVIOUS
<1> USE Sides, StrengthAssumption DEF Init
<1>1. \A k \in Knights : /\ foes[k] \in Seq(Enemies(k)) /\ IsInjective(foes[k])
                         /\ ToSet(foes[k]) = Enemies(k) /\ 1 \in 1 .. Len(foes[k])
  BY ArrayAtFirst
<1>2. foes \in [Knights -> Seq(Knights)]
  <2>1. \A k \in Knights : foes[k] \in Seq(Knights)
    BY <1>1, SeqMonotonic
  <2> QED  BY <2>1
<1>3. TypeOK
  BY <1>1, <1>2 DEF TypeOK, Fates, Ended, Procs, Empty
<1>4. EndsInv
  BY DEF EndsInv, Fights
<1>5. FoesInv
  BY <1>1 DEF FoesInv, Fights
<1>6. VictoryInv
  BY DEF VictoryInv, Survives
<1> QED  BY <1>3, <1>4, <1>5, <1>6 DEF IInv

\* The inductive invariant of the battle holds in every reachable state.
THEOREM Inductive == Spec => []IInv
<1>1. IInv /\ [Next]_vars => IInv'
  BY TypeStep, EndsStep, FoesStep, VictoryStep DEF IInv
<1> QED  BY <1>1, Initially, PTL DEF Spec

\* A knight's array names exactly the enemies whose write ends it still holds, each once
\* (the removals in main.c's attack): for any two sides, any strength and any size of a
\* pipe.
THEOREM ArraysAreExact == Spec => []ArrayExact
<1>1. IInv => ArrayExact
  <2> SUFFICES ASSUME IInv PROVE ArrayExact
    OBVIOUS
  <2>1. ASSUME NEW k \in Knights, pc[k] \in {"read", "attack"}
        PROVE  IsInjective(foes[k]) /\ ToSet(foes[k]) = {j \in Knights : k \in writers[j]}
    <3>1. IsInjective(foes[k]) /\ foes[k] \in Seq(Enemies(k))
      BY DEF IInv, FoesInv
    <3>2. ToSet(foes[k]) \subseteq Knights
      BY <3>1, Sides, LenProperties, ElementOfSeq DEF ToSet
    <3>3. \A j \in Knights : k \in writers[j] <=> j \in ToSet(foes[k])
      BY <2>1 DEF IInv, EndsInv, Fights
    <3> QED  BY <3>1, <3>2, <3>3
  <2> QED  BY <2>1 DEF ArrayExact, IInv
<1> QED  BY <1>1, Inductive, PTL

\* Nobody goes home, and no Frank takes the end of its pipe for the end of the battle,
\* while an enemy is there (the two ways out of the knights' loop).
THEOREM NobodyDeserts == Spec => []NoDesertion
<1>1. IInv => NoDesertion
  BY DEF IInv, VictoryInv, NoDesertion, Survives, Lost, Ended, Fates
<1> QED  BY <1>1, Inductive, PTL

(***************************************************************************)
(* ThreadPipes, for any number of threads.                                 *)
(***************************************************************************)
\* Its steps are those of ThreadPipes.
LEMMA TpMoves ==
    ASSUME [ChosenNext]_chosenVars
    PROVE  [Tp!Next]_(Tp!vars)
<1> USE DEF threads, Tp!vars
<1>1. CASE UNCHANGED threads
  BY <1>1
<1>2. CASE RunThreads /\ ~UNCHANGED threads
  <2> USE <1>2 DEF RunRing, RunThreads
  <2>1. CASE \E t \in Tp!Threads : Thread(t)
    BY <2>1 DEF Thread, Tp!Next
  <2>2. CASE (\E p \in Rg!Procs : RingProcess(p)) \/ Parents \/ FailedFork \/ Interrupt
    BY <2>2 DEF RingProcess, Parents, FailedFork, Interrupt, Tp!Next
  <2> QED  BY <2>1, <2>2 DEF ChosenNext, chosenVars
<1> QED
  BY <1>1, <1>2 DEF ChosenNext, chosenVars, RingProcess, Thread, Parents, FailedFork, Interrupt,
     RunRing, RunThreads

\* The two copies of Cardinality are one.
LEMMA TpCard == \A S : Tp!Cardinality(S) = Cardinality(S)
BY DEF Tp!Cardinality, Cardinality

\* A thread has its numbers as soon as its pipe is made, and loses them at its end.
Made(t) == at[t] # "unborn" \/ (t = turn /\ mainpc \in {"closewrite", "thread"})
Living(t) == Made(t) /\ at[t] # "gone"
Making == mainpc \in {"pipe", "closewrite", "thread", "closeshared"}

\* How far main has got with the threads it creates and with those it joins; it never
\* writes to anybody, so nothing kills it.
TpPlaces ==
    /\ \A t \in Tp!Threads :
          /\ at[t] = "unborn" <=> mainpc \in {"pipe", "closewrite", "thread"} /\ t >= turn
          /\ mainpc = "join" /\ t < turn => at[t] = "gone"
          /\ mainpc \in {"leave", "exited"} => at[t] = "gone"
    /\ mainpc # "killed"

\* The numbers of the answers' pipe are the first two; nobody else ever gets them, and no
\* two threads read from the same number.
Others == Tp!Fds \ {3, 4}
TpNumbers ==
    /\ number[Tp!Shared] = [read |-> 3, write |-> 4]
    /\ \A t \in Tp!Threads : Made(t) => number[t].read \in Others /\ number[t].write \in Others
    /\ \A t, u \in Tp!Threads :
           Living(t) /\ Living(u) /\ number[t].read = number[u].read => t = u

\* What the numbers stand for: the answers' ends until main closes them, each thread's
\* own read end until main may have closed it, and nothing else.
TpTable ==
    /\ fds[3] = IF mainpc = "exited" THEN Tp!Free ELSE Tp!ReadEnd(Tp!Shared)
    /\ fds[4] = IF Making THEN Tp!WriteEnd(Tp!Shared) ELSE Tp!Free
    /\ \A t \in Tp!Threads : Living(t) =>
           \/ fds[number[t].read] = Tp!ReadEnd(t)
           \/ fds[number[t].read] = Tp!Free /\ mainpc \in {"join", "leave", "exited"}
    /\ mainpc = "closewrite" => fds[number[turn].write] = Tp!WriteEnd(turn)
    /\ \A f \in Others : fds[f] # Tp!Free =>
           \/ \E t \in Tp!Threads : Living(t) /\ f = number[t].read
           \/ mainpc = "closewrite" /\ f = number[turn].write

TpInv == Tp!TypeOK /\ TpPlaces /\ TpNumbers /\ TpTable

\* The ends of pipes are different from each other and from nothing.
LEMMA TpEnds ==
    /\ \A p, q : Tp!ReadEnd(p) = Tp!ReadEnd(q) <=> p = q
    /\ \A p, q : Tp!ReadEnd(p) # Tp!WriteEnd(q)
    /\ \A p : /\ Tp!ReadEnd(p) # Tp!Free /\ Tp!WriteEnd(p) # Tp!Free
              /\ Tp!ReadEnd(p).pipe = p /\ Tp!ReadEnd(p).end = "read"
    /\ Tp!Free.end = "none"
    /\ \A p \in Tp!Pipes : Tp!ReadEnd(p) \in Tp!Ends /\ Tp!WriteEnd(p) \in Tp!Ends
    /\ Tp!Free \in Tp!Ends
<1>1. \A p, q : Tp!ReadEnd(p) = Tp!ReadEnd(q) => p = q
  <2>1. \A p : Tp!ReadEnd(p).pipe = p
    BY DEF Tp!ReadEnd
  <2> QED  BY <2>1
<1> QED  BY <1>1 DEF Tp!ReadEnd, Tp!WriteEnd, Tp!Free, Tp!Ends

\* The threads, the pipes and the numbers as sets of integers.
LEMMA TpBounds ==
    /\ PerKind \in Nat /\ PerKind >= 1
    /\ Tp!Threads \subseteq Tp!Pipes /\ Tp!Shared \in Tp!Pipes /\ Tp!Shared \notin Tp!Threads
    /\ Tp!Threads \subseteq Nat /\ 0 \in Tp!Threads
    /\ 3 \in Tp!Fds /\ 4 \in Tp!Fds /\ Tp!Fds \subseteq Nat
    /\ \A t \in Tp!Threads : t # PerKind - 1 => t + 1 \in Tp!Threads
    /\ \A t \in Tp!Threads : t <= PerKind - 1
BY ThreadsAssumption DEF Tp!Threads, Tp!Pipes, Tp!Shared, Tp!Fds

\* Numbers that stand for something: few more than there are threads.
LEMMA TpFew ==
    ASSUME NEW g, NEW A, IsFiniteSet(A),
           NEW S, S \subseteq A \cup {g[t] : t \in Tp!Threads}
    PROVE  IsFiniteSet(S) /\ Cardinality(S) <= Cardinality(A) + PerKind
<1> DEFINE G == {g[t] : t \in Tp!Threads}
           h == [t \in Tp!Threads |-> g[t]]
<1>1. IsFiniteSet(Tp!Threads) /\ Cardinality(Tp!Threads) = PerKind
  <2>1. 0 \in Int /\ PerKind - 1 \in Int
    BY TpBounds
  <2> QED  BY <2>1, TpBounds, FS_Interval DEF Tp!Threads
<1>2. h \in Surjection(Tp!Threads, G)
  BY DEF Surjection
<1> HIDE DEF h, G
<1>3. IsFiniteSet(G) /\ Cardinality(G) <= PerKind
  BY <1>1, <1>2, FS_Surjection
<1>4. IsFiniteSet(A \cup G) /\ Cardinality(A \cup G) <= Cardinality(A) + PerKind
  <2>1. IsFiniteSet(A \cup G)
        /\ Cardinality(A \cup G) = Cardinality(A) + Cardinality(G) - Cardinality(A \cap G)
    BY <1>3, FS_Union
  <2>2. Cardinality(A) \in Nat /\ Cardinality(G) \in Nat /\ Cardinality(A \cap G) \in Nat
    BY <1>3, FS_CardinalityType, FS_Intersection
  <2> QED  BY <1>3, <2>1, <2>2, TpBounds
<1>5. IsFiniteSet(S) /\ Cardinality(S) <= Cardinality(A \cup G)
  BY <1>4, FS_Subset DEF G
<1>6. Cardinality(S) \in Nat /\ Cardinality(A \cup G) \in Nat /\ Cardinality(A) \in Nat
  BY <1>4, <1>5, FS_CardinalityType
<1> QED  BY <1>4, <1>5, <1>6, TpBounds

\* The least of a set of numbers is one of them.
LEMMA TpLeast ==
    ASSUME NEW S \in SUBSET Nat, S # {}
    PROVE  Tp!Min(S) \in S
<1> DEFINE R == OpToRel(<, Nat)
<1>1. PICK x \in S : \A y \in S : <<y, x>> \notin R
  <2>1. IsWellFoundedOn(R, Nat)
    BY NatLessThanWellFounded
  <2> HIDE DEF R
  <2> QED  BY <2>1, WFMin
<1>2. \A y \in S : x <= y
  <2> SUFFICES ASSUME NEW y \in S PROVE x <= y
    OBVIOUS
  <2>1. ~(y < x)
    BY <1>1 DEF OpToRel
  <2> QED  BY <2>1
<1> QED  BY <1>2 DEF Tp!Min

\* Whenever main makes a pipe there are two numbers free for it.
LEMMA TpFree ==
    ASSUME TpInv, mainpc = "pipe"
    PROVE  /\ Tp!FirstFree \in Others /\ Tp!SecondFree \in Others /\ Tp!FirstFree # Tp!SecondFree
           /\ fds[Tp!FirstFree] = Tp!Free /\ fds[Tp!SecondFree] = Tp!Free
<1> DEFINE F == {f \in Tp!Fds : fds[f] = Tp!Free}
           g == [t \in Tp!Threads |-> number[t].read]
<1>1. fds[3] # Tp!Free /\ fds[4] # Tp!Free
  BY TpEnds DEF TpInv, TpTable, Making
<1>2. F \subseteq Others /\ F \subseteq Nat
  BY <1>1, TpBounds DEF Others
<1>3. Tp!Fds \ F \subseteq {3, 4} \cup {g[t] : t \in Tp!Threads}
  BY DEF TpInv, TpTable, Others
<1>4. IsFiniteSet({3, 4}) /\ Cardinality({3, 4}) = 2
  <2>1. IsFiniteSet({3}) /\ Cardinality({3}) = 1
    BY FS_Singleton
  <2>2. {3, 4} = {3} \cup {4} /\ 4 \notin {3}
    OBVIOUS
  <2> QED  BY <2>1, <2>2, FS_AddElement
<1>5. IsFiniteSet(Tp!Fds \ F) /\ Cardinality(Tp!Fds \ F) <= 2 + PerKind
  <2> HIDE DEF F, g
  <2> QED  BY <1>3, <1>4, TpFew
<1>6. IsFiniteSet(Tp!Fds) /\ Cardinality(Tp!Fds) = 2 * PerKind + 3
  <2>1. /\ 3 \in Int /\ 2 * PerKind + 5 \in Int /\ ~(3 > 2 * PerKind + 5)
        /\ (2 * PerKind + 5) - 3 + 1 = 2 * PerKind + 3
    BY TpBounds
  <2> QED  BY <2>1, FS_Interval DEF Tp!Fds
<1>7. ASSUME NEW x, F \subseteq {x} PROVE FALSE
  <2>1. IsFiniteSet({x}) /\ Cardinality({x}) = 1
    BY FS_Singleton
  <2>2. IsFiniteSet(F) /\ Cardinality(F) <= 1
    BY <1>7, <2>1, FS_Subset
  <2>3. Tp!Fds = (Tp!Fds \ F) \cup F /\ (Tp!Fds \ F) \cap F = {}
    OBVIOUS
  <2>4. Cardinality(Tp!Fds) = Cardinality(Tp!Fds \ F) + Cardinality(F) - 0
    <3> HIDE DEF F
    <3>1. Cardinality((Tp!Fds \ F) \cup F) = Cardinality(Tp!Fds \ F) + Cardinality(F)
                                             - Cardinality((Tp!Fds \ F) \cap F)
      BY <1>5, <2>2, FS_Union
    <3> QED  BY <2>3, <3>1, FS_EmptySet
  <2>5. Cardinality(Tp!Fds \ F) \in Nat /\ Cardinality(F) \in Nat
    BY <1>5, <2>2, FS_CardinalityType
  <2> HIDE DEF F
  <2> QED  BY <1>5, <1>6, <2>2, <2>4, <2>5, TpBounds
<1>8. F # {}
  BY <1>7
<1>9. Tp!FirstFree \in F
  BY <1>2, <1>8, TpLeast DEF Tp!FirstFree
<1>10. F \ {Tp!FirstFree} # {} /\ F \ {Tp!FirstFree} \subseteq Nat
  BY <1>2, <1>7
<1>11. Tp!SecondFree \in F \ {Tp!FirstFree}
  BY <1>10, TpLeast DEF Tp!SecondFree
<1> QED  BY <1>2, <1>9, <1>11

\* Steps that open and close nothing: a thread that lives goes on living, and main goes
\* round its loop or comes to the first of its joins.
TpQuiet ==
    /\ UNCHANGED <<fds, number>>
    /\ \/ at' = at
       \/ \E t \in Tp!Threads : \E c \in {"check", "select", "read", "close"} :
              at[t] \in {"check", "select", "read"} /\ at' = [at EXCEPT ![t] = c]
    /\ \/ UNCHANGED <<mainpc, turn>>
       \/ /\ mainpc \in {"loop", "write", "select"}
          /\ mainpc' \in {"loop", "write", "select", "join"}
          /\ turn' \in Tp!Threads /\ (mainpc' = "join" => turn' = 0)

\* main's write finds no write end: its number may stand for some thread's read end.
LEMMA TpWrites ==
    ASSUME TpInv, Tp!Write
    PROVE  TpQuiet /\ waiting' = waiting /\ UNCHANGED Tp!signal
<1>1. mainpc = "write" /\ turn \in Tp!Threads
  BY DEF Tp!Write, TpInv, Tp!TypeOK
<1>2. at[turn] # "unborn"
  BY <1>1 DEF TpInv, TpPlaces
<1>3. number[turn].write \in Others
  BY <1>1, <1>2 DEF TpInv, TpNumbers, Made
<1>4. fds[number[turn].write].end # "write"
  <2> DEFINE f == number[turn].write
  <2>1. f \in Others
    BY <1>3
  <2> HIDE DEF f
  <2>2. CASE fds[f] = Tp!Free
    BY <2>2 DEF Tp!Free, f
  <2>3. CASE fds[f] # Tp!Free
    <3>1. PICK t \in Tp!Threads : Living(t) /\ f = number[t].read
      BY <1>1, <2>1, <2>3 DEF TpInv, TpTable
    <3>2. fds[f] = Tp!ReadEnd(t)
      BY <2>3, <3>1 DEF TpInv, TpTable
    <3> QED  BY <3>2 DEF Tp!ReadEnd, f
  <2> QED  BY <2>2, <2>3 DEF f
<1>5. IF turn = PerKind - 1 THEN Tp!To("select", 0) ELSE Tp!To("write", turn + 1)
  BY <1>4 DEF Tp!Write
<1>6. waiting' = waiting /\ UNCHANGED <<fds, number, Tp!signal, at>>
  BY <1>4 DEF Tp!Write
<1> QED  BY <1>1, <1>5, <1>6, TpBounds DEF TpQuiet, Tp!To

\* A step opens and closes nothing, or is one of seven.
LEMMA TpCases ==
    ASSUME TpInv, [Tp!Next]_(Tp!vars)
    PROVE  \/ TpQuiet
           \/ Tp!MakePipe \/ Tp!CloseWrite \/ Tp!CreateThread \/ Tp!CloseShared
           \/ Tp!Join \/ Tp!Leave
           \/ \E t \in Tp!Threads : Tp!Close(t)
<1> USE TpBounds DEF TpQuiet
<1>1. CASE Tp!Write
  BY <1>1, TpWrites
<1>2. CASE Tp!Loop
  BY <1>2 DEF Tp!Loop, Tp!To
<1>3. CASE Tp!Select
  BY <1>3 DEF Tp!Select, Tp!To
<1>4. ASSUME NEW t \in Tp!Threads, Tp!Check(t) PROVE TpQuiet
  BY <1>4 DEF Tp!Check, Tp!Goto
<1>5. ASSUME NEW t \in Tp!Threads, Tp!SelectInput(t) PROVE TpQuiet
  <2>1. PICK c : at' = [at EXCEPT ![t] = c] /\ c \in {"check", "read", "close"}
    <3> DEFINE c == CASE fds[number[t].read] = Tp!Free -> "close"
                      [] fds[number[t].read].end = "read"
                         /\ (waiting[fds[number[t].read].pipe] > 0
                             \/ ~Tp!Open(Tp!WriteEnd(fds[number[t].read].pipe))) -> "read"
                      [] OTHER -> "check"
    <3>1. at' = [at EXCEPT ![t] = c]
      BY <1>5 DEF Tp!SelectInput, Tp!Goto
    <3>2. c \in {"check", "read", "close"}
      OBVIOUS
    <3> QED  BY <3>1, <3>2
  <2> QED  BY <1>5, <2>1 DEF Tp!SelectInput
<1>6. ASSUME NEW t \in Tp!Threads, Tp!Read(t) PROVE TpQuiet
  <2>1. PICK c \in {"check", "close"} : at' = [at EXCEPT ![t] = c]
    BY <1>6 DEF Tp!Read, Tp!Goto
  <2> QED  BY <1>6, <2>1 DEF Tp!Read
<1>7. CASE Tp!SendInt \/ Tp!Sigwait
  BY <1>7 DEF Tp!SendInt, Tp!Sigwait
<1>8. CASE UNCHANGED Tp!vars
  BY <1>8 DEF Tp!vars
<1> QED  BY <1>1, <1>2, <1>3, <1>4, <1>5, <1>6, <1>7, <1>8 DEF Tp!Next, Tp!ThreadStep, Tp!MainStep

\* main creates and joins the threads in their order.
LEMMA TpPlacesStep ==
    ASSUME TpInv, [Tp!Next]_(Tp!vars)
    PROVE  TpPlaces'
<1> USE TpBounds DEF Tp!To, Tp!Goto
<1>t. /\ at \in [Tp!Threads -> {"unborn", "check", "select", "read", "close", "gone"}]
      /\ turn \in Tp!Threads /\ TpPlaces
      /\ mainpc \in {"pipe", "closewrite", "thread", "closeshared", "loop", "write",
                     "select", "join", "leave", "exited", "killed"}
  BY DEF TpInv, Tp!TypeOK
<1>1. CASE TpQuiet
  <2>1. \A t \in Tp!Threads : \/ at'[t] = at[t]
                              \/ /\ at[t] \notin {"unborn", "gone"}
                                 /\ at'[t] \notin {"unborn", "gone"}
    BY <1>1, <1>t DEF TpQuiet
  <2>2. CASE UNCHANGED <<mainpc, turn>>
    BY <2>1, <2>2, <1>t DEF TpPlaces
  <2>3. CASE ~UNCHANGED <<mainpc, turn>>
    <3>1. /\ mainpc \in {"loop", "write", "select"}
          /\ mainpc' \in {"loop", "write", "select", "join"} /\ (mainpc' = "join" => turn' = 0)
      BY <1>1, <2>3 DEF TpQuiet
    <3>2. \A t \in Tp!Threads : t \in Nat
      OBVIOUS
    <3> QED  BY <2>1, <3>1, <3>2, <1>t DEF TpPlaces
  <2> QED  BY <2>2, <2>3
<1>2. CASE Tp!MakePipe
  BY <1>2, <1>t DEF Tp!MakePipe, TpPlaces
<1>3. CASE Tp!CloseWrite
  BY <1>3, <1>t DEF Tp!CloseWrite, TpPlaces
<1>4. CASE Tp!CreateThread
  BY <1>4, <1>t DEF Tp!CreateThread, TpPlaces
<1>5. CASE Tp!CloseShared
  BY <1>5, <1>t DEF Tp!CloseShared, TpPlaces
<1>6. CASE Tp!Join
  BY <1>6, <1>t DEF Tp!Join, TpPlaces
<1>7. CASE Tp!Leave
  BY <1>7, <1>t DEF Tp!Leave, TpPlaces
<1>8. ASSUME NEW t \in Tp!Threads, Tp!Close(t) PROVE TpPlaces'
  BY <1>8, <1>t DEF Tp!Close, TpPlaces
<1> QED  BY <1>1, <1>2, <1>3, <1>4, <1>5, <1>6, <1>7, <1>8, TpCases

\* Who lives after a step that opens nothing lived before it.
LEMMA TpLife ==
    ASSUME TpInv, [Tp!Next]_(Tp!vars), ~Tp!MakePipe
    PROVE  /\ \A t \in Tp!Threads : (Made(t)' <=> Made(t)) /\ (Living(t)' => Living(t))
           /\ number' = number
<1> USE TpBounds DEF Tp!To, Tp!Goto, Made, Living
<1>t. /\ at \in [Tp!Threads -> {"unborn", "check", "select", "read", "close", "gone"}]
      /\ turn \in Tp!Threads /\ TpPlaces
  BY DEF TpInv, Tp!TypeOK
<1>1. CASE TpQuiet
  <2>1. \A t \in Tp!Threads : \/ at'[t] = at[t]
                              \/ /\ at[t] \notin {"unborn", "gone"}
                                 /\ at'[t] \notin {"unborn", "gone"}
    BY <1>1, <1>t DEF TpQuiet
  <2>2. mainpc' \in {"closewrite", "thread"} => UNCHANGED <<mainpc, turn>>
    BY <1>1 DEF TpQuiet
  <2>3. mainpc \in {"closewrite", "thread"} => UNCHANGED <<mainpc, turn>>
    BY <1>1 DEF TpQuiet
  <2> QED  BY <1>1, <2>1, <2>2, <2>3 DEF TpQuiet
<1>3. CASE Tp!CloseWrite
  BY <1>3, <1>t DEF Tp!CloseWrite
<1>4. CASE Tp!CreateThread
  <2>1. /\ mainpc = "thread" /\ mainpc' \in {"closeshared", "pipe"} /\ number' = number
        /\ at' = [at EXCEPT ![turn] = "check"]
    BY <1>4 DEF Tp!CreateThread, TpPlaces
  <2>3. at[turn] = "unborn"
    BY <2>1, <1>t DEF TpPlaces, Made
  <2> QED  BY <2>1, <2>3, <1>t
<1>5. CASE Tp!CloseShared
  BY <1>5, <1>t DEF Tp!CloseShared
<1>6. CASE Tp!Join
  BY <1>6, <1>t DEF Tp!Join
<1>7. CASE Tp!Leave
  BY <1>7, <1>t DEF Tp!Leave
<1>8. ASSUME NEW u \in Tp!Threads, Tp!Close(u)
      PROVE  /\ \A t \in Tp!Threads : (Made(t)' <=> Made(t)) /\ (Living(t)' => Living(t))
             /\ number' = number
  BY <1>8, <1>t DEF Tp!Close
<1> QED  BY <1>1, <1>3, <1>4, <1>5, <1>6, <1>7, <1>8, TpCases

\* The pipe main makes goes to the next thread, which is made with it.
LEMMA TpMakes ==
    ASSUME TpInv, Tp!MakePipe
    PROVE  /\ ~Made(turn)
           /\ turn \in Tp!Threads
           /\ mainpc' = "closewrite"
           /\ mainpc = "pipe"
           /\ turn' = turn
           /\ \A t \in Tp!Threads : /\ Made(t)' <=> Made(t) \/ t = turn
                                    /\ Living(t)' <=> Living(t) \/ t = turn
           /\ Tp!FirstFree \in Others /\ Tp!SecondFree \in Others /\ Tp!FirstFree # Tp!SecondFree
           /\ fds[Tp!FirstFree] = Tp!Free /\ fds[Tp!SecondFree] = Tp!Free
           /\ fds' = [fds EXCEPT ![Tp!FirstFree] = Tp!ReadEnd(turn),
                                 ![Tp!SecondFree] = Tp!WriteEnd(turn)]
           /\ number' = [number EXCEPT ![turn] = [read |-> Tp!FirstFree, write |-> Tp!SecondFree]]
           /\ fds \in [Tp!Fds -> Tp!Ends]
           /\ number \in [Tp!Pipes -> [read : Tp!Fds \cup {0}, write : Tp!Fds \cup {0}]]
<1>1. turn \in Tp!Threads /\ mainpc = "pipe" /\ at[turn] = "unborn"
  <2>1. turn \in Tp!Threads /\ mainpc = "pipe" /\ turn >= turn
    BY TpBounds DEF Tp!MakePipe, TpInv, Tp!TypeOK
  <2> QED  BY <2>1 DEF TpInv, TpPlaces
<1>2. mainpc' = "closewrite" /\ turn' = turn /\ at' = at
  BY DEF Tp!MakePipe, Tp!To
<1>3. /\ fds' = [fds EXCEPT ![Tp!FirstFree] = Tp!ReadEnd(turn),
                            ![Tp!SecondFree] = Tp!WriteEnd(turn)]
      /\ number' = [number EXCEPT ![turn] = [read |-> Tp!FirstFree, write |-> Tp!SecondFree]]
  BY DEF Tp!MakePipe, Tp!WithPipe
<1> QED  BY <1>1, <1>2, <1>3, TpFree DEF Made, Living, TpInv, Tp!TypeOK

\* A thread gets numbers that were free, and keeps them as long as it lives.
LEMMA TpNumbersStep ==
    ASSUME TpInv, [Tp!Next]_(Tp!vars)
    PROVE  TpNumbers'
<1>1. CASE ~Tp!MakePipe
  BY <1>1, TpLife DEF TpNumbers, TpInv
<1>2. CASE Tp!MakePipe
  <2> DEFINE ff == Tp!FirstFree
             sf == Tp!SecondFree
  <2>1. /\ turn \in Tp!Threads /\ ~Made(turn) /\ ff \in Others /\ sf \in Others /\ fds[ff] = Tp!Free
        /\ number' = [number EXCEPT ![turn] = [read |-> ff, write |-> sf]]
        /\ DOMAIN number = Tp!Pipes /\ mainpc = "pipe"
        /\ \A t \in Tp!Threads : (Made(t)' <=> Made(t) \/ t = turn)
                              /\ (Living(t)' <=> Living(t) \/ t = turn)
    BY <1>2, TpMakes
  <2> HIDE DEF ff, sf
  <2>2. /\ number'[Tp!Shared] = number[Tp!Shared]
        /\ number'[turn].read = ff /\ number'[turn].write = sf
        /\ \A t \in Tp!Threads \ {turn} : number'[t] = number[t]
    BY <2>1, TpBounds
  <2>3. \A t \in Tp!Threads : Living(t) => number[t].read # ff
    BY <2>1, TpEnds DEF TpInv, TpTable
  <2> QED  BY <2>1, <2>2, <2>3 DEF TpInv, TpNumbers
<1> QED  BY <1>1, <1>2

\* A number is closed: what it may have been, and what the others go on to stand for.
LEMMA TpTableStep ==
    ASSUME TpInv, [Tp!Next]_(Tp!vars)
    PROVE  TpTable'
<1> USE TpBounds DEF Tp!To, Tp!Goto, Tp!Closed
<1>t. /\ at \in [Tp!Threads -> {"unborn", "check", "select", "read", "close", "gone"}]
      /\ turn \in Tp!Threads /\ TpPlaces /\ TpTable /\ TpNumbers
      /\ fds \in [Tp!Fds -> Tp!Ends]
      /\ number[Tp!Shared].read = 3 /\ number[Tp!Shared].write = 4
  BY DEF TpInv, Tp!TypeOK, TpNumbers
<1>1. CASE TpQuiet
  <2>1. UNCHANGED <<fds, number>> /\ ~Tp!MakePipe
    BY <1>1 DEF TpQuiet, Tp!MakePipe
  <2>2. \A t \in Tp!Threads : Living(t)' <=> Living(t)
    <3>1. \A t \in Tp!Threads : \/ at'[t] = at[t]
                                \/ /\ at[t] \notin {"unborn", "gone"}
                                   /\ at'[t] \notin {"unborn", "gone"}
      BY <1>1, <1>t DEF TpQuiet
    <3> QED  BY <1>1, <3>1 DEF TpQuiet, Living, Made
  <2>3. /\ (mainpc' = "closewrite") <=> (mainpc = "closewrite")
        /\ mainpc = "closewrite" => turn' = turn
        /\ Making' <=> Making
        /\ (mainpc' = "exited") <=> (mainpc = "exited")
        /\ mainpc \in {"join", "leave", "exited"} => mainpc' \in {"join", "leave", "exited"}
    BY <1>1 DEF TpQuiet, Making
  <2> QED  BY <2>1, <2>2, <2>3, <1>t DEF TpTable
<1>2. CASE Tp!MakePipe
  <2> DEFINE ff == Tp!FirstFree
             sf == Tp!SecondFree
  <2>1. /\ turn \in Tp!Threads
        /\ ff \in Others
        /\ sf \in Others
        /\ fds[ff] = Tp!Free
        /\ fds[sf] = Tp!Free
        /\ ff # sf
        /\ fds' = [fds EXCEPT ![ff] = Tp!ReadEnd(turn), ![sf] = Tp!WriteEnd(turn)]
        /\ number' = [number EXCEPT ![turn] = [read |-> ff, write |-> sf]]
        /\ DOMAIN number = Tp!Pipes /\ mainpc = "pipe" /\ mainpc' = "closewrite" /\ turn' = turn
        /\ ~Living(turn)
        /\ \A t \in Tp!Threads : Living(t)' <=> Living(t) \/ t = turn
    BY <1>2, TpMakes DEF Living
  <2> HIDE DEF ff, sf
  <2>2. /\ number'[turn].read = ff /\ number'[turn].write = sf
        /\ \A t \in Tp!Threads \ {turn} : number'[t] = number[t]
    BY <2>1
  <2>3. /\ fds'[ff] = Tp!ReadEnd(turn) /\ fds'[sf] = Tp!WriteEnd(turn)
        /\ \A f \in Tp!Fds \ {ff, sf} : fds'[f] = fds[f]
    BY <2>1, <1>t DEF Others
  <2>4. \A t \in Tp!Threads : Living(t) => number[t].read \in Tp!Fds \ {ff, sf} /\ t # turn
                                           /\ fds[number[t].read] = Tp!ReadEnd(t)
    BY <2>1, <1>t, TpEnds DEF TpTable, TpNumbers, Living, Others
  <2>5. ASSUME NEW f \in Others, fds'[f] # Tp!Free
        PROVE  \/ \E t \in Tp!Threads : Living(t)' /\ f = number'[t].read
               \/ f = number'[turn].write
    <3>1. CASE f \in {ff, sf}
      BY <2>1, <2>2, <3>1
    <3>2. CASE f \notin {ff, sf}
      <4>1. fds[f] # Tp!Free
        BY <2>3, <2>5, <3>2 DEF Others
      <4>2. PICK t \in Tp!Threads : Living(t) /\ f = number[t].read
        BY <2>1, <4>1, <1>t DEF TpTable
      <4> QED  BY <2>1, <2>2, <2>4, <4>2
    <3> QED  BY <3>1, <3>2
  <2>6. fds'[3] = Tp!ReadEnd(Tp!Shared) /\ fds'[4] = Tp!WriteEnd(Tp!Shared)
    BY <2>1, <2>3, <1>t DEF TpTable, Others, Making
  <2> QED  BY <2>1, <2>2, <2>3, <2>4, <2>5, <2>6 DEF TpTable, Making
<1>3. CASE Tp!CloseWrite
  <2> DEFINE w == number[turn].write
  <2>1. /\ mainpc = "closewrite"
        /\ mainpc' = "thread"
        /\ turn' = turn
        /\ number' = number
        /\ at' = at
        /\ fds' = [fds EXCEPT ![w] = Tp!Free] /\ w \in Others /\ fds[w] = Tp!WriteEnd(turn)
    BY <1>3, <1>t DEF Tp!CloseWrite, TpTable, TpNumbers, Made
  <2> HIDE DEF w
  <2>2. \A t \in Tp!Threads : Living(t)' <=> Living(t)
    BY <2>1 DEF Living, Made
  <2>3. fds'[w] = Tp!Free /\ \A f \in Tp!Fds \ {w} : fds'[f] = fds[f]
    BY <2>1, <1>t DEF Others
  <2>4. \A t \in Tp!Threads : Living(t) => number[t].read \in Tp!Fds \ {w}
                                           /\ fds[number[t].read] = Tp!ReadEnd(t)
    <3> SUFFICES ASSUME NEW t \in Tp!Threads, Living(t)
                 PROVE  number[t].read \in Tp!Fds \ {w} /\ fds[number[t].read] = Tp!ReadEnd(t)
      OBVIOUS
    <3>1. fds[number[t].read] = Tp!ReadEnd(t)
      BY <2>1, <1>t DEF TpTable
    <3>2. number[t].read \in Tp!Fds
      BY <1>t DEF TpNumbers, Living, Others
    <3>3. Tp!ReadEnd(t) # Tp!WriteEnd(turn)
      BY TpEnds
    <3> QED  BY <2>1, <3>1, <3>2, <3>3
  <2>5. fds'[3] = Tp!ReadEnd(Tp!Shared) /\ fds'[4] = Tp!WriteEnd(Tp!Shared)
    BY <2>1, <2>3, <1>t DEF TpTable, Others, Making
  <2>6. \A f \in Others : fds'[f] # Tp!Free => f # w /\ fds[f] # Tp!Free
    BY <2>3 DEF Others
  <2> QED  BY <2>1, <2>2, <2>3, <2>4, <2>5, <2>6, <1>t DEF TpTable, Making, w
<1>4. CASE Tp!CreateThread
  <2>1. /\ mainpc = "thread" /\ mainpc' \in {"closeshared", "pipe"} /\ UNCHANGED <<fds, number>>
        /\ at' = [at EXCEPT ![turn] = "check"]
    BY <1>4 DEF Tp!CreateThread, TpPlaces
  <2>3. at[turn] = "unborn"
    BY <2>1, <1>t DEF TpPlaces, Made
  <2>2. \A t \in Tp!Threads : Living(t)' <=> Living(t)
    BY <2>1, <2>3, <1>t DEF Living, Made
  <2> QED  BY <2>1, <2>2, <1>t DEF TpTable, Making
<1>5. CASE Tp!CloseShared
  <2>1. /\ mainpc = "closeshared" /\ mainpc' = "loop" /\ number' = number /\ at' = at
        /\ fds' = [fds EXCEPT ![4] = Tp!Free]
    BY <1>5, <1>t DEF Tp!CloseShared
  <2>2. \A t \in Tp!Threads : Living(t)' <=> Living(t)
    BY <2>1 DEF Living, Made
  <2>3. fds'[4] = Tp!Free /\ \A f \in Tp!Fds \ {4} : fds'[f] = fds[f]
    BY <2>1, <1>t
  <2>4. \A t \in Tp!Threads : Living(t) => number[t].read \in Tp!Fds \ {4}
    BY <1>t DEF TpNumbers, Living, Others
  <2> QED  BY <2>1, <2>2, <2>3, <2>4, <1>t DEF TpTable, Making, Others
<1>6. CASE Tp!Join
  <2> DEFINE w == number[turn].write
  <2>1. /\ mainpc = "join" /\ mainpc' \in {"join", "leave"} /\ number' = number /\ at' = at
        /\ fds' = [fds EXCEPT ![w] = Tp!Free] /\ w \in Others
    BY <1>6, <1>t DEF Tp!Join, TpNumbers, Made
  <2> HIDE DEF w
  <2>2. \A t \in Tp!Threads : Living(t)' <=> Living(t)
    BY <2>1 DEF Living, Made
  <2>3. fds'[w] = Tp!Free /\ \A f \in Tp!Fds \ {w} : fds'[f] = fds[f]
    BY <2>1, <1>t DEF Others
  <2>4. \A t \in Tp!Threads : Living(t) => number[t].read \in Tp!Fds
    BY <1>t DEF TpNumbers, Living, Others
  <2>5. fds'[3] = Tp!ReadEnd(Tp!Shared) /\ fds'[4] = Tp!Free
    BY <2>1, <2>3, <1>t DEF TpTable, Others, Making
  <2>6. \A f \in Others : fds'[f] # Tp!Free => fds[f] # Tp!Free
    BY <2>3 DEF Others
  <2>7. ASSUME NEW t \in Tp!Threads, Living(t)
        PROVE  fds'[number[t].read] \in {Tp!ReadEnd(t), Tp!Free}
    BY <2>1, <2>3, <2>4, <2>7, <1>t DEF TpTable
  <2> QED  BY <2>1, <2>2, <2>5, <2>6, <2>7, <1>t DEF TpTable, Making
<1>7. CASE Tp!Leave
  <2>1. /\ mainpc = "leave" /\ mainpc' = "exited" /\ number' = number /\ at' = at
        /\ fds' = [fds EXCEPT ![3] = Tp!Free]
    BY <1>7, <1>t DEF Tp!Leave
  <2>2. \A t \in Tp!Threads : ~Living(t)' /\ ~Living(t)
    BY <2>1, <1>t DEF Living, Made, TpPlaces
  <2>3. fds'[3] = Tp!Free /\ \A f \in Tp!Fds \ {3} : fds'[f] = fds[f]
    BY <2>1, <1>t
  <2> QED  BY <2>1, <2>2, <2>3, <1>t DEF TpTable, Making, Others
<1>8. ASSUME NEW u \in Tp!Threads, Tp!Close(u) PROVE TpTable'
  <2> DEFINE r == number[u].read
  <2>1. /\ UNCHANGED <<mainpc, turn, number>> /\ at[u] = "close" /\ at' = [at EXCEPT ![u] = "gone"]
        /\ fds' = [fds EXCEPT ![r] = Tp!Free]
    BY <1>8 DEF Tp!Close
  <2>2. Living(u) /\ r \in Others
    BY <2>1, <1>t DEF Living, Made, TpNumbers
  <2>3. /\ ~Living(u)'
        /\ \A t \in Tp!Threads \ {u} : Living(t)' <=> Living(t)
    BY <2>1, <1>t DEF Living, Made
  <2>4. fds'[r] = Tp!Free /\ \A f \in Tp!Fds \ {r} : fds'[f] = fds[f]
    BY <2>1, <2>2, <1>t DEF Others
  <2>5. \A t \in Tp!Threads \ {u} : Living(t) => number[t].read \in Tp!Fds \ {r}
    BY <2>2, <1>t DEF TpNumbers, Living, Others
  <2>6. mainpc = "closewrite" => number[turn].write \in Tp!Fds \ {r}
    <3>1. ASSUME mainpc = "closewrite", number[turn].write = r PROVE FALSE
      <4>1. fds[r] = Tp!WriteEnd(turn) /\ fds[r] = Tp!ReadEnd(u)
        BY <2>2, <3>1, <1>t DEF TpTable
      <4> QED  BY <4>1, TpEnds
    <3>2. mainpc = "closewrite" => number[turn].write \in Tp!Fds
      BY <1>t DEF TpNumbers, Made, Others
    <3> QED  BY <3>1, <3>2
  <2> HIDE DEF r
  <2>7. fds'[3] = fds[3] /\ fds'[4] = fds[4]
    BY <2>2, <2>4 DEF Others
  <2>8. ASSUME NEW f \in Others, fds'[f] # Tp!Free
        PROVE  \/ \E t \in Tp!Threads : Living(t)' /\ f = number[t].read
               \/ mainpc = "closewrite" /\ f = number[turn].write
    <3>1. f # r /\ fds[f] # Tp!Free
      BY <2>4, <2>8 DEF Others
    <3> QED  BY <2>3, <3>1, <1>t DEF TpTable, r
  <2>9. ASSUME NEW t \in Tp!Threads, Living(t)'
        PROVE  fds'[number[t].read] = fds[number[t].read] /\ Living(t)
    BY <2>3, <2>4, <2>5, <2>9
  <2> QED  BY <2>1, <2>4, <2>6, <2>7, <2>8, <2>9, <1>t DEF TpTable, Making
<1> QED  BY <1>1, <1>2, <1>3, <1>4, <1>5, <1>6, <1>7, <1>8, TpCases

\* The types are preserved, the bound on the open descriptors by counting the threads.
LEMMA TpType ==
    ASSUME TpInv, [Tp!Next]_(Tp!vars)
    PROVE  Tp!TypeOK'
<1> USE TpBounds DEF Tp!To, Tp!Goto, Tp!Closed, Tp!signal
<1>t. /\ fds \in [Tp!Fds -> Tp!Ends] /\ Tp!Free \in Tp!Ends
      /\ number \in [Tp!Pipes -> [read : Tp!Fds \cup {0}, write : Tp!Fds \cup {0}]]
      /\ waiting \in [Tp!Pipes -> Nat]
      /\ working \in BOOLEAN /\ sig \in {"none", "pending", "taken"}
      /\ at \in [Tp!Threads -> {"unborn", "check", "select", "read", "close", "gone"}]
      /\ mainpc \in {"pipe", "closewrite", "thread", "closeshared", "loop", "write",
                     "select", "join", "leave", "exited", "killed"}
      /\ turn \in Tp!Threads
  BY TpEnds DEF TpInv, Tp!TypeOK
<1>1. /\ fds' \in [Tp!Fds -> Tp!Ends]
      /\ number' \in [Tp!Pipes -> [read : Tp!Fds \cup {0}, write : Tp!Fds \cup {0}]]
      /\ at' \in [Tp!Threads -> {"unborn", "check", "select", "read", "close", "gone"}]
      /\ mainpc' \in {"pipe", "closewrite", "thread", "closeshared", "loop", "write",
                      "select", "join", "leave", "exited", "killed"}
      /\ turn' \in Tp!Threads
  <2>1. CASE TpQuiet
    BY <2>1, <1>t DEF TpQuiet
  <2>2. CASE Tp!MakePipe
    <3> DEFINE ff == Tp!FirstFree
               sf == Tp!SecondFree
    <3>1. /\ turn' = turn /\ ff \in Tp!Fds /\ sf \in Tp!Fds
          /\ fds' = [fds EXCEPT ![ff] = Tp!ReadEnd(turn), ![sf] = Tp!WriteEnd(turn)]
          /\ number' = [number EXCEPT ![turn] = [read |-> ff, write |-> sf]]
          /\ mainpc' = "closewrite"
      BY <2>2, TpMakes DEF Others
    <3>2. at' = at
      BY <2>2 DEF Tp!MakePipe
    <3>3. Tp!ReadEnd(turn) \in Tp!Ends /\ Tp!WriteEnd(turn) \in Tp!Ends
      BY <1>t, TpEnds
    <3> HIDE DEF ff, sf
    <3> QED  BY <3>1, <3>2, <3>3, <1>t
  <2>3. CASE Tp!CloseWrite
    BY <2>3, <1>t DEF Tp!CloseWrite
  <2>4. CASE Tp!CreateThread
    BY <2>4, <1>t DEF Tp!CreateThread
  <2>5. CASE Tp!CloseShared
    BY <2>5, <1>t DEF Tp!CloseShared
  <2>6. CASE Tp!Join
    BY <2>6, <1>t DEF Tp!Join
  <2>7. CASE Tp!Leave
    BY <2>7, <1>t DEF Tp!Leave
  <2>8. ASSUME NEW t \in Tp!Threads, Tp!Close(t)
        PROVE  /\ fds' \in [Tp!Fds -> Tp!Ends] /\ UNCHANGED <<number, mainpc, turn>>
               /\ at' \in [Tp!Threads -> {"unborn", "check", "select", "read", "close", "gone"}]
    BY <2>8, <1>t DEF Tp!Close
  <2> QED  BY <2>1, <2>2, <2>3, <2>4, <2>5, <2>6, <2>7, <2>8, <1>t, TpCases
<1>2. /\ waiting' \in [Tp!Pipes -> Nat] /\ working' \in BOOLEAN
      /\ sig' \in {"none", "pending", "taken"}
  <2>1. CASE Tp!Write
    BY <2>1, <1>t, TpWrites
  <2>2. CASE Tp!Select
    BY <2>2, <1>t DEF Tp!Select
  <2>3. ASSUME NEW t \in Tp!Threads, Tp!Read(t)
        PROVE  waiting' \in [Tp!Pipes -> Nat] /\ UNCHANGED Tp!signal
    <3>1. waiting[Tp!Shared] + 1 \in Nat
      BY <1>t
    <3>2. \/ waiting' = waiting
          \/ \E p, w : w \in Nat /\ waiting' = [waiting EXCEPT ![p] = 0, ![Tp!Shared] = w]
      BY <2>3, <3>1, <1>t DEF Tp!Read
    <3> QED  BY <2>3, <3>2, <1>t DEF Tp!Read
  <2>4. CASE \/ Tp!MakePipe \/ Tp!CloseWrite \/ Tp!CreateThread \/ Tp!CloseShared
             \/ Tp!Loop \/ Tp!Join \/ Tp!Leave
    BY <2>4, <1>t DEF Tp!MakePipe, Tp!CloseWrite, Tp!CreateThread, Tp!CloseShared, Tp!Loop,
            Tp!Join, Tp!Leave
  <2>5. ASSUME NEW t \in Tp!Threads, Tp!Check(t) \/ Tp!SelectInput(t) \/ Tp!Close(t)
        PROVE  UNCHANGED <<waiting, Tp!signal>>
    BY <2>5 DEF Tp!Check, Tp!SelectInput, Tp!Close
  <2>6. CASE Tp!SendInt \/ Tp!Sigwait
    BY <2>6, <1>t DEF Tp!SendInt, Tp!Sigwait
  <2>7. CASE UNCHANGED Tp!vars
    BY <2>7, <1>t DEF Tp!vars
  <2> QED  BY <2>1, <2>2, <2>3, <2>4, <2>5, <2>6, <2>7, <1>t DEF Tp!Next, Tp!ThreadStep, Tp!MainStep
<1>3. Cardinality({f \in Tp!Fds : fds'[f] # Tp!Free}) <= PerKind + 3
  <2> DEFINE open == {f \in Tp!Fds : fds'[f] # Tp!Free}
             A == {3, 4, number'[turn'].write}
             g == [t \in Tp!Threads |-> number'[t].read]
  <2>1. open \subseteq A \cup {g[t] : t \in Tp!Threads}
    BY TpTableStep DEF TpTable, Others
  <2>2. IsFiniteSet(A) /\ Cardinality(A) <= 3
    <3> DEFINE w == number'[turn'].write
    <3> HIDE DEF w
    <3>1. IsFiniteSet({w}) /\ Cardinality({w}) = 1
      BY FS_Singleton
    <3>2. /\ IsFiniteSet({w} \cup {3})
          /\ Cardinality({w} \cup {3}) = 1 \/ Cardinality({w} \cup {3}) = 2
      <4>1. CASE 3 \in {w}
        <5>1. {w} \cup {3} = {w}
          BY <4>1
        <5> QED  BY <5>1, <3>1
      <4>2. CASE 3 \notin {w}
        <5>1. IsFiniteSet({w} \cup {3}) /\ Cardinality({w} \cup {3}) = Cardinality({w}) + 1
          BY <4>2, <3>1, FS_AddElement
        <5> QED  BY <5>1, <3>1
      <4> QED  BY <4>1, <4>2
    <3>3. /\ IsFiniteSet(({w} \cup {3}) \cup {4})
          /\ Cardinality(({w} \cup {3}) \cup {4}) <= 3
      <4> DEFINE B == {w} \cup {3}
      <4>1. IsFiniteSet(B) /\ (Cardinality(B) = 1 \/ Cardinality(B) = 2)
        BY <3>2
      <4> HIDE DEF B
      <4>2. /\ IsFiniteSet(B \cup {4})
            /\ Cardinality(B \cup {4}) = IF 4 \in B THEN Cardinality(B) ELSE Cardinality(B) + 1
        BY <4>1, FS_AddElement
      <4>3. IsFiniteSet(B \cup {4}) /\ Cardinality(B \cup {4}) <= 3
        BY <4>1, <4>2
      <4> QED  BY <4>3 DEF B
    <3>4. ({w} \cup {3}) \cup {4} = A
      BY DEF w
    <3> QED  BY <3>3, <3>4
  <2> HIDE DEF open, A, g
  <2>3. IsFiniteSet(open) /\ Cardinality(open) <= Cardinality(A) + PerKind
    BY <2>1, <2>2, TpFew
  <2>4. Cardinality(open) \in Nat /\ Cardinality(A) \in Nat
    BY <2>2, <2>3, FS_CardinalityType
  <2>5. Cardinality(open) <= PerKind + 3
    BY <2>2, <2>3, <2>4
  <2> QED  BY <2>5 DEF open
<1>4. Tp!Cardinality({f \in Tp!Fds : fds'[f] # Tp!Free}) <= PerKind + 3
  BY <1>3, TpCard
<1> QED  BY <1>1, <1>2, <1>4 DEF Tp!TypeOK

\* main begins with two descriptors open.
LEMMA TpTwo == Cardinality({3} \cup {4}) = 2
<1>1. IsFiniteSet({3}) /\ Cardinality({3}) = 1
  BY FS_Singleton
<1>2. 4 \notin {3}
  OBVIOUS
<1>3. Cardinality({3} \cup {4}) = Cardinality({3}) + 1
  BY <1>1, <1>2, FS_AddElement
<1> QED  BY <1>1, <1>3

\* It begins so.
LEMMA TpInit ==
    ASSUME Tp!Init
    PROVE  TpInv
<1> USE TpBounds, TpEnds DEF Tp!Init
<1>1. /\ fds[3] = Tp!ReadEnd(Tp!Shared) /\ fds[4] = Tp!WriteEnd(Tp!Shared)
      /\ \A f \in Others : fds[f] = Tp!Free
      /\ fds \in [Tp!Fds -> Tp!Ends]
  BY DEF Others
<1>2. TpPlaces /\ TpNumbers /\ TpTable
  <2>1. \A t \in Tp!Threads : ~Made(t) /\ t >= turn
    BY DEF Made
  <2>2. number[Tp!Shared] = [read |-> 3, write |-> 4]
    OBVIOUS
  <2>3. TpPlaces
    BY <2>1 DEF TpPlaces
  <2>4. TpNumbers
    BY <2>1, <2>2 DEF TpNumbers, Living
  <2> QED  BY <1>1, <2>1, <2>3, <2>4 DEF TpTable, Living, Making
<1>3. Cardinality({f \in Tp!Fds : fds[f] # Tp!Free}) <= PerKind + 3
  <2>1. {f \in Tp!Fds : fds[f] # Tp!Free} = {3} \cup {4}
    BY <1>1 DEF Others
  <2>2. 2 <= PerKind + 3
    BY TpBounds
  <2> HIDE DEF Tp!Init
  <2> QED  BY <2>1, <2>2, TpTwo
<1>4. Tp!TypeOK
  <2>1. number \in [Tp!Pipes -> [read : Tp!Fds \cup {0}, write : Tp!Fds \cup {0}]]
    OBVIOUS
  <2>2. Tp!Cardinality({f \in Tp!Fds : fds[f] # Tp!Free}) <= PerKind + 3
    BY <1>3, TpCard
  <2> QED  BY <1>1, <2>1, <2>2 DEF Tp!TypeOK
<1> QED  BY <1>2, <1>4 DEF TpInv

\* The number a thread reads from and closes stands for its own pipe or for nothing, in
\* spite of main's second close() of every write end, and no end is left over (the
\* close() calls of main and of its threads): for any number of threads.
THEOREM PipesStayApart == ChosenSpec => []OwnPipe
<1>1. TpInv /\ [Tp!Next]_(Tp!vars) => TpInv'
  BY TpType, TpPlacesStep, TpNumbersStep, TpTableStep DEF TpInv
<1>2. TpInv => OwnPipe
  <2> SUFFICES ASSUME TpInv PROVE Tp!OwnPipe
    BY DEF OwnPipe
  <2>1. ASSUME NEW t \in Tp!Threads, at[t] \notin {"unborn", "gone"}
        PROVE  fds[number[t].read] \in {Tp!ReadEnd(t), Tp!Free}
    BY <2>1 DEF TpInv, TpTable, Living, Made
  <2>2. ASSUME mainpc = "leave"
        PROVE  {f \in Tp!Fds : fds[f] # Tp!Free} = {number[Tp!Shared].read}
    <3>1. \A t \in Tp!Threads : ~Living(t)
      BY <2>2 DEF TpInv, TpPlaces, Living
    <3>2. \A f \in Others : fds[f] = Tp!Free
      BY <2>2, <3>1 DEF TpInv, TpTable
    <3>3. fds[3] # Tp!Free /\ fds[4] = Tp!Free /\ number[Tp!Shared].read = 3
      BY <2>2, TpEnds DEF TpInv, TpTable, TpNumbers, Making
    <3> QED  BY <3>2, <3>3, TpBounds DEF Others
  <2> QED  BY <2>1, <2>2 DEF Tp!OwnPipe, TpInv
<1> QED  BY <1>1, <1>2, TpInit, TpMoves, PTL DEF ChosenSpec, ChosenInit

(***************************************************************************)
(* PipeRing: its ring has three processes, as in the code.                 *)
(***************************************************************************)
\* Its steps are those of PipeRing.
LEMMA RgMoves ==
    ASSUME [ChosenNext]_chosenVars
    PROVE  [Rg!Next]_(Rg!vars)
<1> USE DEF ring, Rg!vars
<1>1. CASE UNCHANGED ring
  BY <1>1
<1>2. CASE RunRing /\ ~UNCHANGED ring
  <2> USE <1>2 DEF RunRing, RunThreads
  <2>1. CASE \E p \in Rg!Procs : RingProcess(p)
    BY <2>1 DEF RingProcess, Rg!Next
  <2>2. CASE (\E t \in Tp!Threads : Thread(t)) \/ Parents \/ FailedFork \/ Interrupt
    BY <2>2 DEF Thread, Parents, FailedFork, Interrupt, Rg!Next
  <2> QED  BY <2>1, <2>2 DEF ChosenNext, chosenVars
<1> QED
  BY <1>1, <1>2 DEF ChosenNext, chosenVars, RingProcess, Thread, Parents, FailedFork, Interrupt,
     RunRing, RunThreads

\* The two copies of Cardinality are one.
LEMMA RgCard == \A S : Rg!Cardinality(S) = Cardinality(S)
BY DEF Rg!Cardinality, Cardinality

\* Which processes are there, and how many ends one that closes them has closed.
RgPlaces ==
    /\ rgPc[0] \notin {"unborn", "absent"}
    /\ \A c \in Rg!Children : rgPc[c] # "fork" /\ (rgPc[c] = "unborn" => rgPc[0] = "fork")
    /\ \A p \in Rg!Procs : /\ rgPc[p] \in {"unborn", "fork"} => rgClosed[p] = 0
                           /\ rgPc[p] = "setup" => rgClosed[p] \in 0 .. 3

\* Everybody alive keeps the end it writes to, the parent all ends until the last fork.
RgEnds ==
    /\ \A p \in Rg!Procs : Rg!Alive(p) => p \in rgWriters[p]
    /\ rgPc[0] = "fork" => \A j \in Rg!Pipes : 0 \in rgWriters[j]

\* The number is nowhere before the parent sends it, then in one place, then nowhere.
RgNumber ==
    /\ rgPc[0] \in {"fork", "setup"} =>
          Rg!Holders \cup Rg!Full = {} /\ \A p \in Rg!Procs : rgPc[p] # "found"
    /\ \A p \in Rg!Procs : rgPc[p] = "found" => Rg!Holders \cup Rg!Full = {}
    /\ \A p, q \in Rg!Holders : p = q
    /\ \A j, l \in Rg!Full : j = l
    /\ Rg!Holders # {} => Rg!Full = {}

RgInv == Rg!TypeOK /\ RgPlaces /\ RgEnds /\ RgNumber /\ Rg!NoEarlyEnd

\* The ring, and that nobody closes the end it writes to.
LEMMA RgRing ==
    /\ Rg!Procs = {0, 1, 2} /\ Rg!Pipes = Rg!Procs /\ Rg!Children = {1, 2}
    /\ Rg!Predecessor(0) = 2 /\ Rg!Predecessor(1) = 0 /\ Rg!Predecessor(2) = 1
    /\ \A p \in Rg!Procs : Rg!Predecessor(p) \in Rg!Procs
    /\ \A p \in Rg!Procs : Len(Rg!Closing(p)) = 4
    /\ \A p \in Rg!Procs, k \in 1 .. 4 :
          /\ Rg!Closing(p)[k][1] \in {"r", "w"}
          /\ Rg!Closing(p)[k][1] = "w" => Rg!Closing(p)[k][2] # p
<1>1. /\ Rg!Procs = {0, 1, 2} /\ Rg!Pipes = Rg!Procs /\ Rg!Children = {1, 2}
      /\ Rg!Predecessor(0) = 2 /\ Rg!Predecessor(1) = 0 /\ Rg!Predecessor(2) = 1
  BY DEF Rg!Procs, Rg!Pipes, Rg!Children, Rg!Predecessor
<1>2. Rg!Closing(0) = << <<"r", 0>>, <<"w", 1>>, <<"w", 2>>, <<"r", 1>> >>
  BY DEF Rg!Closing
<1>3. Rg!Closing(1) = << <<"w", 0>>, <<"r", 1>>, <<"r", 2>>, <<"w", 2>> >>
  BY DEF Rg!Closing
<1>4. Rg!Closing(2) = << <<"w", 0>>, <<"r", 0>>, <<"w", 1>>, <<"r", 2>> >>
  BY DEF Rg!Closing
<1>5. \A k \in 1 .. 4 : k = 1 \/ k = 2 \/ k = 3 \/ k = 4
  OBVIOUS
<1> QED  BY <1>1, <1>2, <1>3, <1>4, <1>5

\* One close().
LEMMA RgClose ==
    ASSUME RgInv, NEW p \in Rg!Procs, Rg!Close(p)
    PROVE  /\ rgPc[p] = "setup" /\ UNCHANGED <<rgX, rgPipe>>
           /\ rgReaders' \in [Rg!Pipes -> SUBSET Rg!Procs]
           /\ rgWriters' \in [Rg!Pipes -> SUBSET Rg!Procs]
           /\ rgWriters'[p] = rgWriters[p] /\ \A q \in Rg!Procs \ {p}, j \in Rg!Pipes :
                 q \in rgWriters'[j] <=> q \in rgWriters[j]
           /\ rgClosed' \in [Rg!Procs -> 0 .. 4]
           /\ \A q \in Rg!Procs \ {p} : rgClosed'[q] = rgClosed[q]
           /\ \/ rgClosed'[p] \in 0 .. 3 /\ rgPc' = rgPc
              \/ rgClosed'[p] = 4 /\ rgPc' = [rgPc EXCEPT ![p] = Rg!FirstPlace(p)]
<1> DEFINE end == Rg!Closing(p)[rgClosed[p] + 1]
<1>t. /\ rgPc[p] = "setup" /\ rgClosed[p] \in 0 .. 3
      /\ rgReaders \in [Rg!Pipes -> SUBSET Rg!Procs] /\ rgWriters \in [Rg!Pipes -> SUBSET Rg!Procs]
      /\ rgClosed \in [Rg!Procs -> 0 .. 4]
      /\ rgPc \in [Rg!Procs -> {"unborn", "fork", "setup", "send", "read"} \cup Rg!Fates]
  BY DEF Rg!Close, RgInv, RgPlaces, Rg!TypeOK
<1>1. rgClosed[p] + 1 \in 1 .. 4 /\ Len(Rg!Closing(p)) = 4
  BY <1>t, RgRing
<1>2. end[1] \in {"r", "w"} /\ (end[1] = "w" => end[2] # p)
  BY <1>1, RgRing
<1>3. /\ rgReaders' = IF end[1] = "r" THEN [rgReaders EXCEPT ![end[2]] = @ \ {p}] ELSE rgReaders
      /\ rgWriters' = IF end[1] = "w" THEN [rgWriters EXCEPT ![end[2]] = @ \ {p}] ELSE rgWriters
      /\ rgClosed' = [rgClosed EXCEPT ![p] = @ + 1] /\ UNCHANGED <<rgX, rgPipe>>
  BY DEF Rg!Close
<1> HIDE DEF end
<1>4. rgReaders' \in [Rg!Pipes -> SUBSET Rg!Procs] /\ rgWriters' \in [Rg!Pipes -> SUBSET Rg!Procs]
  BY <1>t, <1>3
<1>5. rgWriters'[p] = rgWriters[p] /\ \A q \in Rg!Procs \ {p}, j \in Rg!Pipes :
                   q \in rgWriters'[j] <=> q \in rgWriters[j]
  BY <1>t, <1>2, <1>3
<1>6. rgClosed'[p] = rgClosed[p] + 1 /\ rgClosed' \in [Rg!Procs -> 0 .. 4]
      /\ \A q \in Rg!Procs \ {p} : rgClosed'[q] = rgClosed[q]
  BY <1>t, <1>1, <1>3
<1>7. rgPc' = [rgPc EXCEPT ![p] = IF rgClosed'[p] = 4 THEN Rg!FirstPlace(p) ELSE "setup"]
  BY <1>1 DEF Rg!Close, Rg!Goto
<1>8. rgClosed'[p] # 4 => rgPc' = rgPc
  BY <1>7, <1>t
<1>9. rgClosed'[p] \in 0 .. 3 \/ rgClosed'[p] = 4
  BY <1>t, <1>6
<1>10. rgClosed'[p] = 4 => rgPc' = [rgPc EXCEPT ![p] = Rg!FirstPlace(p)]
  BY <1>7
<1> QED  BY <1>t, <1>3, <1>4, <1>5, <1>6, <1>8, <1>9, <1>10

\* A pipe that held one number is empty without it.
LEMMA RgTail == \A s \in {<<"0">>, <<"other">>} : Tail(s) = <<>>
<1> SUFFICES ASSUME NEW a PROVE Tail(<<a>>) = <<>>
  OBVIOUS
<1>1. <<a>> \in Seq({a}) /\ Len(<<a>>) = 1 /\ <<a>> # <<>>
  OBVIOUS
<1>2. Tail(<<a>>) \in Seq({a}) /\ Len(Tail(<<a>>)) = 0
  BY <1>1, HeadTailProperties
<1> QED  BY <1>2, EmptySeq

\* Every step keeps the invariant; an end of input is seen only when its writer is gone.
LEMMA RgStep ==
    ASSUME RgInv, [Rg!Next]_(Rg!vars)
    PROVE  RgInv'
<1> USE RgRing DEF Rg!Holders, Rg!Full, Rg!Fates, Rg!Ended, Rg!Alive
<1>t. /\ Rg!TypeOK /\ RgPlaces /\ RgEnds /\ RgNumber /\ Rg!NoEarlyEnd
      /\ rgPc \in [Rg!Procs -> {"unborn", "fork", "setup", "send", "read"} \cup Rg!Fates]
      /\ rgClosed \in [Rg!Procs -> 0 .. 4] /\ rgX \in [Rg!Procs -> {"0", "other"}]
      /\ rgReaders \in [Rg!Pipes -> SUBSET Rg!Procs] /\ rgWriters \in [Rg!Pipes -> SUBSET Rg!Procs]
      /\ rgPipe \in [Rg!Pipes -> {<<>>, <<"0">>, <<"other">>}]
  BY DEF RgInv, Rg!TypeOK
<1>1. ASSUME NEW c \in Rg!Children, Rg!Fork(c) PROVE RgInv'
  <2>1. /\ rgPc[0] = "fork" /\ rgPc[c] = "unborn" /\ (c = 2 => rgPc[1] # "unborn")
        /\ rgPc' = [rgPc EXCEPT ![c] = "setup", ![0] = IF c = 2 THEN "setup" ELSE "fork"]
        /\ rgReaders' = [j \in Rg!Pipes |-> IF 0 \in rgReaders[j] THEN rgReaders[j] \cup {c}
                                                                  ELSE rgReaders[j]]
        /\ rgWriters' = [j \in Rg!Pipes |-> rgWriters[j] \cup {c}]
        /\ UNCHANGED <<rgClosed, rgX, rgPipe>>
    BY <1>1, <1>t DEF Rg!Fork, Rg!NextToFork, RgEnds
  <2>2. Rg!TypeOK' /\ RgPlaces'
    BY <2>1, <1>t DEF Rg!TypeOK, RgPlaces
  <2>3. RgEnds'
    BY <2>1, <1>t DEF RgEnds
  <2>4. RgNumber'
    BY <2>1, <1>t DEF RgNumber
  <2>5. Rg!NoEarlyEnd'
    BY <2>1, <1>t DEF Rg!NoEarlyEnd
  <2> QED  BY <2>2, <2>3, <2>4, <2>5 DEF RgInv
<1>2. ASSUME NEW c \in Rg!Children, Rg!ForkFails(c) PROVE RgInv'
  <2>1. /\ rgPc[0] = "fork" /\ rgPc[c] = "unborn" /\ (c = 2 => rgPc[1] # "unborn")
        /\ rgPc' = [rgPc EXCEPT ![c] = "absent", ![0] = IF c = 2 THEN "setup" ELSE "fork"]
        /\ UNCHANGED <<rgClosed, rgX, rgReaders, rgWriters, rgPipe>>
    BY <1>2 DEF Rg!ForkFails, Rg!NextToFork, Rg!descriptors
  <2>2. Rg!TypeOK' /\ RgPlaces'
    BY <2>1, <1>t DEF Rg!TypeOK, RgPlaces
  <2>3. RgEnds'
    BY <2>1, <1>t DEF RgEnds
  <2>4. RgNumber'
    BY <2>1, <1>t DEF RgNumber
  <2>5. Rg!NoEarlyEnd'
    BY <2>1, <1>t DEF Rg!NoEarlyEnd
  <2> QED  BY <2>2, <2>3, <2>4, <2>5 DEF RgInv
<1>3. ASSUME NEW p \in Rg!Procs, Rg!Close(p) PROVE RgInv'
  <2>1. /\ rgPc[p] = "setup" /\ UNCHANGED <<rgX, rgPipe>>
        /\ rgReaders' \in [Rg!Pipes -> SUBSET Rg!Procs]
        /\ rgWriters' \in [Rg!Pipes -> SUBSET Rg!Procs]
        /\ rgWriters'[p] = rgWriters[p] /\ \A q \in Rg!Procs \ {p}, j \in Rg!Pipes :
                 q \in rgWriters'[j] <=> q \in rgWriters[j]
        /\ rgClosed' \in [Rg!Procs -> 0 .. 4]
        /\ \A q \in Rg!Procs \ {p} : rgClosed'[q] = rgClosed[q]
        /\ \/ rgClosed'[p] \in 0 .. 3 /\ rgPc' = rgPc
           \/ rgClosed'[p] = 4 /\ rgPc' = [rgPc EXCEPT ![p] = Rg!FirstPlace(p)]
    BY <1>3, RgClose
  <2>2. Rg!FirstPlace(p) = IF p = 0 THEN "send" ELSE "read"
    BY DEF Rg!FirstPlace
  <2>3. Rg!TypeOK' /\ RgPlaces'
    BY <2>1, <2>2, <1>t DEF Rg!TypeOK, RgPlaces
  <2>4. RgEnds'
    BY <2>1, <2>2, <1>t DEF RgEnds
  <2>5. RgNumber'
    BY <2>1, <2>2, <1>t DEF RgNumber
  <2>6. Rg!NoEarlyEnd'
    BY <2>1, <2>2, <1>t DEF Rg!NoEarlyEnd
  <2> QED  BY <2>3, <2>4, <2>5, <2>6 DEF RgInv
<1>4. ASSUME NEW p \in Rg!Procs, Rg!Send(p) PROVE RgInv'
  <2>1. /\ rgPc[p] = "send"
        /\ rgPc' = [rgPc EXCEPT ![p] = "read"]
        /\ rgX' = [rgX EXCEPT ![p] = "other"]
        /\ UNCHANGED <<rgClosed, rgReaders, rgWriters>>
        /\ rgPipe' = rgPipe \/ rgPipe' = [rgPipe EXCEPT ![p] = Append(@, rgX[p])]
    BY <1>4 DEF Rg!Send, Rg!Goto, Rg!OutPipe, Rg!descriptors
  <2>2. /\ Rg!Full = {} /\ Rg!Holders = {p} /\ rgPc[0] \notin {"fork", "setup"}
        /\ \A q \in Rg!Procs : rgPc[q] # "found"
    BY <2>1, <1>t DEF RgNumber
  <2>3. rgPipe[p] = <<>> /\ Append(<<>>, rgX[p]) \in {<<"0">>, <<"other">>}
    BY <2>2, <1>t
  <2>4. /\ Rg!Holders' = {} /\ Rg!Full' \in {{}, {p}}
        /\ rgPipe' \in [Rg!Pipes -> {<<>>, <<"0">>, <<"other">>}]
    BY <2>1, <2>2, <2>3, <1>t
  <2>5. Rg!TypeOK' /\ RgPlaces'
    BY <2>1, <2>4, <1>t DEF Rg!TypeOK, RgPlaces
  <2>6. RgEnds'
    BY <2>1, <1>t DEF RgEnds
  <2>7. RgNumber'
    BY <2>1, <2>2, <2>4, <1>t DEF RgNumber
  <2>8. Rg!NoEarlyEnd'
    BY <2>1, <1>t DEF Rg!NoEarlyEnd
  <2> QED  BY <2>5, <2>6, <2>7, <2>8 DEF RgInv
<1>5. ASSUME NEW p \in Rg!Procs, Rg!Receive(p) PROVE RgInv'
  <2>1. /\ rgPc[p] = "read" /\ rgPc' = [rgPc EXCEPT ![p] = "send"]
        /\ Rg!Predecessor(p) \in Rg!Full /\ rgPipe' = [rgPipe EXCEPT ![Rg!Predecessor(p)] = Tail(@)]
        /\ rgX' \in [Rg!Procs -> {"0", "other"}] /\ UNCHANGED <<rgClosed, rgReaders, rgWriters>>
    BY <1>5, <1>t DEF Rg!Receive, Rg!Goto, Rg!InPipe, Rg!descriptors
  <2>2. Rg!Full = {Rg!Predecessor(p)} /\ Rg!Holders = {} /\ rgPc[0] \notin {"fork", "setup"}
        /\ \A q \in Rg!Procs : rgPc[q] # "found"
    BY <2>1, <1>t DEF RgNumber
  <2>3. Tail(rgPipe[Rg!Predecessor(p)]) = <<>>
    <3>1. rgPipe[Rg!Predecessor(p)] # <<>>
      BY <2>1
    <3>2. rgPipe[Rg!Predecessor(p)] \in {<<>>, <<"0">>, <<"other">>}
      BY <1>t
    <3> QED  BY ONLY <3>1, <3>2, RgTail
  <2>4. Rg!Holders' = {p} /\ Rg!Full' = {} /\ rgPipe' \in [Rg!Pipes -> {<<>>, <<"0">>, <<"other">>}]
    <3>1. Rg!Holders' = {p}
      BY <2>1, <2>2, <1>t
    <3>2. rgPipe' = [rgPipe EXCEPT ![Rg!Predecessor(p)] = <<>>]
      BY <2>1, <2>3, <1>t
    <3>3. Rg!Full' = {}
      BY <3>2, <2>2, <1>t
    <3>4. rgPipe' \in [Rg!Pipes -> {<<>>, <<"0">>, <<"other">>}]
      BY <3>2, <1>t
    <3> QED  BY <3>1, <3>3, <3>4
  <2>5. Rg!TypeOK' /\ RgPlaces'
    BY <2>1, <2>4, <1>t DEF Rg!TypeOK, RgPlaces
  <2>6. RgEnds'
    BY <2>1, <1>t DEF RgEnds
  <2>7. RgNumber'
    BY <2>1, <2>2, <2>4, <1>t DEF RgNumber
  <2>8. Rg!NoEarlyEnd'
    BY <2>1, <1>t DEF Rg!NoEarlyEnd
  <2> QED  BY <2>5, <2>6, <2>7, <2>8 DEF RgInv
<1>6. ASSUME NEW p \in Rg!Procs, Rg!ReceiveZero(p) PROVE RgInv'
  <2>1. /\ rgPc[p] = "read" /\ rgPc' = [rgPc EXCEPT ![p] = "found"] /\ UNCHANGED <<rgClosed, rgX>>
        /\ Rg!Predecessor(p) \in Rg!Full /\ rgPipe' = [rgPipe EXCEPT ![Rg!Predecessor(p)] = Tail(@)]
        /\ rgReaders' = [j \in Rg!Pipes |-> rgReaders[j] \ {p}]
        /\ rgWriters' = [j \in Rg!Pipes |-> rgWriters[j] \ {p}]
    BY <1>6, <1>t DEF Rg!ReceiveZero, Rg!Exit, Rg!Goto, Rg!InPipe
  <2>2. Rg!Full = {Rg!Predecessor(p)} /\ Rg!Holders = {} /\ rgPc[0] \notin {"fork", "setup"}
    BY <2>1, <1>t DEF RgNumber
  <2>3. Tail(rgPipe[Rg!Predecessor(p)]) = <<>>
    <3>1. rgPipe[Rg!Predecessor(p)] # <<>>
      BY <2>1
    <3>2. rgPipe[Rg!Predecessor(p)] \in {<<>>, <<"0">>, <<"other">>}
      BY <1>t
    <3> QED  BY ONLY <3>1, <3>2, RgTail
  <2>4. Rg!Holders' = {} /\ Rg!Full' = {} /\ rgPipe' \in [Rg!Pipes -> {<<>>, <<"0">>, <<"other">>}]
    <3>1. Rg!Holders' = {}
      BY <2>1, <2>2, <1>t
    <3>2. rgPipe' = [rgPipe EXCEPT ![Rg!Predecessor(p)] = <<>>]
      BY <2>1, <2>3, <1>t
    <3>3. Rg!Full' = {}
      BY <3>2, <2>2, <1>t
    <3>4. rgPipe' \in [Rg!Pipes -> {<<>>, <<"0">>, <<"other">>}]
      BY <3>2, <1>t
    <3> QED  BY <3>1, <3>3, <3>4
  <2>5. Rg!TypeOK' /\ RgPlaces'
    BY <2>1, <2>4, <1>t DEF Rg!TypeOK, RgPlaces
  <2>6. RgEnds'
    BY <2>1, <2>2, <1>t DEF RgEnds
  <2>7. RgNumber'
    BY <2>1, <2>2, <2>4, <1>t DEF RgNumber
  <2>8. Rg!NoEarlyEnd'
    BY <2>1, <1>t DEF Rg!NoEarlyEnd
  <2> QED  BY <2>5, <2>6, <2>7, <2>8 DEF RgInv
<1>7. ASSUME NEW p \in Rg!Procs, Rg!EndOfInput(p) PROVE RgInv'
  <2> DEFINE r == Rg!Predecessor(p)
  <2>1. /\ rgPc[p] = "read"
        /\ rgPc' = [rgPc EXCEPT ![p] = "eof"]
        /\ UNCHANGED <<rgClosed, rgX, rgPipe>>
        /\ rgWriters[r] = {}
        /\ rgReaders' = [j \in Rg!Pipes |-> rgReaders[j] \ {p}]
        /\ rgWriters' = [j \in Rg!Pipes |-> rgWriters[j] \ {p}]
    BY <1>7 DEF Rg!EndOfInput, Rg!Exit, Rg!Goto, Rg!InPipe
  <2>2. r \in Rg!Procs /\ ~Rg!Alive(r)
    BY <2>1, <1>t DEF RgEnds
  <2>3. rgPc[0] # "fork"
    BY <2>1, <2>2, <1>t DEF RgEnds
  <2>4. Rg!Ended(r)
    BY <2>2, <2>3, <1>t DEF RgPlaces
  <2>5. \E q \in Rg!Procs : rgPc[q] \in {"found", "absent"}
    BY <2>2, <2>4, <1>t DEF Rg!NoEarlyEnd
  <2>6. Rg!TypeOK' /\ RgPlaces'
    BY <2>1, <1>t DEF Rg!TypeOK, RgPlaces
  <2>7. RgEnds'
    BY <2>1, <2>3, <1>t DEF RgEnds
  <2>8. RgNumber'
    BY <2>1, <1>t DEF RgNumber
  <2>9. Rg!NoEarlyEnd'
    <3>1. \A q \in Rg!Procs : Rg!Ended(q) => Rg!Ended(q)'
      BY <2>1, <1>t
    <3>2. \E q \in Rg!Procs : rgPc'[q] \in {"found", "absent"}
      BY <2>1, <2>5, <1>t
    <3> QED  BY <2>1, <2>4, <3>1, <3>2, <1>t DEF Rg!NoEarlyEnd
  <2> QED  BY <2>6, <2>7, <2>8, <2>9 DEF RgInv
<1>8. CASE UNCHANGED Rg!vars
  BY <1>8, <1>t DEF Rg!vars, RgInv, Rg!TypeOK, RgPlaces, RgEnds, RgNumber, Rg!NoEarlyEnd
<1> QED  BY <1>1, <1>2, <1>3, <1>4, <1>5, <1>6, <1>7, <1>8 DEF Rg!Next, Rg!Forking, Rg!Step

\* The parent begins alone, with every end open.
LEMMA RgInit == Rg!Init => RgInv
<1> SUFFICES ASSUME Rg!Init PROVE RgInv
  OBVIOUS
<1> USE RgRing DEF Rg!Init
<1>1. Rg!TypeOK /\ RgPlaces /\ Rg!NoEarlyEnd
  BY DEF Rg!TypeOK, RgPlaces, Rg!NoEarlyEnd, Rg!Fates
<1>2. Rg!Holders = {} /\ Rg!Full = {}
  BY DEF Rg!Holders, Rg!Full
<1>3. RgEnds
  BY DEF RgEnds, Rg!Alive
<1> QED  BY <1>1, <1>2, <1>3 DEF RgInv, RgNumber

\* The inductive invariant of the ring holds in every reachable state.
LEMMA RgHolds == ChosenSpec => []RgInv
<1> QED  BY RgInit, RgStep, RgMoves, PTL DEF ChosenSpec, ChosenInit

\* There is at most one number in the ring, and none once somebody has found 0 (the
\* three read-change-write loops).
LEMMA NumberIsOne ==
    ASSUME RgInv
    PROVE  Rg!OneNumber
<1>1. ASSUME NEW S, \A a, b \in S : a = b
      PROVE  Cardinality(S) \in {0, 1} /\ (S = {} => Cardinality(S) = 0)
  <2>1. CASE S = {}
    BY <2>1, FS_EmptySet
  <2>2. ASSUME NEW a \in S PROVE S = {a}
    BY <1>1
  <2> QED  BY <2>1, <2>2, FS_Singleton
<1>2. Cardinality(Rg!Holders) \in {0, 1} /\ (Rg!Holders = {} => Cardinality(Rg!Holders) = 0)
  BY <1>1 DEF RgInv, RgNumber
<1>3. Cardinality(Rg!Full) \in {0, 1} /\ (Rg!Full = {} => Cardinality(Rg!Full) = 0)
  BY <1>1 DEF RgInv, RgNumber
<1> QED  BY <1>2, <1>3, RgCard DEF Rg!OneNumber, RgInv, RgNumber

\* One number goes round, and a process sees the end of its input only when its
\* predecessor has ended, and somebody has found 0 or was never born (the three loops and
\* the close() calls behind each fork()).
THEOREM RingStaysInOrder == ChosenSpec => []RingInOrder
<1>1. RgInv => RingInOrder
  BY NumberIsOne DEF RgInv, RingInOrder
<1> QED  BY <1>1, RgHolds, PTL
============================================================================
