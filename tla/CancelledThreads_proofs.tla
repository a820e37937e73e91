----------------------- MODULE CancelledThreads_proofs -----------------------
(***************************************************************************)
(* Theorems about the two programs whose main cancels and joins its        *)
(* threads: DogRace, by name, and Students as St!.                         *)
(***************************************************************************)
EXTENDS CancelledThreads, FiniteSetTheorems, TLAPS

(***************************************************************************)
(* DogRace, for every number of dogs, every length of the track and every  *)
(* longest move shorter than the track.  IInv is the inductive invariant:  *)
(* the types, what a dog's place says about it and how far main is in its  *)
(* loops, who holds which mutex, that a loaded value is current, and the   *)
(* three parts of TrackExact, the picture one field at a time.             *)
(***************************************************************************)

\* A dog that has reported has put itself on its field; only the last field leads
\* to the finish.  main creates dogs that are not there yet and stays on the track.
Places ==
    /\ \A d \in Dogs :
          /\ pc[d] \in {"unborn", "start"} => doing[d] = "put"
          /\ pc[d] \in {"lock", "section"} => doing[d] # "stay"
          /\ pc[d] \in {"report", "sleep", "lockmeta", "atmeta", "finished"} => doing[d] = "stay"
          /\ mainpc = "create" /\ d >= i => pc[d] = "unborn"
    /\ mainpc \in {"create", "cancel", "join"} => i \in Dogs
    /\ mainpc \in {"lockall", "print", "unlockall"} => i \in Pola
    /\ mainpc \in {"poll", "checkmeta"} => i = 0

\* The fields main holds: all of them while it prints.
MainHolds(f) ==
    \/ mainpc = "lockall" /\ f < i
    \/ mainpc = "print"
    \/ mainpc = "unlockall" /\ f >= i

\* The mutex of a field belongs to the dog at work on it, or to main; that of the
\* finish to the dog that is taking its place.
MutexInv ==
    /\ \A f \in Pola :
          /\ \A d \in Dogs : muteksy[f] = d <=> pc[d] = "section" /\ pos[d] = f
          /\ muteksy[f] = Main <=> MainHolds(f)
    /\ \A d \in Dogs : metaMtx = d <=> pc[d] = "atmeta"

\* A loaded value is current.
RegInv ==
    \A d \in Dogs :
        /\ pc[d] = "section" => reg[d] = tab[pos[d]]
        /\ pc[d] = "atmeta" => reg[d] = meta

\* main has printed the dogs on the fields it has passed.
Seen(f) == {d \in OnTrack : pos[d] < f}
PictureInv ==
    /\ mainpc = "print" => shown = Cardinality(Seen(i))
    /\ PictureWhole

IInv ==
    /\ TypeOK /\ Places /\ MutexInv /\ RegInv /\ FieldsExact /\ PictureInv /\ PlacesGiven

\* The dogs are finitely many, and so is every part of them.
LEMMA DogsFinite ==
    /\ IsFiniteSet(Dogs) /\ Cardinality(Dogs) = m
    /\ \A S \in SUBSET Dogs : IsFiniteSet(S) /\ Cardinality(S) \in 0 .. m
<1>1. IsFiniteSet(Dogs) /\ Cardinality(Dogs) = m
  <2>1. 0 \in Int /\ m - 1 \in Int
    BY DogsAssumption
  <2> QED  BY <2>1, DogsAssumption, FS_Interval DEF Dogs
<1>2. ASSUME NEW S \in SUBSET Dogs PROVE IsFiniteSet(S) /\ Cardinality(S) \in 0 .. m
  BY <1>1, FS_Subset, FS_CardinalityType, DogsAssumption
<1> QED  BY <1>1, <1>2

\* main and nobody are no dogs.
LEMMA NoDogs == Main \notin Dogs /\ Nobody \notin Dogs /\ Main # Nobody
BY DEF Main, Nobody, Dogs

\* Loops over dogs and over fields come to the next one.
LEMMA LoopFacts ==
    /\ 0 \in Dogs /\ \A d \in Dogs : d = m - 1 \/ d + 1 \in Dogs
    /\ 0 \in Pola /\ \A f \in Pola : f = n - 1 \/ f + 1 \in Pola
    /\ \A f, g \in Pola : f < g + 1 <=> f < g \/ f = g
BY TrackAssumption, DogsAssumption DEF Dogs, Pola

\* A move from a field of the track leads to one: forward, or back from the end.
LEMMA MovedFacts ==
    ASSUME NEW p \in Pola, NEW ruch \in 1 .. MaxRuch
    PROVE  Moved(p, ruch) \in Pola
BY TrackAssumption DEF Moved, Pola

\* Next by its actions.
LEMMA NextCases ==
    ASSUME Next
    PROVE  \/ \E d \in Dogs : \/ Start(d) \/ WakeUp(d) \/ LockField(d) \/ TakeOff(d) \/ PutOn(d)
                             \/ Report(d) \/ LockMeta(d) \/ Finish(d) \/ BeCancelled(d)
                             \/ Create(d)
           \/ Poll \/ CheckMeta \/ LockAll \/ PrintTrack \/ UnlockAll \/ Cancel \/ Join
           \/ SendInt \/ Sigwait
BY DEF Next, DogStep, MainStep

\* The types are kept: a dog that takes itself off its field is counted there, and
\* there is a place left for one that has not finished.
LEMMA TypeStep ==
    ASSUME TypeOK, Places, RegInv, FieldsExact, PlacesGiven, [Next]_vars
    PROVE  TypeOK'
<1> USE TrackAssumption, DogsAssumption, NoDogs DEF dogs, finish, mains, Goto, To, TypeOK, Places
<1>1. ASSUME NEW d \in Dogs, Start(d) PROVE TypeOK'
  BY <1>1 DEF Start
<1>2. ASSUME NEW d \in Dogs, WakeUp(d) PROVE TypeOK'
  BY <1>2 DEF WakeUp
<1>3. ASSUME NEW d \in Dogs, LockField(d) PROVE TypeOK'
  BY <1>3 DEF LockField
<1>4. ASSUME NEW d \in Dogs, TakeOff(d) PROVE TypeOK'
  <2>1. pc[d] = "section" /\ doing[d] = "take" /\ pos[d] \in Pola /\ reg[d] = tab[pos[d]]
    BY <1>4 DEF TakeOff, RegInv
  <2>2. reg[d] # 0
    <3> DEFINE on == {e \in OnTrack : pos[e] = pos[d]}
    <3>1. d \in on /\ on \in SUBSET Dogs /\ reg[d] = Cardinality(on)
      BY <2>1 DEF OnTrack, FieldsExact
    <3> HIDE DEF on
    <3> QED  BY ONLY <3>1, DogsFinite, FS_EmptySet
  <2>3. tab' \in [Pola -> Nat]
    BY <1>4, <2>1, <2>2 DEF TakeOff
  <2>4. pos' \in [Dogs -> Pola]
    BY <1>4, <2>1, MovedFacts DEF TakeOff
  <2> QED  BY <1>4, <2>3, <2>4 DEF TakeOff
<1>5. ASSUME NEW d \in Dogs, PutOn(d) PROVE TypeOK'
  BY <1>5 DEF PutOn
<1>6. ASSUME NEW d \in Dogs, Report(d) PROVE TypeOK'
  BY <1>6 DEF Report
<1>7. ASSUME NEW d \in Dogs, LockMeta(d) PROVE TypeOK'
  BY <1>7 DEF LockMeta
<1>8. ASSUME NEW d \in Dogs, Finish(d) PROVE TypeOK'
  <2> DEFINE finished == {e \in Dogs : pc[e] = "finished"}
  <2>1. pc[d] = "atmeta" /\ reg[d] = meta /\ meta' = meta + 1
    BY <1>8 DEF Finish, RegInv
  <2>2. meta \in 0 .. m - 1
    <3>1. finished \in SUBSET Dogs /\ finished # Dogs /\ meta = Cardinality(finished)
      BY <2>1 DEF PlacesGiven
    <3> HIDE DEF finished
    <3>2. Cardinality(finished) # m
      BY ONLY <3>1, DogsFinite, FS_Subset
    <3> QED  BY ONLY <3>1, <3>2, DogsFinite, DogsAssumption
  <2>3. meta' \in 0 .. m /\ ktory' \in [Dogs -> 0 .. m]
    BY <1>8, <2>1, <2>2 DEF Finish
  <2> QED  BY <1>8, <2>3 DEF Finish
<1>9. ASSUME NEW d \in Dogs, BeCancelled(d) PROVE TypeOK'
  BY <1>9 DEF BeCancelled
<1>10. ASSUME NEW d \in Dogs, Create(d) PROVE TypeOK'
  <2>1. i \in Dogs /\ IF i = m - 1 THEN mainpc' = "poll" /\ i' = 0
                                   ELSE mainpc' = "create" /\ i' = i + 1
    BY <1>10 DEF Create
  <2>2. i' \in 0 .. n + m /\ mainpc' \in {"create", "poll"}
    BY <2>1 DEF Dogs
  <2> QED  BY <1>10, <2>2 DEF Create
<1>11. ASSUME Poll PROVE TypeOK'
  BY <1>11 DEF Poll
<1>12. ASSUME CheckMeta PROVE TypeOK'
  BY <1>12 DEF CheckMeta
<1>13. ASSUME LockAll PROVE TypeOK'
  <2>1. i' \in 0 .. n + m /\ mainpc' \in {"lockall", "print"}
    BY <1>13 DEF LockAll, LastField, Pola
  <2>2. muteksy' \in [Pola -> Dogs \cup {Main, Nobody}]
    BY <1>13 DEF LockAll
  <2> QED  BY <1>13, <2>1, <2>2 DEF LockAll
<1>14. ASSUME PrintTrack PROVE TypeOK'
  <2>1. i' \in 0 .. n + m /\ mainpc' \in {"print", "unlockall"}
    BY <1>14 DEF PrintTrack, Pola
  <2>2. i \in Pola /\ shown' = shown + tab[i]
    BY <1>14 DEF PrintTrack
  <2>3. shown' \in Nat
    BY <2>2
  <2> QED  BY <1>14, <2>1, <2>3 DEF PrintTrack
<1>15. ASSUME UnlockAll PROVE TypeOK'
  <2>1. i' \in 0 .. n + m /\ mainpc' \in {"unlockall", "poll"}
    BY <1>15 DEF UnlockAll, Pola
  <2>2. muteksy' \in [Pola -> Dogs \cup {Main, Nobody}]
    BY <1>15 DEF UnlockAll
  <2> QED  BY <1>15, <2>1, <2>2 DEF UnlockAll
<1>16. ASSUME Cancel PROVE TypeOK'
  BY <1>16 DEF Cancel
<1>17. ASSUME Join PROVE TypeOK'
  <2>1. i \in Dogs /\ IF i = m - 1 THEN mainpc' = "ended" /\ i' = 0
                                   ELSE mainpc' = "cancel" /\ i' = i + 1
    BY <1>17 DEF Join
  <2>2. i' \in 0 .. n + m /\ mainpc' \in {"cancel", "ended"}
    BY <2>1 DEF Dogs
  <2> QED  BY <1>17, <2>2 DEF Join
<1>18. ASSUME SendInt PROVE TypeOK'
  BY <1>18 DEF SendInt
<1>19. ASSUME Sigwait PROVE TypeOK'
  BY <1>19 DEF Sigwait
<1>20. CASE UNCHANGED vars
  BY <1>20 DEF vars
<1> QED
  BY <1>1, <1>2, <1>3, <1>4, <1>5, <1>6, <1>7, <1>8, <1>9, <1>10,
     <1>11, <1>12, <1>13, <1>14, <1>15, <1>16, <1>17, <1>18, <1>19, <1>20, NextCases

\* Every dog follows its program, and main its loops.
LEMMA PlacesStep ==
    ASSUME TypeOK, Places, [Next]_vars
    PROVE  Places'
<1> USE TrackAssumption, DogsAssumption, NoDogs DEF dogs, finish, mains, Goto, To, TypeOK, Places
<1>1. ASSUME NEW d \in Dogs, Start(d) PROVE Places'
  BY <1>1 DEF Start
<1>2. ASSUME NEW d \in Dogs, WakeUp(d) PROVE Places'
  BY <1>2 DEF WakeUp
<1>3. ASSUME NEW d \in Dogs, LockField(d) PROVE Places'
  BY <1>3 DEF LockField
<1>4. ASSUME NEW d \in Dogs, TakeOff(d) PROVE Places'
  BY <1>4 DEF TakeOff
<1>5. ASSUME NEW d \in Dogs, PutOn(d) PROVE Places'
  BY <1>5 DEF PutOn
<1>6. ASSUME NEW d \in Dogs, Report(d) PROVE Places'
  BY <1>6 DEF Report
<1>7. ASSUME NEW d \in Dogs, LockMeta(d) PROVE Places'
  BY <1>7 DEF LockMeta
<1>8. ASSUME NEW d \in Dogs, Finish(d) PROVE Places'
  BY <1>8 DEF Finish
<1>9. ASSUME NEW d \in Dogs, BeCancelled(d) PROVE Places'
  BY <1>9 DEF BeCancelled
<1>10. ASSUME NEW d \in Dogs, Create(d) PROVE Places'
  <2>1. /\ mainpc = "create" /\ i = d /\ pc' = [pc EXCEPT ![d] = "start"] /\ doing' = doing
        /\ IF d = m - 1 THEN mainpc' = "poll" /\ i' = 0 ELSE mainpc' = "create" /\ i' = i + 1
    BY <1>10 DEF Create
  <2>2. i' = 0 \/ i' \in Dogs
    BY <2>1, LoopFacts
  <2>3. 0 \in Dogs
    BY LoopFacts
  <2>4. ASSUME NEW e \in Dogs, mainpc' = "create", e >= i' PROVE pc'[e] = "unborn"
    BY <2>1, <2>4 DEF Dogs
  <2>5. doing[d] = "put"
    BY <2>1 DEF Dogs
  <2> QED  BY <2>1, <2>2, <2>3, <2>4, <2>5
<1>11. ASSUME Poll PROVE Places'
  BY <1>11 DEF Poll, Dogs
<1>12. ASSUME CheckMeta PROVE Places'
  BY <1>12 DEF CheckMeta, Dogs, Pola
<1>13. ASSUME LockAll PROVE Places'
  BY <1>13, LoopFacts DEF LockAll, LastField
<1>14. ASSUME PrintTrack PROVE Places'
  BY <1>14, LoopFacts DEF PrintTrack
<1>15. ASSUME UnlockAll PROVE Places'
  BY <1>15, LoopFacts DEF UnlockAll
<1>16. ASSUME Cancel PROVE Places'
  BY <1>16 DEF Cancel
<1>17. ASSUME Join PROVE Places'
  BY <1>17, LoopFacts DEF Join
<1>18. ASSUME SendInt PROVE Places'
  BY <1>18 DEF SendInt
<1>19. ASSUME Sigwait PROVE Places'
  BY <1>19 DEF Sigwait
<1>20. CASE UNCHANGED vars
  BY <1>20 DEF vars
<1> QED
  BY <1>1, <1>2, <1>3, <1>4, <1>5, <1>6, <1>7, <1>8, <1>9, <1>10,
     <1>11, <1>12, <1>13, <1>14, <1>15, <1>16, <1>17, <1>18, <1>19, <1>20, NextCases

\* A mutex is taken when it is free, and given back by who has it.
LEMMA MutexStep ==
    ASSUME TypeOK, Places, MutexInv, [Next]_vars
    PROVE  MutexInv'
<1> USE TrackAssumption, DogsAssumption, NoDogs DEF dogs, finish, mains, Goto, To, TypeOK,
        Places, MutexInv, MainHolds
<1>1. ASSUME NEW d \in Dogs, Start(d) PROVE MutexInv'
  BY <1>1 DEF Start
<1>2. ASSUME NEW d \in Dogs, WakeUp(d) PROVE MutexInv'
  BY <1>2 DEF WakeUp
<1>3. ASSUME NEW d \in Dogs, LockField(d) PROVE MutexInv'
  BY <1>3 DEF LockField
<1>4. ASSUME NEW d \in Dogs, TakeOff(d) PROVE MutexInv'
  BY <1>4 DEF TakeOff
<1>5. ASSUME NEW d \in Dogs, PutOn(d) PROVE MutexInv'
  BY <1>5 DEF PutOn
<1>6. ASSUME NEW d \in Dogs, Report(d) PROVE MutexInv'
  BY <1>6 DEF Report
<1>7. ASSUME NEW d \in Dogs, LockMeta(d) PROVE MutexInv'
  BY <1>7 DEF LockMeta
<1>8. ASSUME NEW d \in Dogs, Finish(d) PROVE MutexInv'
  BY <1>8 DEF Finish
<1>9. ASSUME NEW d \in Dogs, BeCancelled(d) PROVE MutexInv'
  BY <1>9 DEF BeCancelled
<1>10. ASSUME NEW d \in Dogs, Create(d) PROVE MutexInv'
  BY <1>10 DEF Create
<1>11. ASSUME Poll PROVE MutexInv'
  BY <1>11 DEF Poll
<1>12. ASSUME CheckMeta PROVE MutexInv'
  BY <1>12 DEF CheckMeta, Pola
<1>13. ASSUME LockAll PROVE MutexInv'
  <2>1. /\ mainpc = "lockall" /\ i \in Pola /\ muteksy[i] = Nobody
        /\ muteksy' = [muteksy EXCEPT ![i] = Main]
        /\ IF i = n - 1 THEN mainpc' = "print" ELSE mainpc' = "lockall" /\ i' = i + 1
    BY <1>13 DEF LockAll, LastField
  <2>2. ASSUME NEW f \in Pola PROVE MainHolds(f)' <=> MainHolds(f) \/ f = i
    <3>1. f < i + 1 <=> f < i \/ f = i
      BY <2>1, LoopFacts
    <3>2. i = n - 1 => (f < i \/ f = i)
      BY <2>1 DEF Pola
    <3> QED  BY <2>1, <3>1, <3>2
  <2>3. ASSUME NEW f \in Pola PROVE muteksy'[f] = Main <=> MainHolds(f)'
    BY <2>1, <2>2
  <2>4. ASSUME NEW f \in Pola, NEW e \in Dogs
        PROVE  muteksy'[f] = e <=> muteksy[f] = e
    BY <2>1
  <2> QED  BY <1>13, <2>3, <2>4 DEF LockAll
<1>14. ASSUME PrintTrack PROVE MutexInv'
  <2>1. ASSUME NEW f \in Pola PROVE MainHolds(f)' <=> MainHolds(f)
    BY <1>14 DEF PrintTrack, Pola
  <2> QED  BY <1>14, <2>1 DEF PrintTrack
<1>15. ASSUME UnlockAll PROVE MutexInv'
  <2>1. /\ mainpc = "unlockall" /\ i \in Pola /\ muteksy[i] = Main
        /\ muteksy' = [muteksy EXCEPT ![i] = Nobody]
        /\ IF i = n - 1 THEN mainpc' = "poll" ELSE mainpc' = "unlockall" /\ i' = i + 1
    BY <1>15 DEF UnlockAll, Pola
  <2>2. ASSUME NEW f \in Pola PROVE MainHolds(f)' <=> MainHolds(f) /\ f # i
    BY <2>1 DEF Pola
  <2>3. ASSUME NEW f \in Pola PROVE muteksy'[f] = Main <=> MainHolds(f)'
    BY <2>1, <2>2
  <2>4. ASSUME NEW f \in Pola, NEW e \in Dogs
        PROVE  muteksy'[f] = e <=> muteksy[f] = e
    BY <2>1
  <2> QED  BY <1>15, <2>3, <2>4 DEF UnlockAll
<1>16. ASSUME Cancel PROVE MutexInv'
  BY <1>16 DEF Cancel
<1>17. ASSUME Join PROVE MutexInv'
  BY <1>17 DEF Join
<1>18. ASSUME SendInt PROVE MutexInv'
  BY <1>18 DEF SendInt
<1>19. ASSUME Sigwait PROVE MutexInv'
  BY <1>19 DEF Sigwait
<1>20. CASE UNCHANGED vars
  BY <1>20 DEF vars
<1> QED
  BY <1>1, <1>2, <1>3, <1>4, <1>5, <1>6, <1>7, <1>8, <1>9, <1>10,
     <1>11, <1>12, <1>13, <1>14, <1>15, <1>16, <1>17, <1>18, <1>19, <1>20, NextCases

\* A counter is changed by who holds its mutex.
LEMMA RegStep ==
    ASSUME TypeOK, Places, MutexInv, RegInv, [Next]_vars
    PROVE  RegInv'
<1> USE TrackAssumption, DogsAssumption, NoDogs DEF dogs, finish, mains, Goto, To, TypeOK, RegInv
<1>1. ASSUME NEW d \in Dogs, Start(d) PROVE RegInv'
  BY <1>1 DEF Start
<1>2. ASSUME NEW d \in Dogs, WakeUp(d) PROVE RegInv'
  BY <1>2 DEF WakeUp
<1>3. ASSUME NEW d \in Dogs, LockField(d) PROVE RegInv'
  BY <1>3 DEF LockField
<1>4. ASSUME NEW d \in Dogs, TakeOff(d) PROVE RegInv'
  <2>1. /\ pc[d] = "section" /\ pos[d] \in Pola /\ muteksy[pos[d]] = d
        /\ pc' = [pc EXCEPT ![d] = "lock"] /\ reg' = reg /\ meta' = meta
        /\ \A f \in Pola : f # pos[d] => tab'[f] = tab[f]
        /\ \A e \in Dogs : e # d => pos'[e] = pos[e]
    BY <1>4 DEF TakeOff, MutexInv
  <2>2. ASSUME NEW e \in Dogs, pc'[e] = "section"
        PROVE  e # d /\ pc[e] = "section" /\ pos[e] # pos[d]
    BY <2>1, <2>2 DEF MutexInv
  <2> QED  BY <2>1, <2>2
<1>5. ASSUME NEW d \in Dogs, PutOn(d) PROVE RegInv'
  <2>1. /\ pc[d] = "section" /\ pos[d] \in Pola /\ muteksy[pos[d]] = d
        /\ pc' = [pc EXCEPT ![d] = "report"] /\ reg' = reg /\ meta' = meta
        /\ \A f \in Pola : f # pos[d] => tab'[f] = tab[f]
        /\ \A e \in Dogs : e # d => pos'[e] = pos[e]
    BY <1>5 DEF PutOn, MutexInv
  <2>2. ASSUME NEW e \in Dogs, pc'[e] = "section"
        PROVE  e # d /\ pc[e] = "section" /\ pos[e] # pos[d]
    BY <2>1, <2>2 DEF MutexInv
  <2> QED  BY <2>1, <2>2
<1>6. ASSUME NEW d \in Dogs, Report(d) PROVE RegInv'
  BY <1>6 DEF Report
<1>7. ASSUME NEW d \in Dogs, LockMeta(d) PROVE RegInv'
  BY <1>7 DEF LockMeta
<1>8. ASSUME NEW d \in Dogs, Finish(d) PROVE RegInv'
  <2>1. pc[d] = "atmeta" /\ metaMtx = d /\ pc' = [pc EXCEPT ![d] = "finished"]
    BY <1>8 DEF Finish, MutexInv
  <2>2. \A e \in Dogs : pc[e] = "atmeta" => e = d
    BY <2>1 DEF MutexInv
  <2> QED  BY <1>8, <2>1, <2>2 DEF Finish
<1>9. ASSUME NEW d \in Dogs, BeCancelled(d) PROVE RegInv'
  BY <1>9 DEF BeCancelled
<1>10. ASSUME NEW d \in Dogs, Create(d) PROVE RegInv'
  BY <1>10 DEF Create
<1>11. ASSUME Poll PROVE RegInv'
  BY <1>11 DEF Poll
<1>12. ASSUME CheckMeta PROVE RegInv'
  BY <1>12 DEF CheckMeta
<1>13. ASSUME LockAll PROVE RegInv'
  BY <1>13 DEF LockAll
<1>14. ASSUME PrintTrack PROVE RegInv'
  BY <1>14 DEF PrintTrack
<1>15. ASSUME UnlockAll PROVE RegInv'
  BY <1>15 DEF UnlockAll
<1>16. ASSUME Cancel PROVE RegInv'
  BY <1>16 DEF Cancel
<1>17. ASSUME Join PROVE RegInv'
  BY <1>17 DEF Join
<1>18. ASSUME SendInt PROVE RegInv'
  BY <1>18 DEF SendInt
<1>19. ASSUME Sigwait PROVE RegInv'
  BY <1>19 DEF Sigwait
<1>20. CASE UNCHANGED vars
  BY <1>20 DEF vars
<1> QED
  BY <1>1, <1>2, <1>3, <1>4, <1>5, <1>6, <1>7, <1>8, <1>9, <1>10,
     <1>11, <1>12, <1>13, <1>14, <1>15, <1>16, <1>17, <1>18, <1>19, <1>20, NextCases

\* A field's counter changes with the dogs on it, one at a time.
LEMMA FieldsStep ==
    ASSUME TypeOK, Places, MutexInv, RegInv, FieldsExact, [Next]_vars
    PROVE  FieldsExact'
<1> USE TrackAssumption, DogsAssumption, NoDogs DEF dogs, finish, mains, Goto, To, TypeOK,
        Places, FieldsExact, OnTrack
<1>1. ASSUME NEW d \in Dogs, Start(d) PROVE FieldsExact'
  BY <1>1 DEF Start
<1>2. ASSUME NEW d \in Dogs, WakeUp(d) PROVE FieldsExact'
  BY <1>2 DEF WakeUp
<1>3. ASSUME NEW d \in Dogs, LockField(d) PROVE FieldsExact'
  BY <1>3 DEF LockField
<1>4. ASSUME NEW d \in Dogs, TakeOff(d) PROVE FieldsExact'
  <2> DEFINE on(f) == {e \in OnTrack : pos[e] = f}
  <2>1. PICK f \in Pola : /\ f = pos[d] /\ pc[d] = "section" /\ reg[d] = tab[f]
                         /\ doing[d] = "take" /\ doing' = [doing EXCEPT ![d] = "put"]
                         /\ tab' = [tab EXCEPT ![f] = tab[f] - 1]
    BY <1>4 DEF TakeOff, RegInv
  <2>2. \A e \in Dogs : e # d => pos'[e] = pos[e]
    BY <1>4 DEF TakeOff
  <2>3. on(f)' = on(f) \ {d} /\ d \in on(f)
    BY <1>4, <2>1, <2>2 DEF TakeOff
  <2>4. \A g \in Pola : g # f => on(g)' = on(g)
    BY <1>4, <2>1, <2>2 DEF TakeOff
  <2>5. \A g \in Pola : on(g) \in SUBSET Dogs /\ tab[g] = Cardinality(on(g))
    OBVIOUS
  <2>6. tab'[f] = tab[f] - 1 /\ \A g \in Pola : g # f => tab'[g] = tab[g]
    BY <2>1
  <2> HIDE DEF on
  <2>7. ASSUME NEW g \in Pola PROVE tab'[g] = Cardinality(on(g)')
    <3>1. CASE g = f
      BY ONLY <2>1, <2>3, <2>5, <2>6, <3>1, DogsFinite, FS_RemoveElement
    <3>2. CASE g # f
      BY <2>4, <2>5, <2>6, <3>2
    <3> QED  BY <3>1, <3>2
  <2> QED  BY <2>7 DEF on
<1>5. ASSUME NEW d \in Dogs, PutOn(d) PROVE FieldsExact'
  <2> DEFINE on(f) == {e \in OnTrack : pos[e] = f}
  <2>1. PICK f \in Pola : /\ f = pos[d] /\ pc[d] = "section" /\ reg[d] = tab[f]
                         /\ doing[d] = "put" /\ doing' = [doing EXCEPT ![d] = "stay"]
                         /\ tab' = [tab EXCEPT ![f] = tab[f] + 1]
    BY <1>5 DEF PutOn, RegInv
  <2>2. \A e \in Dogs : e # d => pos'[e] = pos[e]
    BY <1>5 DEF PutOn
  <2>3. on(f)' = on(f) \cup {d} /\ d \notin on(f)
    BY <1>5, <2>1, <2>2 DEF PutOn
  <2>4. \A g \in Pola : g # f => on(g)' = on(g)
    BY <1>5, <2>1, <2>2 DEF PutOn
  <2>5. \A g \in Pola : on(g) \in SUBSET Dogs /\ tab[g] = Cardinality(on(g))
    OBVIOUS
  <2>6. tab'[f] = tab[f] + 1 /\ \A g \in Pola : g # f => tab'[g] = tab[g]
    BY <2>1
  <2> HIDE DEF on
  <2>7. ASSUME NEW g \in Pola PROVE tab'[g] = Cardinality(on(g)')
    <3>1. CASE g = f
      BY ONLY <2>1, <2>3, <2>5, <2>6, <3>1, DogsFinite, FS_AddElement
    <3>2. CASE g # f
      BY <2>4, <2>5, <2>6, <3>2
    <3> QED  BY <3>1, <3>2
  <2> QED  BY <2>7 DEF on
<1>6. ASSUME NEW d \in Dogs, Report(d) PROVE FieldsExact'
  BY <1>6 DEF Report
<1>7. ASSUME NEW d \in Dogs, LockMeta(d) PROVE FieldsExact'
  BY <1>7 DEF LockMeta
<1>8. ASSUME NEW d \in Dogs, Finish(d) PROVE FieldsExact'
  BY <1>8 DEF Finish
<1>9. ASSUME NEW d \in Dogs, BeCancelled(d) PROVE FieldsExact'
  BY <1>9 DEF BeCancelled
<1>10. ASSUME NEW d \in Dogs, Create(d) PROVE FieldsExact'
  BY <1>10 DEF Create
<1>11. ASSUME Poll PROVE FieldsExact'
  BY <1>11 DEF Poll
<1>12. ASSUME CheckMeta PROVE FieldsExact'
  BY <1>12 DEF CheckMeta
<1>13. ASSUME LockAll PROVE FieldsExact'
  BY <1>13 DEF LockAll
<1>14. ASSUME PrintTrack PROVE FieldsExact'
  BY <1>14 DEF PrintTrack
<1>15. ASSUME UnlockAll PROVE FieldsExact'
  BY <1>15 DEF UnlockAll
<1>16. ASSUME Cancel PROVE FieldsExact'
  BY <1>16 DEF Cancel
<1>17. ASSUME Join PROVE FieldsExact'
  BY <1>17 DEF Join
<1>18. ASSUME SendInt PROVE FieldsExact'
  BY <1>18 DEF SendInt
<1>19. ASSUME Sigwait PROVE FieldsExact'
  BY <1>19 DEF Sigwait
<1>20. CASE UNCHANGED vars
  BY <1>20 DEF vars
<1> QED
  BY <1>1, <1>2, <1>3, <1>4, <1>5, <1>6, <1>7, <1>8, <1>9, <1>10,
     <1>11, <1>12, <1>13, <1>14, <1>15, <1>16, <1>17, <1>18, <1>19, <1>20, NextCases

\* Nobody moves while main prints.
LEMMA PictureStep ==
    ASSUME TypeOK, Places, MutexInv, FieldsExact, PictureInv, [Next]_vars
    PROVE  PictureInv'
<1> USE TrackAssumption, DogsAssumption, NoDogs DEF dogs, finish, mains, Goto, To, TypeOK,
        Places, PictureInv, PictureWhole, Seen, OnTrack
<1>1. ASSUME NEW d \in Dogs, Start(d) PROVE PictureInv'
  BY <1>1 DEF Start
<1>2. ASSUME NEW d \in Dogs, WakeUp(d) PROVE PictureInv'
  BY <1>2 DEF WakeUp
<1>3. ASSUME NEW d \in Dogs, LockField(d) PROVE PictureInv'
  BY <1>3 DEF LockField
<1>4. ASSUME NEW d \in Dogs, TakeOff(d) PROVE PictureInv'
  <2>1. pc[d] = "section" /\ muteksy[pos[d]] = d /\ pos[d] \in Pola
    BY <1>4 DEF TakeOff, MutexInv
  <2>2. ~MainHolds(pos[d])
    BY <2>1 DEF MutexInv
  <2>3. mainpc # "print" /\ ~(mainpc = "unlockall" /\ i = 0)
    BY <2>1, <2>2 DEF MainHolds, Pola
  <2> QED  BY <1>4, <2>3 DEF TakeOff
<1>5. ASSUME NEW d \in Dogs, PutOn(d) PROVE PictureInv'
  <2>1. pc[d] = "section" /\ muteksy[pos[d]] = d /\ pos[d] \in Pola
    BY <1>5 DEF PutOn, MutexInv
  <2>2. ~MainHolds(pos[d])
    BY <2>1 DEF MutexInv
  <2>3. mainpc # "print" /\ ~(mainpc = "unlockall" /\ i = 0)
    BY <2>1, <2>2 DEF MainHolds, Pola
  <2> QED  BY <1>5, <2>3 DEF PutOn
<1>6. ASSUME NEW d \in Dogs, Report(d) PROVE PictureInv'
  BY <1>6 DEF Report
<1>7. ASSUME NEW d \in Dogs, LockMeta(d) PROVE PictureInv'
  BY <1>7 DEF LockMeta
<1>8. ASSUME NEW d \in Dogs, Finish(d) PROVE PictureInv'
  BY <1>8 DEF Finish
<1>9. ASSUME NEW d \in Dogs, BeCancelled(d) PROVE PictureInv'
  BY <1>9 DEF BeCancelled
<1>10. ASSUME NEW d \in Dogs, Create(d) PROVE PictureInv'
  BY <1>10 DEF Create
<1>11. ASSUME Poll PROVE PictureInv'
  BY <1>11 DEF Poll
<1>12. ASSUME CheckMeta PROVE PictureInv'
  BY <1>12 DEF CheckMeta
<1>13. ASSUME LockAll PROVE PictureInv'
  <2>1. mainpc' = "print" => i' = 0 /\ shown' = 0
    BY <1>13 DEF LockAll
  <2>2. mainpc' \in {"lockall", "print"}
    BY <1>13 DEF LockAll
  <2>3. ASSUME mainpc' = "print" PROVE Seen(i)' = {}
    BY <1>13, <2>1, <2>3 DEF LockAll, Pola
  <2>4. mainpc' = "print" => shown' = Cardinality(Seen(i)')
    BY <2>1, <2>3, FS_EmptySet
  <2> QED  BY <2>2, <2>4
<1>14. ASSUME PrintTrack PROVE PictureInv'
  <2> DEFINE on == {e \in OnTrack : pos[e] = i}
  <2>1. i \in Pola /\ shown' = shown + tab[i] /\ shown = Cardinality(Seen(i))
    BY <1>14 DEF PrintTrack
  <2>2. Seen(i + 1) = Seen(i) \cup on /\ Seen(i) \cap on = {}
    <3>1. \A e \in OnTrack : pos[e] \in Pola
      OBVIOUS
    <3>2. \A e \in OnTrack : pos[e] < i + 1 <=> pos[e] < i \/ pos[e] = i
      BY <2>1, <3>1, LoopFacts
    <3>3. \A e \in OnTrack : ~(pos[e] < i /\ pos[e] = i)
      BY <2>1, <3>1 DEF Pola
    <3> QED  BY <3>2, <3>3
  <2>3. tab[i] = Cardinality(on) /\ on \in SUBSET Dogs /\ Seen(i) \in SUBSET Dogs
    BY <2>1 DEF FieldsExact
  <2>4. shown' = Cardinality(Seen(i + 1))
    <3> HIDE DEF on, Seen
    <3>1. IsFiniteSet(on) /\ IsFiniteSet(Seen(i)) /\ Cardinality(on) \in Nat
          /\ Cardinality(Seen(i)) \in Nat
      BY ONLY <2>3, DogsFinite, DogsAssumption
    <3>2. Cardinality(Seen(i) \cup on)
              = Cardinality(Seen(i)) + Cardinality(on) - Cardinality(Seen(i) \cap on)
      BY ONLY <3>1, FS_Union
    <3>3. Cardinality(Seen(i) \cap on) = 0
      BY ONLY <2>2, FS_EmptySet
    <3>4. Cardinality(Seen(i + 1)) = Cardinality(Seen(i) \cup on)
      BY ONLY <2>2
    <3>5. shown' = Cardinality(Seen(i)) + Cardinality(on)
      BY ONLY <2>1, <2>3
    <3> QED  BY ONLY <3>1, <3>2, <3>3, <3>4, <3>5
  <2>5. OnTrack' = OnTrack /\ Seen(i)' = Seen(i')
    BY <1>14 DEF PrintTrack
  <2>6. CASE i = n - 1
    <3>1. Seen(i + 1) = OnTrack
      BY <2>6 DEF Pola
    <3> QED  BY <1>14, <2>4, <2>5, <2>6, <3>1 DEF PrintTrack
  <2>7. CASE i # n - 1
    <3>1. mainpc' = "print" /\ i' = i + 1
      BY <1>14, <2>7 DEF PrintTrack
    <3> HIDE DEF Seen
    <3>2. shown' = Cardinality(Seen(i)')
      BY <2>4, <2>5, <3>1
    <3> QED  BY <3>1, <3>2
  <2> QED  BY <2>6, <2>7
<1>15. ASSUME UnlockAll PROVE PictureInv'
  BY <1>15 DEF UnlockAll
<1>16. ASSUME Cancel PROVE PictureInv'
  BY <1>16 DEF Cancel
<1>17. ASSUME Join PROVE PictureInv'
  BY <1>17 DEF Join
<1>18. ASSUME SendInt PROVE PictureInv'
  BY <1>18 DEF SendInt
<1>19. ASSUME Sigwait PROVE PictureInv'
  BY <1>19 DEF Sigwait
<1>20. CASE UNCHANGED vars
  BY <1>20 DEF vars
<1> QED
  BY <1>1, <1>2, <1>3, <1>4, <1>5, <1>6, <1>7, <1>8, <1>9, <1>10,
     <1>11, <1>12, <1>13, <1>14, <1>15, <1>16, <1>17, <1>18, <1>19, <1>20, NextCases

\* The next place is one higher than the last one given.
LEMMA GivenStep ==
    ASSUME TypeOK, Places, MutexInv, RegInv, PlacesGiven, [Next]_vars
    PROVE  PlacesGiven'
<1> USE TrackAssumption, DogsAssumption, NoDogs DEF dogs, finish, mains, Goto, To, TypeOK
<1> DEFINE finished == {e \in Dogs : pc[e] = "finished"}
\* Steps in which nobody finishes.
<1>q. ASSUME ktory' = ktory, meta' = meta, finished' = finished PROVE PlacesGiven'
  <2>1. {ktory[e] : e \in finished} = 1 .. meta /\ Cardinality(finished) = meta
    BY DEF PlacesGiven
  <2> HIDE DEF finished
  <2>2. {ktory'[e] : e \in finished'} = 1 .. meta' /\ Cardinality(finished') = meta'
    BY <1>q, <2>1
  <2> QED  BY <2>2 DEF finished, PlacesGiven
<1>1. ASSUME NEW d \in Dogs, Start(d) PROVE PlacesGiven'
  BY <1>1, <1>q DEF Start
<1>2. ASSUME NEW d \in Dogs, WakeUp(d) PROVE PlacesGiven'
  BY <1>2, <1>q DEF WakeUp
<1>3. ASSUME NEW d \in Dogs, LockField(d) PROVE PlacesGiven'
  BY <1>3, <1>q DEF LockField
<1>4. ASSUME NEW d \in Dogs, TakeOff(d) PROVE PlacesGiven'
  BY <1>4, <1>q DEF TakeOff
<1>5. ASSUME NEW d \in Dogs, PutOn(d) PROVE PlacesGiven'
  BY <1>5, <1>q DEF PutOn
<1>6. ASSUME NEW d \in Dogs, Report(d) PROVE PlacesGiven'
  BY <1>6, <1>q DEF Report
<1>7. ASSUME NEW d \in Dogs, LockMeta(d) PROVE PlacesGiven'
  BY <1>7, <1>q DEF LockMeta
<1>8. ASSUME NEW d \in Dogs, Finish(d) PROVE PlacesGiven'
  <2>1. /\ pc[d] = "atmeta" /\ reg[d] = meta /\ meta' = meta + 1
        /\ ktory' = [ktory EXCEPT ![d] = meta + 1] /\ pc' = [pc EXCEPT ![d] = "finished"]
    BY <1>8 DEF Finish, RegInv
  <2>2. finished' = finished \cup {d} /\ d \notin finished /\ finished \in SUBSET Dogs
    BY <2>1
  <2>3. {ktory[e] : e \in finished} = 1 .. meta /\ Cardinality(finished) = meta
    BY DEF PlacesGiven
  <2>4. {ktory'[e] : e \in finished'} = {ktory[e] : e \in finished} \cup {meta + 1}
    BY <2>1, <2>2
  <2>5. 1 .. meta + 1 = (1 .. meta) \cup {meta + 1}
    OBVIOUS
  <2>6. Cardinality(finished') = meta + 1
    <3> HIDE DEF finished
    <3> QED  BY ONLY <2>2, <2>3, DogsFinite, FS_AddElement
  <2>7. {ktory'[e] : e \in finished'} = 1 .. meta'
    BY <2>1, <2>3, <2>4, <2>5
  <2> QED  BY <2>1, <2>6, <2>7 DEF PlacesGiven
<1>9. ASSUME NEW d \in Dogs, BeCancelled(d) PROVE PlacesGiven'
  BY <1>9, <1>q DEF BeCancelled
<1>10. ASSUME NEW d \in Dogs, Create(d) PROVE PlacesGiven'
  <2>1. pc[d] = "unborn"
    BY <1>10 DEF Create, Places, Dogs
  <2> QED  BY <1>10, <1>q, <2>1 DEF Create
<1>11. ASSUME Poll PROVE PlacesGiven'
  BY <1>11, <1>q DEF Poll
<1>12. ASSUME CheckMeta PROVE PlacesGiven'
  BY <1>12, <1>q DEF CheckMeta
<1>13. ASSUME LockAll PROVE PlacesGiven'
  BY <1>13, <1>q DEF LockAll
<1>14. ASSUME PrintTrack PROVE PlacesGiven'
  BY <1>14, <1>q DEF PrintTrack
<1>15. ASSUME UnlockAll PROVE PlacesGiven'
  BY <1>15, <1>q DEF UnlockAll
<1>16. ASSUME Cancel PROVE PlacesGiven'
  BY <1>16, <1>q DEF Cancel
<1>17. ASSUME Join PROVE PlacesGiven'
  BY <1>17, <1>q DEF Join
<1>18. ASSUME SendInt PROVE PlacesGiven'
  BY <1>18, <1>q DEF SendInt
<1>19. ASSUME Sigwait PROVE PlacesGiven'
  BY <1>19, <1>q DEF Sigwait
<1>20. CASE UNCHANGED vars
  BY <1>20, <1>q DEF vars
<1> QED
  BY <1>1, <1>2, <1>3, <1>4, <1>5, <1>6, <1>7, <1>8, <1>9, <1>10,
     <1>11, <1>12, <1>13, <1>14, <1>15, <1>16, <1>17, <1>18, <1>19, <1>20, NextCases

-----------------------------------------------------------------------------
\* main starts with an empty track and no dogs.
LEMMA Initially == Init => IInv
<1> SUFFICES ASSUME Init PROVE IInv
  OBVIOUS
<1> USE TrackAssumption, DogsAssumption, NoDogs DEF Init
<1>1. TypeOK
  <2>1. 0 \in Pola /\ 0 \in 0 .. m /\ 0 \in 0 .. n + m
    BY DEF Pola
  <2>2. tab \in [Pola -> Nat] /\ pos \in [Dogs -> Pola] /\ ktory \in [Dogs -> 0 .. m]
    BY <2>1
  <2> QED  BY <2>1, <2>2 DEF TypeOK
<1>2. Places
  BY DEF Places, Dogs
<1>3. MutexInv /\ RegInv
  BY DEF MutexInv, RegInv, MainHolds
<1>4. FieldsExact /\ PictureInv
  <2>1. OnTrack = {}
    BY DEF OnTrack
  <2>2. \A f \in Pola : {d \in OnTrack : pos[d] = f} = {}
    BY <2>1
  <2> QED  BY <2>2, FS_EmptySet DEF FieldsExact, PictureInv, PictureWhole
<1>5. PlacesGiven
  <2>1. {d \in Dogs : pc[d] = "finished"} = {}
    OBVIOUS
  <2>2. 1 .. meta = {}
    OBVIOUS
  <2> QED  BY <2>1, <2>2, FS_EmptySet DEF PlacesGiven
<1> QED  BY <1>1, <1>2, <1>3, <1>4, <1>5 DEF IInv

\* Every field counts the dogs on it, main prints one picture of the track, and
\* places are given once each, in order: for any number of dogs, any track and
\* any longest move (the sections of worker_thread, main's print loop).
THEOREM RaceIsExact == ChosenSpec => []TrackExact
<1>1. IInv /\ [Next]_vars => IInv'
  BY TypeStep, PlacesStep, MutexStep, RegStep, FieldsStep, PictureStep, GivenStep DEF IInv
<1>2. IInv => TrackExact
  BY DEF IInv, TrackExact, PictureInv
<1>3. [ChosenNext]_chosenVars => [Next]_vars
  BY DEF ChosenNext, chosenVars, RunRace, RunSchool, Dog, Student, RaceMain, SchoolMain,
     SignalThread, Keyboard, Next
<1> QED  BY <1>1, <1>2, <1>3, Initially, PTL DEF ChosenSpec, ChosenInit

(***************************************************************************)
(* Students, for every number of students, every number of rounds and      *)
(* every permutation main may draw.  StInv is the inductive invariant: the *)
(* types, what a student's place says about what it is doing, who holds    *)
(* which mutex, that a loaded value is current, that every counter is      *)
(* exact, and how far main may still count.                                *)
(***************************************************************************)
\* Its steps are those of Students.
LEMMA StMoves ==
    ASSUME [ChosenNext]_chosenVars
    PROVE  [St!Next]_(St!vars)
<1> USE DEF school, St!vars
<1>1. CASE UNCHANGED school
  BY <1>1
<1>2. CASE RunSchool /\ ~UNCHANGED school
  <2> USE <1>2 DEF RunRace, RunSchool
  <2>1. CASE \E s \in St!Students : Student(s)
    BY <2>1 DEF Student, St!Next
  <2>2. CASE (\E d \in Dogs : Dog(d)) \/ RaceMain \/ SchoolMain \/ SignalThread \/ Keyboard
    BY <2>2 DEF Dog, RaceMain, SchoolMain, SignalThread, Keyboard, St!Next
  <2> QED  BY <2>1, <2>2 DEF ChosenNext, chosenVars
<1> QED
  BY <1>1, <1>2 DEF ChosenNext, chosenVars, Dog, Student, RaceMain, SchoolMain, SignalThread,
     Keyboard, RunRace, RunSchool

\* The two copies of Cardinality are one.
LEMMA StCard == \A S : St!Cardinality(S) = Cardinality(S)
BY DEF St!Cardinality, Cardinality

Critical(s) == stPc[s] \in {"load", "store", "unlock"}

\* A student sleeps only when counted in a year before the last, leaves a year
\* only after that, and is cleaned up and kicked only after pthread_cancel.
StPlaces ==
    \A s \in St!Students :
        /\ stPc[s] \in {"unborn", "asleep", "returned"} => stDoing[s] = "increment"
        /\ stPc[s] = "asleep" \/ stDoing[s] # "increment" => year[s] < 3
        /\ stPc[s] = "returned" => year[s] = 3
        /\ stDoing[s] = "cleanup" => s \in stCancelled
        /\ stPc[s] = "kicked" => stDoing[s] = "cleanup"

\* A year's mutex belongs to the student that is at work on its counter.
StMutexInv ==
    \A s \in St!Students : \A y \in St!Years :
        mxCounters[y] = {s} <=> Critical(s) /\ year[s] = y

\* The counters are exact, and a loaded value is current.
StCountInv ==
    /\ \A y \in St!Years : values[y] = Cardinality({s \in St!Students : St!In(s, y)})
    /\ \A s \in St!Students : stPc[s] = "store" => stReg[s] = values[year[s]]

\* main has rounds left whenever it goes into one, and prints after the joins.
StMainInv ==
    /\ stMain \in {"create", "look", "kick"} => ile_wyrzuconych < MaxKicks
    /\ stMain = "kick" /\ St!LastRound(ile_wyrzuconych + 1) => over
    /\ stMain = "printed" => \A s \in St!Students : St!Gone(s)

StInv == St!TypeOK /\ StPlaces /\ StMutexInv /\ StCountInv /\ StMainInv

\* The students are finitely many, and so is every part of them.
LEMMA StudentsFinite ==
    /\ IsFiniteSet(St!Students) /\ Cardinality(St!Students) = studentsCount
    /\ \A S \in SUBSET St!Students : IsFiniteSet(S) /\ Cardinality(S) \in Nat
<1>1. IsFiniteSet(St!Students) /\ Cardinality(St!Students) = studentsCount
  <2>1. 0 \in Int /\ studentsCount - 1 \in Int
    BY SchoolAssumption
  <2> QED  BY <2>1, SchoolAssumption, FS_Interval DEF St!Students
<1> QED  BY <1>1, FS_Subset, FS_CardinalityType

\* Next by its actions.
LEMMA StCases ==
    ASSUME St!Next
    PROVE  \/ \E s \in St!Students : \/ St!Create(s) \/ St!Lock(s) \/ St!Load(s)
                                     \/ St!Store(s) \/ St!Unlock(s)
                                     \/ St!WakeUp(s) \/ St!BeCancelled(s)
           \/ St!Look \/ St!Kick \/ St!Finish
BY DEF St!Next, St!StudentStep, St!MainStep

\* The types are preserved: a counter never falls below zero, because the student
\* that takes itself off is counted, and main never counts past its rounds.
LEMMA StTypeStep ==
    ASSUME St!TypeOK, StPlaces, StCountInv, StMainInv, [St!Next]_(St!vars)
    PROVE  St!TypeOK'
<1> USE SchoolAssumption DEF St!shared, St!own, St!mains, St!Goto, St!TypeOK, StPlaces, StMainInv
<1>1. ASSUME NEW s \in St!Students, St!Create(s) PROVE St!TypeOK'
  BY <1>1 DEF St!Create
<1>2. ASSUME NEW s \in St!Students, St!Lock(s) PROVE St!TypeOK'
  BY <1>2 DEF St!Lock
<1>3. ASSUME NEW s \in St!Students, St!Load(s) PROVE St!TypeOK'
  BY <1>3 DEF St!Load
<1>4. ASSUME NEW s \in St!Students, St!Store(s) PROVE St!TypeOK'
  <2>1. year[s] \in St!Years /\ stPc[s] = "store" /\ stReg[s] = values[year[s]]
    BY <1>4 DEF St!Store, StCountInv
  <2>2. stDoing[s] # "increment" => stReg[s] > 0
    <3> DEFINE in == {t \in St!Students : St!In(t, year[s])}
    <3>1. ASSUME stDoing[s] # "increment" PROVE s \in in
      BY <2>1, <3>1 DEF St!In
    <3>2. in \in SUBSET St!Students /\ stReg[s] = Cardinality(in)
      BY <2>1 DEF StCountInv
    <3> HIDE DEF in
    <3>3. IsFiniteSet(in) /\ Cardinality(in) \in Nat
      BY ONLY <3>2, StudentsFinite
    <3>4. in # {} => Cardinality(in) # 0
      BY ONLY <3>3, FS_EmptySet
    <3> QED  BY ONLY <3>1, <3>2, <3>3, <3>4
  <2>3. values' \in [St!Years -> Nat]
    BY <1>4, <2>1, <2>2 DEF St!Store
  <2> QED  BY <1>4, <2>3 DEF St!Store
<1>5. ASSUME NEW s \in St!Students, St!Unlock(s) PROVE St!TypeOK'
  <2>1. stDoing[s] = "decrement" => year[s] + 1 \in St!Years
    BY DEF St!Years
  <2>2. year[s] \in St!Years
    OBVIOUS
  <2> QED  BY <1>5, <2>1, <2>2 DEF St!Unlock
<1>6. ASSUME NEW s \in St!Students, St!WakeUp(s) PROVE St!TypeOK'
  BY <1>6 DEF St!WakeUp
<1>7. ASSUME NEW s \in St!Students, St!BeCancelled(s) PROVE St!TypeOK'
  BY <1>7 DEF St!BeCancelled
<1>8. ASSUME St!Look PROVE St!TypeOK'
  <2>1. St!LastRound(ile_wyrzuconych + 1) \in BOOLEAN
    BY DEF St!LastRound
  <2>2. over' \in BOOLEAN
    BY <1>8, <2>1, Zenon DEF St!Look
  <2> QED  BY <1>8, <2>2 DEF St!Look
<1>9. ASSUME St!Kick PROVE St!TypeOK'
  <2>1. ile_wyrzuconych' \in 0 .. MaxKicks
    BY <1>9 DEF St!Kick
  <2>2. present' \in 0 .. studentsCount
    BY <1>9 DEF St!Kick
  <2>3. stCancelled' \subseteq St!Students /\ removed' \in [St!Students -> BOOLEAN]
    <3>1. CASE present = 0
      BY <1>9, <3>1 DEF St!Kick
    <3>2. CASE present # 0
      <4>1. PICK idx \in St!Students : stCancelled' = stCancelled \cup {idx}
                                       /\ removed' = [removed EXCEPT ![idx] = TRUE]
        BY <1>9, <3>2 DEF St!Kick
      <4> QED  BY <4>1
    <3> QED  BY <3>1, <3>2
  <2> QED  BY <1>9, <2>1, <2>2, <2>3 DEF St!Kick
<1>10. ASSUME St!Finish PROVE St!TypeOK'
  BY <1>10 DEF St!Finish
<1>11. CASE UNCHANGED St!vars
  BY <1>11 DEF St!vars
<1> QED
  BY <1>1, <1>2, <1>3, <1>4, <1>5, <1>6, <1>7, <1>8, <1>9, <1>10, <1>11, StCases

\* Every student follows its program.
LEMMA StPlacesStep ==
    ASSUME St!TypeOK, StPlaces, [St!Next]_(St!vars)
    PROVE  StPlaces'
<1> USE SchoolAssumption DEF St!shared, St!own, St!mains, St!Goto, St!TypeOK, StPlaces
<1>1. ASSUME NEW s \in St!Students, St!Create(s) PROVE StPlaces'
  BY <1>1 DEF St!Create
<1>2. ASSUME NEW s \in St!Students, St!Lock(s) PROVE StPlaces'
  BY <1>2 DEF St!Lock
<1>3. ASSUME NEW s \in St!Students, St!Load(s) PROVE StPlaces'
  BY <1>3 DEF St!Load
<1>4. ASSUME NEW s \in St!Students, St!Store(s) PROVE StPlaces'
  BY <1>4 DEF St!Store
<1>5. ASSUME NEW s \in St!Students, St!Unlock(s) PROVE StPlaces'
  <2>1. year[s] \in 0 .. 3 /\ stPc[s] = "unlock"
    BY <1>5 DEF St!Years, St!Unlock
  <2>2. CASE stDoing[s] = "increment"
    BY <1>5, <2>1, <2>2 DEF St!Unlock
  <2>3. CASE stDoing[s] = "decrement"
    BY <1>5, <2>1, <2>3 DEF St!Unlock
  <2>4. CASE stDoing[s] = "cleanup"
    BY <1>5, <2>1, <2>4 DEF St!Unlock
  <2> QED  BY <2>2, <2>3, <2>4
<1>6. ASSUME NEW s \in St!Students, St!WakeUp(s) PROVE StPlaces'
  BY <1>6 DEF St!WakeUp
<1>7. ASSUME NEW s \in St!Students, St!BeCancelled(s) PROVE StPlaces'
  BY <1>7 DEF St!BeCancelled
<1>8. ASSUME St!Look PROVE StPlaces'
  BY <1>8 DEF St!Look
<1>9. ASSUME St!Kick PROVE StPlaces'
  BY <1>9 DEF St!Kick
<1>10. ASSUME St!Finish PROVE StPlaces'
  BY <1>10 DEF St!Finish
<1>11. CASE UNCHANGED St!vars
  BY <1>11 DEF St!vars
<1> QED
  BY <1>1, <1>2, <1>3, <1>4, <1>5, <1>6, <1>7, <1>8, <1>9, <1>10, <1>11, StCases

\* A mutex is taken when free and given back by its holder.
LEMMA StMutexStep ==
    ASSUME St!TypeOK, StPlaces, StMutexInv, [St!Next]_(St!vars)
    PROVE  StMutexInv'
<1> USE SchoolAssumption DEF St!shared, St!own, St!mains, St!Goto, St!TypeOK, StPlaces,
        StMutexInv, Critical
<1>1. ASSUME NEW s \in St!Students, St!Create(s) PROVE StMutexInv'
  BY <1>1 DEF St!Create
<1>2. ASSUME NEW s \in St!Students, St!Lock(s) PROVE StMutexInv'
  <2> SUFFICES ASSUME NEW t \in St!Students, NEW y \in St!Years
               PROVE  mxCounters'[y] = {t} <=> (Critical(t) /\ year[t] = y)'
    OBVIOUS
  <2>1. mxCounters[year[s]] = {} /\ mxCounters' = [mxCounters EXCEPT ![year[s]] = {s}]
        /\ stPc' = [stPc EXCEPT ![s] = "load"] /\ year' = year /\ year[s] \in St!Years
    BY <1>2 DEF St!Lock
  <2>2. mxCounters[y] = {t} <=> Critical(t) /\ year[t] = y
    OBVIOUS
  <2>3. CASE y = year[s]
    <3>1. mxCounters'[y] = {s} /\ mxCounters[y] # {t}
      <4>1. mxCounters \in [St!Years -> {{}} \cup {{u} : u \in St!Students}]
        OBVIOUS
      <4> QED  BY ONLY <2>1, <2>3, <4>1
    <3>2. {s} = {t} <=> s = t
      BY ONLY TRUE
    <3>3. (Critical(t) /\ year[t] = y)' <=> s = t
      BY <2>1, <2>2, <2>3, <3>1
    <3> QED  BY <3>1, <3>2, <3>3
  <2>4. CASE y # year[s]
    BY <2>1, <2>2, <2>4
  <2> QED  BY <2>3, <2>4
<1>3. ASSUME NEW s \in St!Students, St!Load(s) PROVE StMutexInv'
  BY <1>3 DEF St!Load
<1>4. ASSUME NEW s \in St!Students, St!Store(s) PROVE StMutexInv'
  BY <1>4 DEF St!Store
<1>5. ASSUME NEW s \in St!Students, St!Unlock(s) PROVE StMutexInv'
  <2> SUFFICES ASSUME NEW t \in St!Students, NEW y \in St!Years
               PROVE  mxCounters'[y] = {t} <=> (Critical(t) /\ year[t] = y)'
    OBVIOUS
  <2>1. year[s] \in St!Years /\ mxCounters[year[s]] = {s} /\ Critical(s)
    BY <1>5 DEF St!Unlock
  <2>2. mxCounters' = [mxCounters EXCEPT ![year[s]] = {}]
        /\ \E place \in {"returned", "asleep", "lock", "kicked"} :
              stPc' = [stPc EXCEPT ![s] = place]
    BY <1>5 DEF St!Unlock
  <2>3. \A u \in St!Students : u # s => year'[u] = year[u]
    BY <1>5 DEF St!Unlock
  <2>4. mxCounters[y] = {t} <=> Critical(t) /\ year[t] = y
    OBVIOUS
  <2>5. CASE t = s
    BY <2>1, <2>2, <2>4, <2>5, ZenonT(40)
  <2>6. CASE t # s
    BY <2>1, <2>2, <2>3, <2>4, <2>6, ZenonT(40)
  <2> QED  BY <2>5, <2>6
<1>6. ASSUME NEW s \in St!Students, St!WakeUp(s) PROVE StMutexInv'
  BY <1>6 DEF St!WakeUp
<1>7. ASSUME NEW s \in St!Students, St!BeCancelled(s) PROVE StMutexInv'
  BY <1>7 DEF St!BeCancelled
<1>8. ASSUME St!Look PROVE StMutexInv'
  BY <1>8 DEF St!Look
<1>9. ASSUME St!Kick PROVE StMutexInv'
  BY <1>9 DEF St!Kick
<1>10. ASSUME St!Finish PROVE StMutexInv'
  BY <1>10 DEF St!Finish
<1>11. CASE UNCHANGED St!vars
  BY <1>11 DEF St!vars
<1> QED
  BY <1>1, <1>2, <1>3, <1>4, <1>5, <1>6, <1>7, <1>8, <1>9, <1>10, <1>11, StCases

\* A counter changes with the students in its year, one at a time.
LEMMA StCountStep ==
    ASSUME St!TypeOK, StPlaces, StMutexInv, StCountInv, [St!Next]_(St!vars)
    PROVE  StCountInv'
<1> USE SchoolAssumption DEF St!shared, St!own, St!mains, St!Goto, St!TypeOK, StPlaces,
        StCountInv, St!In
<1>1. ASSUME NEW s \in St!Students, St!Create(s) PROVE StCountInv'
  BY <1>1 DEF St!Create
<1>2. ASSUME NEW s \in St!Students, St!Lock(s) PROVE StCountInv'
  BY <1>2 DEF St!Lock
<1>3. ASSUME NEW s \in St!Students, St!Load(s) PROVE StCountInv'
  BY <1>3 DEF St!Load
<1>4. ASSUME NEW s \in St!Students, St!Store(s) PROVE StCountInv'
  <2> DEFINE in(y) == {t \in St!Students : St!In(t, y)}
  <2>1. PICK y \in St!Years : y = year[s] /\ stReg[s] = values[y] /\ stPc[s] = "store"
    BY <1>4 DEF St!Store
  <2>2. /\ stPc' = [stPc EXCEPT ![s] = "unlock"]
        /\ year' = year /\ stDoing' = stDoing /\ stReg' = stReg
        /\ values' = [values EXCEPT ![y] = IF stDoing[s] = "increment" THEN stReg[s] + 1
                                                                       ELSE stReg[s] - 1]
    BY <1>4, <2>1 DEF St!Store
  <2>3. \A z \in St!Years : z # y => in(z)' = in(z)
    BY <2>1, <2>2
  <2>4. values'[y] = Cardinality(in(y)')
    <3>1. in(y) \in SUBSET St!Students /\ values[y] = Cardinality(in(y))
      OBVIOUS
    <3>2. CASE stDoing[s] = "increment"
      <4>1. in(y)' = in(y) \cup {s} /\ s \notin in(y)
        BY <2>1, <2>2, <3>2
      <4>2. values'[y] = values[y] + 1
        BY <2>1, <2>2, <3>2
      <4> HIDE DEF in
      <4> QED  BY ONLY <3>1, <4>1, <4>2, StudentsFinite, FS_AddElement
    <3>3. CASE stDoing[s] # "increment"
      <4>1. in(y)' = in(y) \ {s} /\ s \in in(y)
        BY <2>1, <2>2, <3>3
      <4>2. values'[y] = values[y] - 1
        BY <2>1, <2>2, <3>3
      <4> HIDE DEF in
      <4> QED  BY ONLY <3>1, <4>1, <4>2, StudentsFinite, FS_RemoveElement
    <3> QED  BY <3>2, <3>3
  <2>5. \A t \in St!Students : stPc'[t] = "store" => t # s /\ stPc[t] = "store" /\ year[t] # y
    <3>1. mxCounters[y] = {s}
      BY <2>1 DEF StMutexInv, Critical
    <3>2. \A t \in St!Students : stPc[t] = "store" /\ year[t] = y => {t} = {s}
      BY <3>1 DEF StMutexInv, Critical
    <3>3. \A t \in St!Students : {t} = {s} => t = s
      BY ONLY TRUE
    <3> QED  BY <2>1, <2>2, <3>2, <3>3
  <2>6. \A t \in St!Students : stPc'[t] = "store" => stReg'[t] = values'[year'[t]]
    BY <2>1, <2>2, <2>5
  <2>7. ASSUME NEW z \in St!Years PROVE values'[z] = Cardinality(in(z)')
    <3> HIDE DEF in
    <3>1. z # y => values'[z] = values[z]
      BY <2>1, <2>2
    <3>2. values[z] = Cardinality(in(z))
      BY DEF in
    <3> QED  BY <2>3, <2>4, <3>1, <3>2
  <2> QED  BY <2>6, <2>7
<1>5. ASSUME NEW s \in St!Students, St!Unlock(s) PROVE StCountInv'
  BY <1>5 DEF St!Unlock
<1>6. ASSUME NEW s \in St!Students, St!WakeUp(s) PROVE StCountInv'
  BY <1>6 DEF St!WakeUp
<1>7. ASSUME NEW s \in St!Students, St!BeCancelled(s) PROVE StCountInv'
  BY <1>7 DEF St!BeCancelled
<1>8. ASSUME St!Look PROVE StCountInv'
  BY <1>8 DEF St!Look
<1>9. ASSUME St!Kick PROVE StCountInv'
  BY <1>9 DEF St!Kick
<1>10. ASSUME St!Finish PROVE StCountInv'
  BY <1>10 DEF St!Finish
<1>11. CASE UNCHANGED St!vars
  BY <1>11 DEF St!vars
<1> QED
  BY <1>1, <1>2, <1>3, <1>4, <1>5, <1>6, <1>7, <1>8, <1>9, <1>10, <1>11, StCases

\* main goes round while it has rounds left, and students it has joined stay gone.
LEMMA StMainStep ==
    ASSUME St!TypeOK, StMainInv, [St!Next]_(St!vars)
    PROVE  StMainInv'
<1> USE SchoolAssumption DEF St!shared, St!own, St!mains, St!Goto, St!TypeOK, StPlaces,
        StMainInv, St!Gone, St!LastRound
<1>1. ASSUME NEW s \in St!Students, St!Create(s) PROVE StMainInv'
  BY <1>1 DEF St!Create
<1>2. ASSUME NEW s \in St!Students, St!Lock(s) PROVE StMainInv'
  BY <1>2 DEF St!Lock
<1>3. ASSUME NEW s \in St!Students, St!Load(s) PROVE StMainInv'
  BY <1>3 DEF St!Load
<1>4. ASSUME NEW s \in St!Students, St!Store(s) PROVE StMainInv'
  BY <1>4 DEF St!Store
<1>5. ASSUME NEW s \in St!Students, St!Unlock(s) PROVE StMainInv'
  BY <1>5 DEF St!Unlock
<1>6. ASSUME NEW s \in St!Students, St!WakeUp(s) PROVE StMainInv'
  BY <1>6 DEF St!WakeUp
<1>7. ASSUME NEW s \in St!Students, St!BeCancelled(s) PROVE StMainInv'
  BY <1>7 DEF St!BeCancelled
<1>8. ASSUME St!Look PROVE StMainInv'
  BY <1>8 DEF St!Look
<1>9. ASSUME St!Kick PROVE StMainInv'
  BY <1>9 DEF St!Kick
<1>10. ASSUME St!Finish PROVE StMainInv'
  BY <1>10 DEF St!Finish
<1>11. CASE UNCHANGED St!vars
  BY <1>11 DEF St!vars
<1> QED
  BY <1>1, <1>2, <1>3, <1>4, <1>5, <1>6, <1>7, <1>8, <1>9, <1>10, <1>11, StCases

-----------------------------------------------------------------------------
\* main starts before the first student, with all counters zero.
LEMMA StInit ==
    ASSUME St!Init
    PROVE  StInv
<1> USE SchoolAssumption DEF St!Init
<1>1. St!TypeOK
  <2>1. values \in [St!Years -> Nat] /\ year \in [St!Students -> St!Years]
    BY DEF St!Years
  <2>2. mxCounters \in [St!Years -> {{}} \cup {{s} : s \in St!Students}]
    OBVIOUS
  <2>3. stTab \in [St!Students -> St!Students] /\ removed \in [St!Students -> BOOLEAN]
    BY DEF St!Shuffled
  <2>4. present \in 0 .. studentsCount /\ ile_wyrzuconych \in 0 .. MaxKicks
    OBVIOUS
  <2>5. over \in BOOLEAN
    OBVIOUS
  <2> QED  BY <2>1, <2>2, <2>3, <2>4, <2>5 DEF St!TypeOK
<1>2. StPlaces /\ StMainInv
  BY DEF StPlaces, StMainInv
<1>3. StMutexInv
  BY DEF StMutexInv, Critical
<1>4. StCountInv
  <2>1. \A y \in St!Years : {s \in St!Students : St!In(s, y)} = {}
    BY DEF St!In
  <2> QED  BY <2>1, FS_EmptySet DEF StCountInv
<1> QED  BY <1>1, <1>2, <1>3, <1>4 DEF StInv

\* StInv holds in every reachable state.
THEOREM StInductive == ChosenSpec => []StInv
<1>1. StInv /\ [St!Next]_(St!vars) => StInv'
  BY StTypeStep, StPlacesStep, StMutexStep, StCountStep, StMainStep DEF StInv
<1> QED  BY <1>1, StInit, StMoves, PTL DEF ChosenSpec, ChosenInit

\* Every counter tells exactly who is in its year wherever students are
\* cancelled, and main prints three zeros and the number of the students never
\* caught asleep: for any number of students, of rounds and any permutation.
THEOREM YearsAreExact == ChosenSpec => []YearsExact
<1>1. StInv => YearsExact
  <2> SUFFICES ASSUME StInv PROVE St!YearsExact
    BY DEF YearsExact
  <2> USE DEF StInv
  <2> DEFINE kicked == {s \in St!Students : stPc[s] = "kicked"}
  <2>1. ASSUME stMain = "printed"
        PROVE  /\ kicked \subseteq stCancelled
               /\ values = [y \in St!Years |-> IF y = 3 THEN studentsCount - Cardinality(kicked)
                                                        ELSE 0]
    <3>1. \A s \in St!Students : St!Gone(s)
      BY <2>1 DEF StMainInv
    <3>2. \A s \in St!Students : IF stPc[s] = "kicked"
                                 THEN stDoing[s] = "cleanup" /\ s \in stCancelled
                                 ELSE /\ stPc[s] = "returned" /\ stDoing[s] = "increment"
                                      /\ year[s] = 3
      BY <3>1 DEF St!Gone, StPlaces
    <3>3. \A y \in St!Years : {s \in St!Students : St!In(s, y)} =
              IF y = 3 THEN St!Students \ kicked ELSE {}
      BY <3>2 DEF St!In
    <3>4. Cardinality(St!Students \ kicked) = studentsCount - Cardinality(kicked)
      <4>1. kicked \in SUBSET St!Students /\ St!Students \cap kicked = kicked
        OBVIOUS
      <4> HIDE DEF kicked
      <4>2. IsFiniteSet(St!Students) /\ Cardinality(St!Students) = studentsCount
        BY ONLY StudentsFinite
      <4>3. Cardinality(St!Students \ kicked) =
                Cardinality(St!Students) - Cardinality(St!Students \cap kicked)
        BY ONLY <4>2, FS_Difference
      <4> QED  BY ONLY <4>1, <4>2, <4>3
    <3>5. \A y \in St!Years : values[y] = IF y = 3 THEN studentsCount - Cardinality(kicked) ELSE 0
      BY <3>3, <3>4, FS_EmptySet DEF StCountInv
    <3> QED  BY <3>2, <3>5 DEF St!TypeOK
  <2> QED  BY <2>1, StCard DEF St!YearsExact, StCountInv
<1> QED  BY <1>1, StInductive, PTL
==============================================================================
