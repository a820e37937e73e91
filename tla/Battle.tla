------------------------------- MODULE Battle -------------------------------
(***************************************************************************)
(* src/w5franci/main.c: every knight is a process with a pipe of its own;  *)
(* whoever wants to hit a knight writes a byte, the damage, to that pipe.  *)
(* A knight keeps an array of its enemies' write ends and takes an enemy   *)
(* out of it when a write fails with EPIPE.  Saracens attack all the time, *)
(* Franks only after they have been hit.  A knight learns that the battle  *)
(* is over from an empty array, a Frank also from the end of its pipe.     *)
(*                                                                         *)
(* EPIPE and end-of-file depend on who still holds which end of a pipe, so *)
(* the inherited descriptors are part of the state.  The pipes are         *)
(* external: what is kept of a pipe's content is the number of bytes and   *)
(* the damage they add up to.                                              *)
(***************************************************************************)
EXTENDS Integers, FiniteSets, Sequences, SequencesExt

CONSTANTS
    Franks, Saracens,   \* the knights of either side
    Parent,             \* the process that forks them
    HP, Attack,         \* every knight's hit points and greatest damage
    PipeSize,           \* how many bytes a pipe takes
    BuffSize            \* how many of them one read() takes at most

ASSUME SidesAssumption ==
    /\ IsFiniteSet(Franks) /\ IsFiniteSet(Saracens)
    /\ Franks # {} /\ Saracens # {} /\ Franks \cap Saracens = {}
    /\ Parent \notin Franks \cup Saracens
\* A damage above 127 would be negative in a signed char.
ASSUME StrengthAssumption ==
    /\ HP \in Nat \ {0} /\ Attack \in 0 .. 127
    /\ PipeSize \in Nat \ {0} /\ BuffSize \in Nat \ {0}

Knights == Franks \cup Saracens
Procs == Knights \cup {Parent}
Enemies(k) == IF k \in Franks THEN Saracens ELSE Franks

VARIABLES
    pc,         \* where a knight is, or how it ended
    ppc,        \* where the parent is
    hp,         \* hit points, as the knight knows them
    foes,       \* foes[k]: the knights whose write ends are k's array
    wrog,       \* the entry of its array an attacking knight has drawn
    readers,    \* readers[k]: the processes with k's read end open
    writers,    \* writers[k]: the processes with k's write end open
    pipe        \* pipe[k]: the bytes waiting for k, and their damage

vars == <<pc, ppc, hp, foes, wrog, readers, writers, pipe>>
descriptors == <<readers, writers>>

Fates == {"absent", "dead", "home", "ended"}
Ended(k) == pc[k] \in Fates
Goto(k, place) == pc' = [pc EXCEPT ![k] = place]
Empty == [bytes |-> 0, damage |-> 0]
-----------------------------------------------------------------------------
\* main() with both files read and every pipe created.
Init ==
    /\ pc = [k \in Knights |-> "unborn"]
    /\ ppc = "fork"
    /\ hp = [k \in Knights |-> HP]
    /\ foes = [k \in Knights |-> SetToSeq(Enemies(k))]
    /\ wrog = [k \in Knights |-> 1]
    /\ readers = [k \in Knights |-> {Parent}]
    /\ writers = [k \in Knights |-> {Parent}]
    /\ pipe = [k \in Knights |-> Empty]

\* The Saracens are forked before the Franks.
NextToFork(k) ==
    /\ ppc = "fork"
    /\ pc[k] = "unborn"
    /\ k \in Franks => \A s \in Saracens : pc[s] # "unborn"

\* The child inherits every end of every pipe.
Fork(k) ==
    /\ NextToFork(k)
    /\ Goto(k, "setup")
    /\ readers' = [j \in Knights |-> readers[j] \cup {k}]
    /\ writers' = [j \in Knights |-> writers[j] \cup {k}]
    /\ UNCHANGED <<ppc, hp, foes, wrog, pipe>>

\* fork() fails: main goes on as if the knight had been born.
ForkFails(k) ==
    /\ NextToFork(k)
    /\ Goto(k, "absent")
    /\ UNCHANGED <<ppc, hp, foes, wrog, descriptors, pipe>>

\* A knight keeps its own read end and its enemies' write ends.
KeptWriteEnds_OwnToo(k) == Enemies(k) \cup {k}    \* mutation
KeptWriteEnds(k) == Enemies(k)

Setup(k) ==
    /\ pc[k] = "setup"
    /\ readers' = [j \in Knights |-> IF j = k THEN readers[j] ELSE readers[j] \ {k}]
    /\ writers' = [j \in Knights |-> IF j \in KeptWriteEnds(k) THEN writers[j]
                                                              ELSE writers[j] \ {k}]
    /\ Goto(k, "read")
    /\ UNCHANGED <<ppc, hp, foes, wrog, pipe>>

\* The parent closes everything once the knights are forked.
ParentCloses ==
    /\ ppc = "fork"
    /\ \A k \in Knights : pc[k] # "unborn"
    /\ readers' = [k \in Knights |-> readers[k] \ {Parent}]
    /\ writers' = [k \in Knights |-> writers[k] \ {Parent}]
    /\ ppc' = "wait"
    /\ UNCHANGED <<pc, hp, foes, wrog, pipe>>

\* waitpid() has returned every child.
ParentEnds ==
    /\ ppc = "wait"
    /\ \A k \in Knights : Ended(k)
    /\ ppc' = "done"
    /\ UNCHANGED <<pc, hp, foes, wrog, descriptors, pipe>>
-----------------------------------------------------------------------------
\* Leaving the field: the knight's ends of all pipes are closed.
Leave(k, fate) ==
    /\ Goto(k, fate)
    /\ readers' = [j \in Knights |-> readers[j] \ {k}]
    /\ writers' = [j \in Knights |-> writers[j] \ {k}]

\* The knight draws whom to attack, before it knows whether it can.
Aim(k) ==
    /\ Goto(k, "attack")
    /\ \E x \in 1 .. Len(foes[k]) : wrog' = [wrog EXCEPT ![k] = x]

\* What one read() may find: all that waits or, if the buffer does not hold
\* it, any damage that leaves to the other bytes no more than they can do.
Readable(k) ==
    IF pipe[k].bytes <= BuffSize
    THEN {pipe[k]}
    ELSE {blow \in [bytes : {BuffSize}, damage : 0 .. pipe[k].damage] :
            /\ blow.damage <= BuffSize * Attack
            /\ pipe[k].damage - blow.damage <= (pipe[k].bytes - BuffSize) * Attack}

\* The damage of the bytes that are read is taken.
Suffer(k) ==
    /\ pc[k] = "read"
    /\ pipe[k].bytes > 0
    /\ \E blow \in Readable(k) :
          /\ hp' = [hp EXCEPT ![k] = @ - blow.damage]
          /\ pipe' = [pipe EXCEPT ![k] = [bytes |-> @.bytes - blow.bytes,
                                          damage |-> @.damage - blow.damage]]
          /\ IF hp[k] - blow.damage <= 0
             THEN Leave(k, "dead") /\ UNCHANGED wrog
             ELSE Aim(k) /\ UNCHANGED descriptors
    /\ UNCHANGED <<ppc, foes>>

\* Nothing to read.  A Saracen attacks; a Frank tries again, and leaves
\* when nobody can write to it any more.
NothingRead(k) ==
    /\ pc[k] = "read"
    /\ pipe[k].bytes = 0
    /\ k \in Saracens
    /\ Aim(k)
    /\ UNCHANGED <<ppc, hp, foes, descriptors, pipe>>

EndOfFile(k) == pipe[k].bytes = 0 /\ writers[k] = {}

BattleEnded(k) ==
    /\ pc[k] = "read"
    /\ k \in Franks
    /\ EndOfFile(k)
    /\ Leave(k, "ended")
    /\ UNCHANGED <<ppc, hp, foes, wrog, pipe>>

\* The write lands in the enemy's pipe; a full pipe blocks the attacker.
Strike(k, s) ==
    /\ pc[k] = "attack"
    /\ LET enemy == foes[k][wrog[k]] IN
          /\ readers[enemy] # {}
          /\ pipe[enemy].bytes < PipeSize
          /\ pipe' = [pipe EXCEPT ![enemy] =
                         [bytes |-> @.bytes + 1, damage |-> @.damage + s]]
    /\ Goto(k, "read")
    /\ wrog' = [wrog EXCEPT ![k] = 1]
    /\ UNCHANGED <<ppc, hp, foes, descriptors>>

\* Taking entry x out of the array: the last entry takes its place.
WithoutEntry_LastLost(array, x) ==                \* mutation
    IF x = Len(array) THEN Front(array) ELSE Front(Remove(array, array[x]))
WithoutEntry_Shifted(array, x) == Front(array)    \* mutation
WithoutEntry(array, x) == Front([array EXCEPT ![x] = array[Len(array)]])

\* EPIPE: nobody can read the enemy's pipe any more.
EnemyGone(k) ==
    /\ pc[k] = "attack"
    /\ readers[foes[k][wrog[k]]] = {}
    /\ foes' = [foes EXCEPT ![k] = WithoutEntry(@, wrog[k])]
    /\ wrog' = [wrog EXCEPT ![k] = 1]
    /\ IF Len(foes'[k]) < 1
       THEN Leave(k, "home")
       ELSE /\ Goto(k, "read")
            /\ writers' = [writers EXCEPT ![foes[k][wrog[k]]] = @ \ {k}]
            /\ UNCHANGED readers
    /\ UNCHANGED <<ppc, hp, pipe>>
-----------------------------------------------------------------------------
KnightStep(k) ==
    \/ Setup(k) \/ Suffer(k) \/ NothingRead(k) \/ BattleEnded(k)
    \/ EnemyGone(k) \/ \E s \in 0 .. Attack : Strike(k, s)

ParentStep == ParentCloses \/ ParentEnds \/ \E k \in Knights : Fork(k)

Next ==
    \/ ParentStep
    \/ \E k \in Knights : KnightStep(k) \/ ForkFails(k)

Spec == Init /\ [][Next]_vars

\* Every process that can go on does; what is drawn is left to chance.
FairSpec ==
    /\ Spec
    /\ WF_vars(ParentStep)
    /\ \A k \in Knights : WF_vars(KnightStep(k))
-----------------------------------------------------------------------------
\* The values the variables can take.
TypeOK ==
    /\ pc \in [Knights -> {"unborn", "setup", "read", "attack"} \cup Fates]
    /\ ppc \in {"fork", "wait", "done"}
    /\ hp \in [Knights -> Int]
    /\ foes \in [Knights -> Seq(Knights)]
    /\ \A k \in Knights : wrog[k] \in 1 .. Len(foes[k]) \/ Ended(k)
    /\ readers \in [Knights -> SUBSET Procs]
    /\ writers \in [Knights -> SUBSET Procs]
    /\ pipe \in [Knights -> [bytes : 0 .. PipeSize, damage : Nat]]

\* A knight's array is exact: its live prefix names each enemy whose write
\* end the knight still holds, each once, so no attack goes to a closed or
\* reused descriptor and no enemy is forgotten (the removals by
\* frankish_pipes[wrog][1] = frankish_pipes[n - 1][1]; n--).
\* The types are part of it.
ArrayExact ==
    /\ TypeOK
    /\ \A k \in Knights : pc[k] \in {"read", "attack"} =>
          /\ IsInjective(foes[k])
          /\ ToSet(foes[k]) = {j \in Knights : k \in writers[j]}

\* A knight goes home, and a Frank believes the battle has ended, only when
\* no enemy is left, and the two sides never both have survivors (the EPIPE
\* and end-of-file branches).
Survives(k) == pc[k] \in {"home", "ended"}
NoDesertion ==
    \A k \in Knights : Survives(k) => \A e \in Enemies(k) : Ended(e) /\ ~Survives(e)

\* The survivors learn that they have won: when one side is gone, all of
\* the other side and the parent come to their end (every inherited
\* descriptor is closed at start, so EPIPE and end-of-file do arrive).
VictoryIsKnown ==
    \A side \in {Franks, Saracens} :
        (ppc # "fork" /\ \A k \in side : Ended(k)) ~> (ppc = "done")
=============================================================================
