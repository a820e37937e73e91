---------------------------- MODULE PipePrograms ----------------------------
(***************************************************************************)
(* The two smaller programs that talk through pipes, in one instance:      *)
(* PipeRing as Rg! and ThreadPipes as Tp!.  They share nothing; the first  *)
(* state chooses which of them runs, and only that one ever takes a step.  *)
(***************************************************************************)
EXTENDS Integers

CONSTANT PerKind                          \* ThreadPipes: threads of each kind

ASSUME ThreadsAssumption == PerKind \in Nat \ {0}

VARIABLES
    program,      \* "ring" or "threads"
    rgPc, rgClosed, rgX, rgReaders, rgWriters, rgPipe,
    fds, number, waiting, working, sig, at, mainpc, turn

ring == <<rgPc, rgClosed, rgX, rgReaders, rgWriters, rgPipe>>
threads == <<fds, number, waiting, working, sig, at, mainpc, turn>>
chosenVars == <<program, ring, threads>>

Rg == INSTANCE PipeRing WITH
    pc <- rgPc, closed <- rgClosed, x <- rgX, readers <- rgReaders, writers <- rgWriters,
    pipe <- rgPipe
Tp == INSTANCE ThreadPipes WITH n <- PerKind, pc <- at, i <- turn
-----------------------------------------------------------------------------
ChosenInit == program \in {"ring", "threads"} /\ Rg!Init /\ Tp!Init

RunRing == program = "ring" /\ UNCHANGED <<program, threads>>
RunThreads == program = "threads" /\ UNCHANGED <<program, ring>>

RingProcess(p) == RunRing /\ Rg!Step(p)
Thread(t) == RunThreads /\ Tp!ThreadStep(t)
Parents == (RunRing /\ Rg!Forking) \/ (RunThreads /\ Tp!MainStep)
FailedFork == RunRing /\ \E c \in Rg!Children : Rg!ForkFails(c)
Interrupt == RunThreads /\ (Tp!SendInt \/ Tp!Sigwait)

ChosenNext ==
    \/ \E p \in Rg!Procs : RingProcess(p)
    \/ \E t \in Tp!Threads : Thread(t)
    \/ Parents \/ FailedFork \/ Interrupt

\* Every process and thread that can go on does; no fork has to fail and nobody has
\* to press Ctrl-C.
ChosenSpec ==
    /\ ChosenInit /\ [][ChosenNext]_chosenVars
    /\ \A p \in Rg!Procs : WF_chosenVars(RingProcess(p))
    /\ \A t \in Tp!Threads : WF_chosenVars(Thread(t))
    /\ WF_chosenVars(Parents)
-----------------------------------------------------------------------------
\* One number is in the ring, none once somebody has found 0, and an end of input
\* means that the predecessor has ended (l5z1/main.c's loops and close()s).
RingInOrder == Rg!OneNumber /\ Rg!NoEarlyEnd

\* An end is passed on all the way round the ring (l5z1/main.c's close()s).
EndGoesRound == Rg!EndGoesRound

\* A thread's number stands for its own pipe or for nothing (l5/main.c's close()s).
OwnPipe == Tp!OwnPipe

\* The program of l5/main.c ends, Ctrl-C or not.
ProgramEnds == program = "threads" => Tp!ProgramEnds
=============================================================================
