--------------------------- MODULE ThreadPrograms ---------------------------
(***************************************************************************)
(* The smaller threaded programs, in one instance: BeanMachine, Porters    *)
(* (with the thread template) and SigList.  They share nothing; the first  *)
(* state chooses which of them runs, and only that one ever takes a step.  *)
(***************************************************************************)
EXTENDS Integers, FiniteSets

CONSTANTS
    Main, Nobody, Sig,
    Threads,                             \* Throwers, Workers
    Balls, Bins, LastBin,                \* BeanMachine
    Plots, Window,                       \* Porters
    K                                    \* SigList

ASSUME ThreadsAssumption ==
    /\ IsFiniteSet(Threads) /\ Main \notin Threads \cup {Sig, Nobody}
    /\ Sig \notin Threads \cup {Nobody} /\ Nobody \notin Threads
ASSUME BeansAssumption ==
    /\ Balls \in Nat /\ IsFiniteSet(Bins)
    /\ Bins \cap {"ballsW", "ballsT", "unborn", "gone"} = {} /\ LastBin \in Bins
ASSUME SaltAssumption ==
    /\ Plots # {} /\ "kon" \notin Plots /\ Window \in Nat \ {0}
    /\ Threads \cap (Plots \cup {"kon"}) = {}
ASSUME ListAssumption == K \in Nat \ {0}

VARIABLES
    program,      \* "beans", "porters" or "list"
    garbage, cell, beanOwner, at, doing, beanReg, beanMain, printed,
    porter, working, dzialki, strewn, plotOwner, wpc, plot, reg, spc, pending, mainpc, released,
    version, head, next, freed, k, stop, listOwner, listSig, victim, signals,
    listMain, cur, shown, walked

beans == <<garbage, cell, beanOwner, at, doing, beanReg, beanMain, printed>>
porters == <<porter, working, dzialki, strewn, plotOwner, wpc, plot, reg, spc, pending,
             mainpc, released>>
list == <<version, head, next, freed, k, stop, listOwner, listSig, victim, signals,
          listMain, cur, shown, walked>>
vars == <<program, beans, porters, list>>

Beans == INSTANCE BeanMachine WITH
    Throwers <- Threads, n <- Balls, owner <- beanOwner, reg <- beanReg, mainpc <- beanMain
Salt == INSTANCE Porters WITH Workers <- Threads, prog <- porter, owner <- plotOwner
List == INSTANCE SigList WITH
    prog <- version, owner <- listOwner, spc <- listSig, pending <- signals,
    mainpc <- listMain
-----------------------------------------------------------------------------
\* What the programs that do not run start with is of no interest.
Init ==
    /\ program \in {"beans", "porters", "list"}
    /\ Beans!Init /\ (program # "beans" => garbage = "works")
    /\ Salt!Init /\ (program # "porters" => porter = "robole")
    /\ List!Init /\ (program # "list" => version = "sygnaly")

RunBeans == program = "beans" /\ UNCHANGED <<program, porters, list>>
RunPorters == program = "porters" /\ UNCHANGED <<program, beans, list>>
RunList == program = "list" /\ UNCHANGED <<program, beans, porters>>

\* The threads of the running program, its main, its signal thread.
Thread(t) == (RunBeans /\ Beans!ThrowerStep(t)) \/ (RunPorters /\ Salt!WorkerStep(t))
MainStep ==
    (RunBeans /\ Beans!MainStep) \/ (RunPorters /\ Salt!MainStep) \/ (RunList /\ List!MainStep)
SigStep == (RunPorters /\ Salt!SigStep) \/ (RunList /\ List!SigStep)
Keyboard ==
    \/ RunPorters /\ Salt!SendInt
    \/ RunList /\ (List!SendInt \/ List!SendQuit)

Next == (\E t \in Threads : Thread(t)) \/ MainStep \/ SigStep \/ Keyboard

\* Fairness as in the modules of the programs.
FairSpec ==
    /\ Init /\ [][Next]_vars
    /\ \A t \in Threads :
          SF_vars(RunBeans /\ Beans!ThrowerStep(t)) /\ WF_vars(RunPorters /\ Salt!WorkerStep(t))
    /\ SF_vars(RunBeans /\ Beans!MainStep) /\ WF_vars(RunPorters /\ Salt!MainStep)
    /\ SF_vars(RunList /\ List!MainStep)
    /\ WF_vars(RunPorters /\ Salt!SigStep) /\ SF_vars(RunList /\ List!SigStep)
-----------------------------------------------------------------------------
\* What is counted under a mutex is exact, and final when it is printed
\* without one: no ball is lost or doubled, no salt either (mutex.c's and
\* robole.c's threads, their main's last loops).
CountsExact == Beans!BallsKept /\ Beans!PrintIsFinal /\ Salt!SaltExact

\* Every print of the list shows the nodes of one state, in their order; the
\* number above them is theirs in sygnaly.c, and stale by the nodes removed in
\* template.c.
OneState == List!OneState

\* Nobody uses what has been freed or destroyed: no mutex of robole.c, no
\* node of the list (the ends of the three mains).
NothingUsedAfterFree == Salt!NothingUsedAfterRelease /\ List!NothingDangling

\* Every program ends when it should: the bean machine with its last ball,
\* the template by itself, the porters once the flag is clear, the list on
\* SIGQUIT if SIGINT does not always come first (the loops of the mains and
\* of the signal threads).
Told ==
    \/ program = "beans"
    \/ program = "porters" /\ (porter = "l4_template" \/ working = 0)
    \/ "SIGQUIT" \in signals
Over == beanMain = "done" \/ Beans!Swallowed \/ mainpc = "over" \/ listMain = "over"
ThreadsEnd == []<>List!Flooded \/ (Told ~> Over)
=============================================================================
