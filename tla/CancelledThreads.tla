-------------------------- MODULE CancelledThreads --------------------------
(***************************************************************************)
(* The two programs whose main cancels and joins its threads, in one       *)
(* instance: DogRace, whose names are used as they are, and Students as    *)
(* St!.  They share nothing; the first state chooses which of them runs,   *)
(* and only that one ever takes a step.                                    *)
(***************************************************************************)
EXTENDS DogRace

CONSTANTS studentsCount, MaxKicks         \* Students

ASSUME SchoolAssumption == studentsCount \in Nat \ {0} /\ MaxKicks \in Nat \ {0}

VARIABLES
    program,      \* "race" or "school"
    values, mxCounters, stPc, stDoing, year, stReg, stCancelled, stTab, removed, present,
    ile_wyrzuconych, over, stMain

school == <<values, mxCounters, stPc, stDoing, year, stReg, stCancelled, stTab, removed,
            present, ile_wyrzuconych, over, stMain>>
chosenVars == <<program, vars, school>>

St == INSTANCE Students WITH
    pc <- stPc, doing <- stDoing, reg <- stReg, cancelled <- stCancelled, tab <- stTab,
    mainpc <- stMain
-----------------------------------------------------------------------------
\* The order main draws is of no interest when the school does not run.
ChosenInit ==
    /\ program \in {"race", "school"}
    /\ Init
    /\ St!Init /\ (program # "school" => \A s \in St!Students : stTab[s] = s)

RunRace == program = "race" /\ UNCHANGED <<program, school>>
RunSchool == program = "school" /\ UNCHANGED <<program, vars>>

Dog(d) == RunRace /\ DogStep(d)
Student(s) == RunSchool /\ St!StudentStep(s)
RaceMain == RunRace /\ MainStep
SchoolMain == RunSchool /\ St!MainStep
SignalThread == RunRace /\ Sigwait
Keyboard == RunRace /\ SendInt

ChosenNext ==
    \/ \E d \in Dogs : Dog(d)
    \/ \E s \in St!Students : Student(s)
    \/ RaceMain \/ SchoolMain \/ SignalThread \/ Keyboard

\* The scheduler runs every thread that can run.  Every dog sleeps 200 ms or more
\* between two moves and main two seconds between two rounds, so nobody finds a
\* mutex taken whenever it looks; students want each mutex finitely often.
ChosenSpec ==
    /\ ChosenInit /\ [][ChosenNext]_chosenVars
    /\ \A d \in Dogs : SF_chosenVars(Dog(d))
    /\ \A s \in St!Students : WF_chosenVars(Student(s))
    /\ SF_chosenVars(RaceMain)
    /\ WF_chosenVars(SchoolMain) /\ WF_chosenVars(SignalThread)
-----------------------------------------------------------------------------
\* Each year's counter is the number of students in that year, wherever students
\* are cancelled (anulowanie_watkow.c's handlers and its main's last print).
YearsExact == St!YearsExact

\* The students' main joins everybody and prints, however late its four seconds end
\* (anulowanie_watkow.c's main).
ProgramEnds == program = "school" => St!ProgramEnds
=============================================================================
