---------------------------- MODULE Kindergarten ----------------------------
(***************************************************************************)
(* src/lab2_z2_2.c: a parent process, the kindergarten, has n children,    *)
(* the first of them ill.  An ill child coughs, SIGUSR1 to the whole       *)
(* process group, until its alarm rings and its parents pick it up; a      *)
(* healthy one may fall ill when it is coughed at.  The kindergarten       *)
(* counts SIGCHLD; when its own alarm rings it sends SIGTERM to the group  *)
(* and prints how many children stayed.                                    *)
(***************************************************************************)
EXTENDS Integers, FiniteSets, Signals

CONSTANTS
    n,            \* the number of children
    KG            \* the kindergarten

Children == 0 .. n - 1
Procs == Children \cup {KG}
Sigs == {"SIGUSR1", "SIGALRM", "SIGTERM", "SIGCHLD"}

VARIABLES
    sig,          \* the signals of every process
    timer,        \* processes whose alarm() is running
    cpc,          \* where a child is
    fate,         \* how it ended: "none", "fetched", "stayed", "struck"
    okaszlane, czyodebrane, wypisz, \* children whose flags are set
    mainpc,       \* where the kindergarten is
    gone          \* wypisz of the kindergarten: the SIGCHLD it has counted

flags == <<okaszlane, czyodebrane, wypisz>>
vars == <<sig, timer, cpc, fate, flags, mainpc, gone>>

Here(c) == cpc[c] \notin {"unborn", "gone"}
Open == mainpc \notin {"dead", "over"}
Goto(c, place) == cpc' = [cpc EXCEPT ![c] = place]
Alive == {c \in Children : Here(c)} \cup (IF Open THEN {KG} ELSE {})

\* A signal to every process in a set that is there.
SentTo(to, s) == [p \in Procs |-> IF p \in to \cap Alive THEN Sent(sig[p], s) ELSE sig[p]]
-----------------------------------------------------------------------------
Init ==
    /\ sig = [p \in Procs |-> NewProcess(Sigs)]
    /\ timer = {}
    /\ cpc = [c \in Children |-> "unborn"]
    /\ fate = [c \in Children |-> "none"]
    /\ okaszlane = {} /\ czyodebrane = {} /\ wypisz = {}
    /\ mainpc = "fork"
    /\ gone = 0

Fork(c) ==
    /\ mainpc = "fork" /\ cpc[c] = "unborn"
    /\ Deliverable(sig[KG]) = {}
    /\ \A d \in Children : d < c => cpc[d] # "unborn"
    /\ sig' = [sig EXCEPT ![c] = Forked(sig[KG])]
    /\ Goto(c, "usr1")
    /\ mainpc' = IF c = n - 1 THEN "alarm" ELSE "fork"
    /\ UNCHANGED <<timer, fate, flags, gone>>

\* create_children gives up on the rest; nobody looks at what it returns.
ForkFails ==
    /\ mainpc = "fork"
    /\ mainpc' = "alarm"
    /\ UNCHANGED <<sig, timer, cpc, fate, flags, gone>>

SetAlarm ==
    /\ mainpc = "alarm"
    /\ timer' = timer \cup {KG}
    /\ mainpc' = "block"
    /\ UNCHANGED <<sig, cpc, fate, flags, gone>>

\* The kindergarten blocks what it will wait for, then ignores coughs, then
\* its own SIGTERM.
Prepare ==
    /\ mainpc \in {"block", "ignusr1", "ignterm"}
    /\ sig' = [sig EXCEPT ![KG] =
          CASE mainpc = "block" -> Blocked(@, {"SIGALRM", "SIGCHLD"})
            [] mainpc = "ignusr1" -> Disposed(@, "SIGUSR1", "ignore")
            [] OTHER -> Disposed(@, "SIGTERM", "ignore")]
    /\ mainpc' = CASE mainpc = "block" -> "ignusr1" [] mainpc = "ignusr1" -> "ignterm" [] OTHER -> "wait"
    /\ UNCHANGED <<timer, cpc, fate, flags, gone>>

Counted_Any(s) == gone + 1                   \* mutation
Counted(s) == IF s = "SIGCHLD" THEN gone + 1 ELSE gone

Wait(s) ==
    /\ mainpc = "wait" /\ s \in Waited(sig[KG], {"SIGALRM", "SIGCHLD"})
    /\ sig' = [sig EXCEPT ![KG] = Taken(@, s)]
    /\ gone' = Counted(s)
    /\ mainpc' = IF s = "SIGALRM" THEN "close" ELSE "wait"
    /\ UNCHANGED <<timer, cpc, fate, flags>>

\* kill(-getpid(), SIGTERM)
Close ==
    /\ mainpc = "close"
    /\ sig' = SentTo(Procs, "SIGTERM")
    /\ mainpc' = "report"
    /\ UNCHANGED <<timer, cpc, fate, flags, gone>>

\* The number is printed and the kindergarten exits, waiting for nobody.
Report ==
    /\ mainpc = "report"
    /\ mainpc' = "over"
    /\ UNCHANGED <<sig, timer, cpc, fate, flags, gone>>
-----------------------------------------------------------------------------
\* A child installs its handlers ...
Order == [usr1 |-> <<"SIGUSR1", "term">>, term |-> <<"SIGTERM", "alrm">>,
          alrm |-> <<"SIGALRM", "look">>]

Install(c) ==
    /\ cpc[c] \in DOMAIN Order
    /\ sig' = [sig EXCEPT ![c] = Disposed(@, Order[cpc[c]][1], "handler")]
    /\ Goto(c, IF cpc[c] = "alrm" /\ c = 0 THEN "fallill" ELSE Order[cpc[c]][2])
    /\ UNCHANGED <<timer, fate, flags, mainpc, gone>>

\* The end of a child, which sends SIGCHLD.
Ends(c, how) ==
    /\ Goto(c, "gone")
    /\ fate' = [fate EXCEPT ![c] = how]
    /\ sig' = SentTo({KG}, "SIGCHLD")
    /\ timer' = timer \ {c}

\* ... and, while it is healthy, looks whether it is to leave or has been
\* coughed at, which may make it ill.
Look(c) ==
    /\ cpc[c] = "look"
    /\ IF c \in wypisz
       THEN Ends(c, "stayed") /\ UNCHANGED okaszlane
       ELSE /\ c \in okaszlane
            /\ okaszlane' = okaszlane \ {c}
            /\ Goto(c, "look") \/ Goto(c, "fallill")
            /\ UNCHANGED <<fate, sig, timer>>
    /\ UNCHANGED <<czyodebrane, wypisz, mainpc, gone>>

\* It ignores coughs, sets its alarm and begins to cough.
FallIll(c) ==
    /\ cpc[c] = "fallill"
    /\ sig' = [sig EXCEPT ![c] = Disposed(@, "SIGUSR1", "ignore")]
    /\ timer' = timer \cup {c}
    /\ Goto(c, "cough")
    /\ UNCHANGED <<fate, flags, mainpc, gone>>

\* kill(-getppid(), SIGUSR1): the group while the kindergarten is there, every
\* process there is, siblings among them, when it is not.
Cough(c) ==
    /\ cpc[c] = "cough"
    /\ sig' = SentTo(Procs, "SIGUSR1")
    /\ Goto(c, "leave")
    /\ UNCHANGED <<timer, fate, flags, mainpc, gone>>

Leave(c) ==
    /\ cpc[c] = "leave"
    /\ IF c \in wypisz
       THEN Ends(c, IF c \in czyodebrane THEN "fetched" ELSE "stayed")
       ELSE Goto(c, "cough") /\ UNCHANGED <<fate, sig, timer>>
    /\ UNCHANGED <<flags, mainpc, gone>>

\* The handlers.
Handle(c, s) ==
    /\ Here(c) /\ s \in Handled(sig[c])
    /\ sig' = [sig EXCEPT ![c] = Taken(@, s)]
    /\ okaszlane' = IF s = "SIGUSR1" THEN okaszlane \cup {c} ELSE okaszlane
    /\ czyodebrane' = IF s = "SIGALRM" THEN czyodebrane \cup {c} ELSE czyodebrane
    /\ wypisz' = IF s = "SIGUSR1" THEN wypisz ELSE wypisz \cup {c}
    /\ UNCHANGED <<timer, cpc, fate, mainpc, gone>>

\* A signal that finds no handler yet: a child told off before its day has
\* begun, or a kindergarten closed by the first cough.
ChildStruck(c) ==
    /\ Here(c) /\ Deadly(sig[c]) # {}
    /\ Ends(c, "struck")
    /\ UNCHANGED <<flags, mainpc, gone>>

KGStruck ==
    /\ Open /\ Deadly(sig[KG]) # {}
    /\ mainpc' = "dead"
    /\ UNCHANGED <<sig, timer, cpc, fate, flags, gone>>

\* An alarm rings.
Ring(p) ==
    /\ p \in timer \cap Alive
    /\ timer' = timer \ {p}
    /\ sig' = SentTo({p}, "SIGALRM")
    /\ UNCHANGED <<cpc, fate, flags, mainpc, gone>>
-----------------------------------------------------------------------------
KGStep ==
    \/ SetAlarm \/ Prepare \/ Close \/ Report \/ KGStruck \/ Ring(KG)
    \/ \E c \in Children : Fork(c)
    \/ \E s \in Sigs : Wait(s)
SignalStep(c) == Ring(c) \/ \E s \in Sigs : Handle(c, s)
ChildStep(c) ==
    Install(c) \/ Look(c) \/ FallIll(c) \/ Cough(c) \/ Leave(c) \/ ChildStruck(c)
Next ==
    \/ KGStep \/ ForkFails
    \/ \E c \in Children : ChildStep(c) \/ SignalStep(c)

Spec == Init /\ [][Next]_vars

\* Every process runs, every alarm rings, and a signal that waits at a child
\* is delivered although the child goes on coughing.
FairSpec ==
    /\ Spec
    /\ WF_vars(KGStep)
    /\ \A c \in Children : WF_vars(ChildStep(c)) /\ WF_vars(SignalStep(c))
-----------------------------------------------------------------------------
\* The values the variables can take.
TypeOK ==
    /\ sig \in [Procs -> SignalStates(Sigs)]
    /\ timer \subseteq Procs
    /\ cpc \in [Children -> {"unborn", "usr1", "term", "alrm", "look", "fallill", "cough",
                             "leave", "gone"}]
    /\ fate \in [Children -> {"none", "fetched", "stayed", "struck"}]
    /\ okaszlane \subseteq Children /\ czyodebrane \subseteq Children /\ wypisz \subseteq Children
    /\ mainpc \in {"fork", "alarm", "block", "ignusr1", "ignterm", "wait", "close", "report",
                   "dead", "over"}
    /\ gone \in 0 .. n

\* The number that is printed, n - wypisz, is never too low: two SIGCHLD
\* that meet are one, and the early ones are lost, but none is counted twice,
\* none is counted for a child that is still there, and a child prints that it
\* stayed only after the kindergarten has closed (main's last loop).
NeverUndercounts ==
    /\ TypeOK
    /\ gone <= Cardinality({c \in Children : fate[c] \in {"fetched", "struck"}})
    /\ \A c \in Children : fate[c] = "stayed" => mainpc \in {"report", "over"}

\* Every child goes home: picked up, or sent away by SIGTERM, unless a signal
\* that came too early has closed the kindergarten and left it with nobody to
\* send the healthy ones away.
Home == (\A c \in Children : ~Here(c)) \/ mainpc = "dead"
AllGoHome == <>Home
=============================================================================
