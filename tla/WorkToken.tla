----------------------------- MODULE WorkToken -----------------------------
(***************************************************************************)
(* src/lab2_z3.c: a parent has n children of which one at a time is to     *)
(* work.  SIGUSR1 to a child sets its czy_dzialam, SIGUSR2 clears it; on a *)
(* SIGUSR1 of its own the parent passes the work on to the next child, on  *)
(* SIGINT it sends SIGINT to all of them and waits for them.  A child that *)
(* gets SIGINT writes its count to a file and exits, or goes on if it      *)
(* cannot open the file.                                                   *)
(*                                                                         *)
(* The handlers are installed with an empty mask: while one is in progress *)
(* only its own signal is held back, and another may begin inside it.      *)
(***************************************************************************)
EXTENDS Integers, FiniteSets, Sequences, Signals

CONSTANTS
    n,            \* the number of children
    Parent,
    MaxPasses,    \* bound on the SIGUSR1 the user sends to the parent
    MaxFaults     \* bound on fork() and open() failing

Children == 0 .. n - 1
Procs == Children \cup {Parent}
Sigs == {"SIGINT", "SIGUSR1", "SIGUSR2"}

VARIABLES
    sig,          \* the signals of every process
    cpc,          \* where a child is; "gone" is the end
    inside,       \* the handlers a child is in, the innermost first
    czy_dzialam,  \* the children that work
    mainpc,       \* where the parent is
    pracujace,    \* the child the parent believes at work
    crossed,      \* some child has been due to both work and rest at once
    passes, faults

vars == <<sig, cpc, inside, czy_dzialam, mainpc, pracujace, crossed, passes, faults>>

Child(c) == cpc[c] \notin {"unborn", "gone"}
ParentLives == mainpc \notin {"dead", "over"}
Goto(c, place) == cpc' = [cpc EXCEPT ![c] = place]

\* The signals a child has been sent and has not obeyed yet: they wait, or
\* their handler has begun and not come to its store.
Due(c) == sig[c].pending \cup {inside[c][j] : j \in DOMAIN inside[c]}

\* kill() of one child; a child that is gone is a zombie and takes nothing.
Kills(c, s) ==
    /\ sig' = [sig EXCEPT ![c] = IF Child(c) THEN Sent(@, s) ELSE @]
    /\ crossed' = (crossed \/ (Child(c) /\ {"SIGUSR1", "SIGUSR2"} \subseteq Due(c) \cup {s}))
    /\ UNCHANGED inside
-----------------------------------------------------------------------------
Init ==
    /\ sig = [p \in Procs |-> NewProcess(Sigs)]
    /\ cpc = [c \in Children |-> "unborn"]
    /\ inside = [c \in Children |-> <<>>]
    /\ czy_dzialam = {}
    /\ mainpc = "fork"
    /\ pracujace = 0
    /\ crossed = FALSE
    /\ passes = 0 /\ faults = 0

\* create_children: the children in order, all with default dispositions.
Fork(c) ==
    /\ mainpc = "fork" /\ cpc[c] = "unborn"
    /\ Deliverable(sig[Parent]) = {}
    /\ \A d \in Children : d < c => cpc[d] # "unborn"
    /\ sig' = [sig EXCEPT ![c] = Forked(sig[Parent])]
    /\ Goto(c, "usr1")
    /\ mainpc' = IF c = n - 1 THEN "kick" ELSE "fork"
    /\ UNCHANGED <<inside, czy_dzialam, pracujace, crossed, passes, faults>>

\* A failed fork() returns no array, and main dies when it reads from it.
ForkFails ==
    /\ mainpc = "fork" /\ faults < MaxFaults
    /\ mainpc' = "dead" /\ faults' = faults + 1
    /\ UNCHANGED <<sig, cpc, inside, czy_dzialam, pracujace, crossed, passes>>

\* The first child is told to work, before and after the parent has blocked
\* the signals it waits for.
Kick ==
    /\ mainpc \in {"kick", "kickagain"}
    /\ Kills(0, "SIGUSR1")
    /\ mainpc' = IF mainpc = "kick" THEN "block" ELSE "wait"
    /\ UNCHANGED <<cpc, czy_dzialam, pracujace, passes, faults>>

Block ==
    /\ mainpc = "block"
    /\ sig' = [sig EXCEPT ![Parent] = Blocked(@, Sigs)]
    /\ mainpc' = "kickagain"
    /\ UNCHANGED <<cpc, inside, czy_dzialam, pracujace, crossed, passes, faults>>

\* sigwait(); SIGUSR2 it takes and does nothing about.
Wait(s) ==
    /\ mainpc = "wait" /\ s \in Waited(sig[Parent], Sigs)
    /\ sig' = [sig EXCEPT ![Parent] = Taken(@, s)]
    /\ mainpc' = CASE s = "SIGINT" -> "stop" [] s = "SIGUSR1" -> "halt" [] OTHER -> "wait"
    /\ UNCHANGED <<cpc, inside, czy_dzialam, pracujace, crossed, passes, faults>>

NextChild(c) == IF c + 1 >= n THEN c + 1 - n ELSE c + 1

Halt_TheNext ==                              \* mutation
    /\ mainpc = "halt"
    /\ Kills(NextChild(pracujace), "SIGUSR2")
    /\ mainpc' = "pass"
    /\ UNCHANGED <<cpc, czy_dzialam, pracujace, passes, faults>>
Halt ==
    /\ mainpc = "halt"
    /\ Kills(pracujace, "SIGUSR2")
    /\ mainpc' = "pass"
    /\ UNCHANGED <<cpc, czy_dzialam, pracujace, passes, faults>>

Pass ==
    /\ mainpc = "pass"
    /\ pracujace' = NextChild(pracujace)
    /\ Kills(NextChild(pracujace), "SIGUSR1")
    /\ mainpc' = "wait"
    /\ UNCHANGED <<cpc, czy_dzialam, passes, faults>>

\* SIGINT to every child, and the wait for all of them.
Stop_OnlyTheWorking ==                       \* mutation
    /\ mainpc = "stop"
    /\ Kills(pracujace, "SIGINT")
    /\ mainpc' = "reap"
    /\ UNCHANGED <<cpc, czy_dzialam, pracujace, passes, faults>>
Stop ==
    /\ mainpc = "stop"
    /\ sig' = [p \in Procs |-> IF p # Parent /\ Child(p) THEN Sent(sig[p], "SIGINT") ELSE sig[p]]
    /\ mainpc' = "reap"
    /\ UNCHANGED <<cpc, inside, czy_dzialam, pracujace, crossed, passes, faults>>

Reap ==
    /\ mainpc = "reap"
    /\ \A c \in Children : cpc[c] = "gone"
    /\ mainpc' = "over"
    /\ UNCHANGED <<sig, cpc, inside, czy_dzialam, pracujace, crossed, passes, faults>>
-----------------------------------------------------------------------------
\* A child installs one handler after the other and then loops.
Order == [usr1 |-> <<"SIGUSR1", "usr2">>, usr2 |-> <<"SIGUSR2", "int">>,
          int |-> <<"SIGINT", "loop">>]

Install(c) ==
    /\ cpc[c] \in DOMAIN Order /\ inside[c] = <<>>
    /\ sig' = [sig EXCEPT ![c] = Disposed(@, Order[cpc[c]][1], "handler")]
    /\ Goto(c, Order[cpc[c]][2])
    /\ UNCHANGED <<inside, czy_dzialam, mainpc, pracujace, crossed, passes, faults>>

\* A handler begins, inside whatever the child is doing; of several signals
\* that wait any may come first.
Interrupted(c, s) ==
    /\ Child(c) /\ s \in Handled(sig[c])
    /\ \A j \in DOMAIN inside[c] : inside[c][j] # s
    /\ sig' = [sig EXCEPT ![c] = Taken(@, s)]
    /\ inside' = [inside EXCEPT ![c] = <<s>> \o @]
    /\ UNCHANGED <<cpc, czy_dzialam, mainpc, pracujace, crossed, passes, faults>>

\* The innermost handler does its work and returns.
Innermost(c, s) == Child(c) /\ inside[c] # <<>> /\ Head(inside[c]) = s
Returns(c) == inside' = [inside EXCEPT ![c] = Tail(@)]

Work(c) ==
    /\ Innermost(c, "SIGUSR1") /\ Returns(c)
    /\ czy_dzialam' = czy_dzialam \cup {c}
    /\ UNCHANGED <<sig, cpc, mainpc, pracujace, crossed, passes, faults>>

Rest(c) ==
    /\ Innermost(c, "SIGUSR2") /\ Returns(c)
    /\ czy_dzialam' = czy_dzialam \ {c}
    /\ UNCHANGED <<sig, cpc, mainpc, pracujace, crossed, passes, faults>>

\* What waits for a process goes with it.
Dies(c) ==
    /\ Goto(c, "gone")
    /\ sig' = [sig EXCEPT ![c].pending = {}]
    /\ inside' = [inside EXCEPT ![c] = <<>>]
    /\ czy_dzialam' = czy_dzialam \ {c}

Quit(c) ==
    /\ Innermost(c, "SIGINT")
    /\ Dies(c)
    /\ UNCHANGED <<mainpc, pracujace, crossed, passes, faults>>

\* child_sigint cannot open its file: it returns, and the child goes on.
QuitFails(c) ==
    /\ Innermost(c, "SIGINT") /\ faults < MaxFaults
    /\ Returns(c)
    /\ faults' = faults + 1
    /\ UNCHANGED <<sig, cpc, czy_dzialam, mainpc, pracujace, crossed, passes>>

\* A signal no handler is installed for ends a process.
Struck(p) ==
    /\ Deadly(sig[p]) # {}
    /\ \/ p = Parent /\ ParentLives /\ mainpc' = "dead" /\ UNCHANGED <<sig, cpc, inside, czy_dzialam>>
       \/ p # Parent /\ Child(p) /\ Dies(p) /\ UNCHANGED mainpc
    /\ UNCHANGED <<pracujace, crossed, passes, faults>>
-----------------------------------------------------------------------------
\* The user: SIGUSR1 or SIGINT to the parent.
SendUsr1 ==
    /\ ParentLives /\ passes < MaxPasses
    /\ passes' = passes + 1
    /\ sig' = [sig EXCEPT ![Parent] = Sent(@, "SIGUSR1")]
    /\ UNCHANGED <<cpc, inside, czy_dzialam, mainpc, pracujace, crossed, faults>>

\* Control-C goes to the whole group, kill to the parent alone.
SendInt(to) ==
    /\ ParentLives /\ "SIGINT" \notin sig[Parent].pending
    /\ sig' = [p \in Procs |-> IF p \in to /\ (p = Parent \/ Child(p))
                               THEN Sent(sig[p], "SIGINT") ELSE sig[p]]
    /\ UNCHANGED <<cpc, inside, czy_dzialam, mainpc, pracujace, crossed, passes, faults>>
-----------------------------------------------------------------------------
ParentStep ==
    \/ Kick \/ Block \/ Halt \/ Pass \/ Stop \/ Reap \/ Struck(Parent)
    \/ \E c \in Children : Fork(c)
    \/ \E s \in Sigs : Wait(s)
ChildStep(c) ==
    \/ Install(c) \/ Work(c) \/ Rest(c) \/ Quit(c) \/ Struck(c)
    \/ \E s \in Sigs : Interrupted(c, s)
Next ==
    \/ ParentStep
    \/ \E c \in Children : ChildStep(c) \/ QuitFails(c)
    \/ ForkFails \/ SendUsr1 \/ SendInt({Parent}) \/ SendInt(Procs)

Spec == Init /\ [][Next]_vars
FairSpec == Spec /\ WF_vars(ParentStep) /\ \A c \in Children : WF_vars(ChildStep(c))
-----------------------------------------------------------------------------
\* The values the variables can take.
TypeOK ==
    /\ sig \in [Procs -> SignalStates(Sigs)]
    /\ cpc \in [Children -> {"unborn", "usr1", "usr2", "int", "loop", "gone"}]
    /\ inside \in [Children -> Seq(Sigs)]
    /\ czy_dzialam \subseteq Children
    /\ mainpc \in {"fork", "kick", "block", "kickagain", "wait", "halt", "pass", "stop",
                   "reap", "dead", "over"}
    /\ pracujace \in Children
    /\ crossed \in BOOLEAN
    /\ passes \in 0 .. MaxPasses /\ faults \in 0 .. MaxFaults

\* One child works, the one the parent believes in, and every other one has
\* stopped; or the signal that makes it so is on its way to it, waiting or
\* with its handler begun.  This is so as long as no child is sent one of the
\* two signals while the other is on its way to it: then the later one may be
\* obeyed first, and the code does nothing about it (main's loop).
WorkWithOne ==
    /\ TypeOK
    /\ mainpc = "wait" /\ ~crossed =>
          \A c \in Children : Child(c) =>
              IF c = pracujace
              THEN c \in czy_dzialam \/ "SIGUSR1" \in Due(c)
              ELSE c \notin czy_dzialam \/ "SIGUSR2" \in Due(c)

\* Once the parent has blocked it, SIGINT ends the parent and all children,
\* as long as every child can open its file (child_sigint).
Finished == mainpc = "over" /\ \A c \in Children : cpc[c] = "gone"
IntEndsAll ==
    ("SIGINT" \in sig[Parent].pending /\ "SIGINT" \in sig[Parent].blocked)
        ~> (Finished \/ faults > 0)
=============================================================================
