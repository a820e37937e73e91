------------------------------ MODULE Porters ------------------------------
(***************************************************************************)
(* src/l3/robole.c and src/l4/l4_template.c.  A signal thread clears the   *)
(* flag working on SIGINT.  In robole.c porters look at the flag and put   *)
(* salt on a plot, each plot behind a mutex, until the flag is clear; main *)
(* polls the flag, joins the porters, prints the plots and destroys all    *)
(* mutexes.  In l4_template.c the threads sleep once and end, nobody reads *)
(* the flag, and main frees the signal thread's argument at the end.       *)
(***************************************************************************)
EXTENDS Integers, FiniteSets

CONSTANTS
    Workers,      \* porters, or the players of the template
    Plots,        \* dzialki
    Sig, Main,    \* the signal thread, main
    Nobody,       \* the owner of a free mutex
    Window        \* portions of salt are counted modulo this

VARIABLES
    prog,         \* "robole" or "l4_template"
    working,      \* the flag
    dzialki,      \* the portions on a plot
    strewn,       \* the portions porters have put there
    owner,        \* of the mutex of a plot, and of the flag's ("kon")
    wpc, plot, reg, \* where a porter is, its plot, the value it has loaded
    spc, pending, \* where the signal thread is; SIGINT waits for sigwait()
    mainpc,       \* where main is
    released      \* what main has freed or destroyed

porterVars == <<wpc, plot, reg, strewn>>
signalVars == <<spc, pending>>
vars == <<prog, working, dzialki, owner, porterVars, signalVars, mainpc, released>>

Mutexes == Plots \cup {"kon"}
Goto(w, place) == wpc' = [wpc EXCEPT ![w] = place]
Take(m, t) == owner[m] = Nobody /\ owner' = [owner EXCEPT ![m] = t]
Give(m) == owner' = [owner EXCEPT ![m] = Nobody]
Alive == mainpc # "over"
-----------------------------------------------------------------------------
\* main() with SIGINT blocked and the signal thread created.
Init ==
    /\ prog \in {"robole", "l4_template"}
    /\ working = 1
    /\ dzialki = [p \in Plots |-> 0] /\ strewn = [p \in Plots |-> 0]
    /\ owner = [m \in Mutexes |-> Nobody]
    /\ wpc = [w \in Workers |-> "unborn"]
    /\ plot \in [Workers -> {CHOOSE p \in Plots : TRUE}]
    /\ reg = [w \in Workers |-> 0]
    /\ spc = "wait" /\ pending = FALSE
    /\ mainpc = "create"
    /\ released = {}

Create(w) ==
    /\ mainpc = "create"
    /\ wpc[w] = "unborn"
    /\ Goto(w, IF prog = "robole" THEN "ask" ELSE "sleep")
    /\ mainpc' = IF \E v \in Workers \ {w} : wpc[v] = "unborn" THEN "create"
                 ELSE IF prog = "robole" THEN "ask" ELSE "join"
    /\ UNCHANGED <<prog, working, dzialki, strewn, plot, reg, owner, signalVars, released>>
-----------------------------------------------------------------------------
\* The template's threads sleep and end.
Sleep(w) ==
    /\ Alive /\ wpc[w] = "sleep"
    /\ Goto(w, "gone")
    /\ UNCHANGED <<prog, working, dzialki, strewn, plot, reg, owner, signalVars, mainpc, released>>

\* A porter looks at the flag under its mutex ...
Ask(w) ==
    /\ Alive /\ wpc[w] = "ask"
    /\ Take("kon", w)
    /\ Goto(w, "answer")
    /\ UNCHANGED <<prog, working, dzialki, strewn, plot, reg, signalVars, mainpc, released>>

\* ... and ends, or draws a plot and sleeps.
Answer(w) ==
    /\ Alive /\ wpc[w] = "answer"
    /\ Give("kon")
    /\ IF working = 0
       THEN Goto(w, "gone") /\ UNCHANGED plot
       ELSE Goto(w, "lock") /\ \E p \in Plots : plot' = [plot EXCEPT ![w] = p]
    /\ UNCHANGED <<prog, working, dzialki, strewn, reg, signalVars, mainpc, released>>

Lock(w) ==
    /\ Alive /\ wpc[w] = "lock"
    /\ Take(plot[w], w)
    /\ Goto(w, "load")
    /\ UNCHANGED <<prog, working, dzialki, strewn, plot, reg, signalVars, mainpc, released>>

Load(w) ==
    /\ Alive /\ wpc[w] = "load"
    /\ reg' = [reg EXCEPT ![w] = dzialki[plot[w]]]
    /\ Goto(w, "store")
    /\ UNCHANGED <<prog, working, dzialki, strewn, plot, owner, signalVars, mainpc, released>>

Store(w) ==
    /\ Alive /\ wpc[w] = "store"
    /\ dzialki' = [dzialki EXCEPT ![plot[w]] = (reg[w] + 1) % Window]
    /\ strewn' = [strewn EXCEPT ![plot[w]] = (@ + 1) % Window]
    /\ reg' = [reg EXCEPT ![w] = 0]
    /\ Give(plot[w])
    /\ Goto(w, "ask")
    /\ UNCHANGED <<prog, working, plot, signalVars, mainpc, released>>
-----------------------------------------------------------------------------
\* The signal thread: sigwait, then the flag under its mutex.
SendInt ==
    /\ Alive /\ ~pending
    /\ pending' = TRUE
    /\ UNCHANGED <<prog, working, dzialki, owner, porterVars, spc, mainpc, released>>

Sigwait ==
    /\ Alive /\ spc = "wait" /\ pending
    /\ pending' = FALSE /\ spc' = "lock"
    /\ UNCHANGED <<prog, working, dzialki, owner, porterVars, mainpc, released>>

SigLock ==
    /\ Alive /\ spc = "lock"
    /\ Take("kon", Sig)
    /\ spc' = "set"
    /\ UNCHANGED <<prog, working, dzialki, porterVars, pending, mainpc, released>>

SigSet ==
    /\ Alive /\ spc = "set"
    /\ working' = 0 /\ spc' = "unlock"
    /\ UNCHANGED <<prog, dzialki, owner, porterVars, pending, mainpc, released>>

SigUnlock ==
    /\ Alive /\ spc = "unlock"
    /\ Give("kon")
    /\ spc' = "gone"
    /\ UNCHANGED <<prog, working, dzialki, porterVars, pending, mainpc, released>>
-----------------------------------------------------------------------------
\* main polls the flag.
MainAsk ==
    /\ mainpc = "ask"
    /\ Take("kon", Main)
    /\ mainpc' = "answer"
    /\ UNCHANGED <<prog, working, dzialki, porterVars, signalVars, released>>

MainAnswer_StillHeld ==                      \* mutation
    /\ mainpc = "answer"
    /\ mainpc' = IF working = 0 THEN "join" ELSE "ask"
    /\ IF working = 0 THEN UNCHANGED owner ELSE Give("kon")
    /\ UNCHANGED <<prog, working, dzialki, porterVars, signalVars, released>>
MainAnswer ==
    /\ mainpc = "answer"
    /\ Give("kon")
    /\ mainpc' = IF working = 0 THEN "join" ELSE "ask"
    /\ UNCHANGED <<prog, working, dzialki, porterVars, signalVars, released>>

\* pthread_join of one thread and free() of its argument, until all are
\* joined; the order of the joins is that of the array, which changes nothing.
Join(w) ==
    /\ mainpc = "join"
    /\ w \notin released /\ wpc[w] = "gone"
    /\ released' = released \cup {w}
    /\ mainpc' = IF Workers \subseteq released' THEN "release" ELSE "join"
    /\ UNCHANGED <<prog, working, dzialki, owner, porterVars, signalVars>>

\* robole.c prints the plots and destroys every mutex, the template frees
\* the argument of the signal thread.
Release ==
    /\ mainpc = "release"
    /\ released' = released \cup (IF prog = "robole" THEN Mutexes ELSE {Sig})
    /\ mainpc' = "return"
    /\ UNCHANGED <<prog, working, dzialki, owner, porterVars, signalVars>>

Return ==
    /\ mainpc = "return"
    /\ mainpc' = "over"
    /\ UNCHANGED <<prog, working, dzialki, owner, porterVars, signalVars, released>>
-----------------------------------------------------------------------------
WorkerStep(w) == Sleep(w) \/ Ask(w) \/ Answer(w) \/ Lock(w) \/ Load(w) \/ Store(w)
SigStep == Sigwait \/ SigLock \/ SigSet \/ SigUnlock
MainStep ==
    \/ MainAsk \/ MainAnswer \/ Release \/ Return
    \/ \E w \in Workers : Create(w) \/ Join(w)
Next == (\E w \in Workers : WorkerStep(w)) \/ SigStep \/ MainStep \/ SendInt

Spec == Init /\ [][Next]_vars

\* Nothing makes main, which looks at the flag without a pause, let others
\* have the mutex of the flag: for whoever waits there no more is assumed than
\* that it takes a mutex that stays free.
FairSpec ==
    /\ Spec
    /\ \A w \in Workers : WF_vars(WorkerStep(w))
    /\ WF_vars(SigStep)
    /\ WF_vars(MainStep)
-----------------------------------------------------------------------------
\* The values the variables can take.
TypeOK ==
    /\ prog \in {"robole", "l4_template"}
    /\ working \in {0, 1}
    /\ dzialki \in [Plots -> 0 .. Window - 1] /\ strewn \in [Plots -> 0 .. Window - 1]
    /\ owner \in [Mutexes -> Workers \cup {Sig, Main, Nobody}]
    /\ wpc \in [Workers -> {"unborn", "sleep", "ask", "answer", "lock", "load", "store", "gone"}]
    /\ plot \in [Workers -> Plots]
    /\ reg \in [Workers -> 0 .. Window - 1]
    /\ spc \in {"wait", "lock", "set", "unlock", "gone"}
    /\ pending \in BOOLEAN
    /\ mainpc \in {"create", "ask", "answer", "join", "release", "return", "over"}
    /\ released \subseteq Mutexes \cup Workers \cup {Sig}

\* What a thread is about to touch.
UsedBy(w) == {w} \cup
    CASE wpc[w] \in {"lock", "load", "store"} -> {plot[w]}
      [] wpc[w] \in {"ask", "answer"} -> {"kon"}
      [] OTHER -> {}

\* What robole.c frees or destroys nobody touches again and nobody holds,
\* the signal thread included, which main does not join: its last unlock
\* comes before the look at the flag that lets main leave its loop.
NothingUsedAfterRelease ==
    prog = "robole" =>
        /\ \A w \in Workers : wpc[w] \notin {"unborn", "gone"} => UsedBy(w) \cap released = {}
        /\ spc \in {"lock", "set", "unlock"} => "kon" \notin released
        /\ \A m \in Mutexes \cap released : owner[m] = Nobody

\* Salt is exact: on a plot nobody is busy with lies what was put there, and
\* main prints, without a mutex, when nobody is busy any more (the last loops
\* of robole.c's main).
SaltExact ==
    /\ TypeOK
    /\ \A p \in Plots : owner[p] = Nobody => dzialki[p] = strewn[p]
    /\ mainpc \in {"release", "return", "over"} => \A p \in Plots : dzialki[p] = strewn[p]

\* The template ends by itself; robole.c ends once the flag is clear (the loops
\* of main and trag_work).  That SIGINT clears it is not said: main may keep
\* the signal thread from the mutex.
EndsWhenTold ==
    /\ (prog = "l4_template") ~> ~Alive
    /\ (prog = "robole" /\ working = 0) ~> ~Alive
=============================================================================
