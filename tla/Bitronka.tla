------------------------------ MODULE Bitronka ------------------------------
(***************************************************************************)
(* src/l3/bitronka.c: n shelves, each with a mutex, and the products 1..n  *)
(* on them in some order.  Worker threads take two shelves in increasing   *)
(* order and put their products in order.  A signal thread prints the      *)
(* shelves every second (SIGALRM), shuffles them (SIGUSR1), for both with  *)
(* every shelf locked, and sets stop (SIGINT).  The main thread polls      *)
(* stop, joins the workers and frees everything; it never joins the signal *)
(* thread.                                                                 *)
(***************************************************************************)
EXTENDS Integers, FiniteSets

CONSTANTS
    n,            \* the number of shelves, and of products
    Workers,      \* the worker threads
    Sig,          \* the signal thread
    MaxShuffles   \* bound on the SIGUSR1 sent

ASSUME nAssumption == n \in Nat \ {0}
ASSUME ThreadsAssumption == Sig \notin Workers
ASSUME ShufflesAssumption == MaxShuffles \in Nat

Polki == 1 .. n
Signals == {"SIGINT", "SIGUSR1", "SIGALRM"}

VARIABLES
    polki,        \* polki[i]: the product on shelf i
    mx_polki,     \* the thread that holds the mutex of shelf i, {} or {t}
    mx_stop,      \* the same for the mutex of stop
    stop,         \* set to 1 on SIGINT
    wpc,          \* where a worker is
    a, b,         \* the shelves a worker has picked, a[w] < b[w]
    vala, valb,   \* what it found on them (locals out of use are 1)
    sigpc,        \* where the signal thread is
    sig,          \* the signal it is handling
    i,            \* the index of its loops
    pending,      \* the blocked signals that wait for sigwait()
    alarm,        \* the one-second timer is running
    mainpc,       \* where the main thread is
    shuffles      \* SIGUSR1 sent so far

workerVars == <<wpc, a, b, vala, valb>>
signalVars == <<sigpc, sig, i, pending, alarm, shuffles>>
locks == <<mx_polki, mx_stop>>
vars == <<polki, mx_polki, mx_stop, stop, wpc, a, b, vala, valb, sigpc, sig, i,
          pending, alarm, mainpc, shuffles>>
-----------------------------------------------------------------------------
Injective(f) == \A x, y \in Polki : f[x] = f[y] => x = y

\* main() after its own shuffle of the products and pthread_sigmask().
Init ==
    /\ polki \in [Polki -> Polki] /\ Injective(polki)
    /\ mx_polki = [s \in Polki |-> {}]
    /\ mx_stop = {}
    /\ stop = 0
    /\ wpc = [w \in Workers |-> "unborn"]
    /\ a = [w \in Workers |-> 1] /\ b = [w \in Workers |-> 1]
    /\ vala = [w \in Workers |-> 1] /\ valb = [w \in Workers |-> 1]
    /\ sigpc = "start" /\ sig = "SIGALRM" /\ i = 1
    /\ pending = {} /\ alarm = FALSE
    /\ mainpc = "create"
    /\ shuffles = 0
-----------------------------------------------------------------------------
\* The worker threads.

GotoW(w, place) == wpc' = [wpc EXCEPT ![w] = place]

\* stop is read under mx_stop; the section is nothing but the read.
SeesStop(w, s) == wpc[w] = "check" /\ mx_stop = {} /\ stop = s

Finish(w) ==
    /\ SeesStop(w, 1)
    /\ GotoW(w, "done")
    /\ UNCHANGED <<polki, locks, stop, a, b, vala, valb, signalVars, mainpc>>

\* Two shelves are drawn; the lower one will be locked first.  The same
\* shelf drawn twice starts the round again.
Ordered_AsDrawn(x, y) == <<x, y>>            \* mutation
Ordered(x, y) == IF x > y THEN <<y, x>> ELSE <<x, y>>

Pick(w, x, y) ==
    /\ SeesStop(w, 0)
    /\ x # y
    /\ a' = [a EXCEPT ![w] = Ordered(x, y)[1]]
    /\ b' = [b EXCEPT ![w] = Ordered(x, y)[2]]
    /\ GotoW(w, "locka")
    /\ UNCHANGED <<polki, locks, stop, vala, valb, signalVars, mainpc>>

LockA(w) ==
    /\ wpc[w] = "locka"
    /\ mx_polki[a[w]] = {}
    /\ mx_polki' = [mx_polki EXCEPT ![a[w]] = {w}]
    /\ GotoW(w, "lockb")
    /\ UNCHANGED <<polki, mx_stop, stop, a, b, vala, valb, signalVars, mainpc>>

LockB(w) ==
    /\ wpc[w] = "lockb"
    /\ mx_polki[b[w]] = {}
    /\ mx_polki' = [mx_polki EXCEPT ![b[w]] = {w}]
    /\ GotoW(w, "compare")
    /\ UNCHANGED <<polki, mx_stop, stop, a, b, vala, valb, signalVars, mainpc>>

Compare(w) ==
    /\ wpc[w] = "compare"
    /\ IF polki[a[w]] > polki[b[w]]
       THEN /\ vala' = [vala EXCEPT ![w] = polki[a[w]]]
            /\ valb' = [valb EXCEPT ![w] = polki[b[w]]]
            /\ GotoW(w, "writea")
       ELSE GotoW(w, "unlocka") /\ UNCHANGED <<vala, valb>>
    /\ UNCHANGED <<polki, locks, stop, a, b, signalVars, mainpc>>

\* The exchange is two stores.
WriteA(w) ==
    /\ wpc[w] = "writea"
    /\ polki' = [polki EXCEPT ![a[w]] = valb[w]]
    /\ GotoW(w, "writeb")
    /\ UNCHANGED <<locks, stop, a, b, vala, valb, signalVars, mainpc>>

WriteB_Rereads(w) ==                         \* mutation
    /\ wpc[w] = "writeb"
    /\ polki' = [polki EXCEPT ![b[w]] = polki[a[w]]]
    /\ GotoW(w, "unlocka")
    /\ UNCHANGED <<locks, stop, a, b, vala, valb, signalVars, mainpc>>
WriteB(w) ==
    /\ wpc[w] = "writeb"
    /\ polki' = [polki EXCEPT ![b[w]] = vala[w]]
    /\ vala' = [vala EXCEPT ![w] = 1] /\ valb' = [valb EXCEPT ![w] = 1]
    /\ GotoW(w, "unlocka")
    /\ UNCHANGED <<locks, stop, a, b, signalVars, mainpc>>

UnlockA(w) ==
    /\ wpc[w] = "unlocka"
    /\ mx_polki' = [mx_polki EXCEPT ![a[w]] = {}]
    /\ GotoW(w, "unlockb")
    /\ UNCHANGED <<polki, mx_stop, stop, a, b, vala, valb, signalVars, mainpc>>

\* The last unlock, the end of the locals and the pause before the next round.
UnlockB(w) ==
    /\ wpc[w] = "unlockb"
    /\ mx_polki' = [mx_polki EXCEPT ![b[w]] = {}]
    /\ a' = [a EXCEPT ![w] = 1] /\ b' = [b EXCEPT ![w] = 1]
    /\ GotoW(w, "check")
    /\ UNCHANGED <<polki, mx_stop, stop, vala, valb, signalVars, mainpc>>
-----------------------------------------------------------------------------
\* The signal thread.

SigStart ==
    /\ sigpc = "start"
    /\ alarm' = TRUE
    /\ sigpc' = "wait"
    /\ UNCHANGED <<polki, locks, stop, workerVars, sig, i, pending, mainpc, shuffles>>

\* sigwait() takes the pending signal with the lowest number.
Lowest(s) ==
    \/ s = "SIGINT"
    \/ s = "SIGUSR1" /\ "SIGINT" \notin pending
    \/ s = "SIGALRM" /\ pending = {"SIGALRM"}

Sigwait(s) ==
    /\ sigpc = "wait"
    /\ s \in pending /\ Lowest(s)
    /\ pending' = pending \ {s}
    /\ sig' = s
    /\ i' = 1
    /\ sigpc' = IF s = "SIGINT" THEN "lockstop" ELSE "lock"
    /\ UNCHANGED <<polki, locks, stop, workerVars, alarm, mainpc, shuffles>>

\* One turn of a loop over the shelves; after the last one on to next.
Turn(loop, next) ==
    IF i < n THEN i' = i + 1 /\ sigpc' = loop ELSE i' = 1 /\ sigpc' = next

\* All shelves are locked in increasing order.
SigLock_Skips(u) ==                          \* mutation
    /\ sigpc = "lock"
    /\ IF mx_polki[i] = {} THEN mx_polki' = [mx_polki EXCEPT ![i] = {u}]
                           ELSE UNCHANGED mx_polki
    /\ Turn("lock", IF sig = "SIGUSR1" THEN "shuffle" ELSE "print")
    /\ UNCHANGED <<polki, mx_stop, stop, workerVars, sig, pending, alarm, mainpc, shuffles>>
SigLock(u) ==
    /\ sigpc = "lock"
    /\ mx_polki[i] = {}
    /\ mx_polki' = [mx_polki EXCEPT ![i] = {u}]
    /\ Turn("lock", IF sig = "SIGUSR1" THEN "shuffle" ELSE "print")
    /\ UNCHANGED <<polki, mx_stop, stop, workerVars, sig, pending, alarm, mainpc, shuffles>>

\* print_tab reads every shelf.
SigPrint ==
    /\ sigpc = "print"
    /\ sigpc' = "unlock"
    /\ UNCHANGED <<polki, locks, stop, workerVars, sig, i, pending, alarm, mainpc, shuffles>>

\* One turn of shuffle(): shelf i changes places with a shelf j <= i.
SigShuffle(j) ==
    /\ sigpc = "shuffle"
    /\ j <= i
    /\ polki' = [polki EXCEPT ![i] = polki[j], ![j] = polki[i]]
    /\ Turn("shuffle", "unlock")
    /\ UNCHANGED <<locks, stop, workerVars, sig, pending, alarm, mainpc, shuffles>>

\* All shelves are unlocked; after a print the timer is started again.
SigUnlock ==
    /\ sigpc = "unlock"
    /\ mx_polki' = [mx_polki EXCEPT ![i] = {}]
    /\ Turn("unlock", "wait")
    /\ alarm' = (alarm \/ (sig = "SIGALRM" /\ i = n))
    /\ UNCHANGED <<polki, mx_stop, stop, workerVars, sig, pending, mainpc, shuffles>>

SigLockStop_Skipped ==                       \* mutation
    /\ sigpc = "lockstop"
    /\ sigpc' = "setstop"
    /\ UNCHANGED <<polki, locks, stop, workerVars, sig, i, pending, alarm, mainpc, shuffles>>
SigLockStop ==
    /\ sigpc = "lockstop"
    /\ mx_stop = {}
    /\ mx_stop' = {Sig}
    /\ sigpc' = "setstop"
    /\ UNCHANGED <<polki, mx_polki, stop, workerVars, sig, i, pending, alarm, mainpc, shuffles>>

SigSetStop ==
    /\ sigpc = "setstop"
    /\ stop' = 1
    /\ sigpc' = "unlockstop"
    /\ UNCHANGED <<polki, locks, workerVars, sig, i, pending, alarm, mainpc, shuffles>>

\* The unlock through args->mxkon, and pthread_exit().
SigUnlockStop_Forgotten ==                   \* mutation
    /\ sigpc = "unlockstop"
    /\ sigpc' = "gone"
    /\ UNCHANGED <<polki, locks, stop, workerVars, sig, i, pending, alarm, mainpc, shuffles>>
SigUnlockStop ==
    /\ sigpc = "unlockstop"
    /\ mx_stop' = {}
    /\ sigpc' = "gone"
    /\ UNCHANGED <<polki, mx_polki, stop, workerVars, sig, i, pending, alarm, mainpc, shuffles>>
-----------------------------------------------------------------------------
\* The main thread.

\* It creates the workers one by one, with the signal thread running.
Create(w) ==
    /\ mainpc = "create"
    /\ wpc[w] = "unborn"
    /\ GotoW(w, "check")
    /\ mainpc' = IF \E v \in Workers \ {w} : wpc[v] = "unborn" THEN "create" ELSE "poll"
    /\ UNCHANGED <<polki, locks, stop, a, b, vala, valb, signalVars>>

\* One look at stop, under its mutex; stop = 0 only sleeps.
Poll ==
    /\ mainpc = "poll"
    /\ mx_stop = {}
    /\ stop = 1
    /\ mainpc' = "join"
    /\ UNCHANGED <<polki, locks, stop, workerVars, signalVars>>

JoinWorkers ==
    /\ mainpc = "join"
    /\ \A w \in Workers : wpc[w] = "done"
    /\ mainpc' = "print"
    /\ UNCHANGED <<polki, locks, stop, workerVars, signalVars>>

\* The last print reads the shelves without their mutexes.
MainPrint ==
    /\ mainpc = "print"
    /\ mainpc' = "free"
    /\ UNCHANGED <<polki, locks, stop, workerVars, signalVars>>

\* free() of the threads' arguments, destruction of every mutex, return.
MainFree ==
    /\ mainpc = "free"
    /\ mainpc' = "bye"
    /\ UNCHANGED <<polki, locks, stop, workerVars, signalVars>>
-----------------------------------------------------------------------------
\* The kernel's timer and the user's kill commands.

TimerExpires ==
    /\ mainpc # "bye"
    /\ alarm
    /\ alarm' = FALSE
    /\ pending' = pending \cup {"SIGALRM"}
    /\ UNCHANGED <<polki, locks, stop, workerVars, sigpc, sig, i, mainpc, shuffles>>

SendUsr1 ==
    /\ mainpc # "bye"
    /\ shuffles < MaxShuffles
    /\ shuffles' = shuffles + 1
    /\ pending' = pending \cup {"SIGUSR1"}
    /\ UNCHANGED <<polki, locks, stop, workerVars, sigpc, sig, i, alarm, mainpc>>

SendInt ==
    /\ mainpc # "bye"
    /\ "SIGINT" \notin pending
    /\ pending' = pending \cup {"SIGINT"}
    /\ UNCHANGED <<polki, locks, stop, workerVars, sigpc, sig, i, alarm, mainpc, shuffles>>
-----------------------------------------------------------------------------
WorkerStep(w) ==
    \/ Finish(w) \/ LockA(w) \/ LockB(w) \/ Compare(w)
    \/ WriteA(w) \/ WriteB(w) \/ UnlockA(w) \/ UnlockB(w)
    \/ \E x, y \in Polki : Pick(w, x, y)

SigStep ==
    \/ SigStart \/ SigLock(Sig) \/ SigPrint \/ SigUnlock \/ SigLockStop \/ SigSetStop \/ SigUnlockStop
    \/ \E s \in Signals : Sigwait(s)
    \/ \E j \in Polki : SigShuffle(j)

MainStep ==
    \/ Poll \/ JoinWorkers \/ MainPrint \/ MainFree
    \/ \E w \in Workers : Create(w)

Next ==
    \/ \E w \in Workers : WorkerStep(w)
    \/ SigStep
    \/ MainStep
    \/ TimerExpires \/ SendUsr1 \/ SendInt

Spec == Init /\ [][Next]_vars

\* Every thread that can go on is scheduled, and one that waits for a mutex
\* gets it in the end, as every worker sleeps between two rounds.
FairSpec ==
    /\ Spec
    /\ \A w \in Workers : SF_vars(WorkerStep(w))
    /\ SF_vars(SigStep)
    /\ WF_vars(MainStep)
-----------------------------------------------------------------------------
\* The values the variables can take.
TypeOK ==
    /\ polki \in [Polki -> Polki]
    /\ mx_polki \in [Polki -> {{}} \cup {{t} : t \in Workers \cup {Sig}}]
    /\ mx_stop \in {{}, {Sig}}
    /\ stop \in {0, 1}
    /\ wpc \in [Workers -> {"unborn", "check", "locka", "lockb", "compare",
                            "writea", "writeb", "unlocka", "unlockb", "done"}]
    /\ a \in [Workers -> Polki] /\ b \in [Workers -> Polki]
    /\ vala \in [Workers -> Polki] /\ valb \in [Workers -> Polki]
    /\ sigpc \in {"start", "wait", "lock", "print", "shuffle", "unlock", "lockstop",
                  "setstop", "unlockstop", "gone"}
    /\ sig \in Signals
    /\ i \in Polki
    /\ pending \subseteq Signals
    /\ alarm \in BOOLEAN
    /\ mainpc \in {"create", "poll", "join", "print", "free", "bye"}
    /\ shuffles \in 0 .. MaxShuffles

\* The shelves as the two stores of an exchange under way will leave them.
InExchange(s) == {w \in Workers : wpc[w] = "writeb" /\ b[w] = s}
Goods ==
    [s \in Polki |-> IF InExchange(s) = {} THEN polki[s]
                     ELSE vala[CHOOSE w \in InExchange(s) : TRUE]]

\* Whatever is printed, every second or at the end, is a full inventory,
\* and shuffle() never meets a worker: the signal thread then holds every
\* shelf and no exchange is half done (signal_routine, main's last print).  The
\* types are part of it.
WholeInventory ==
    /\ TypeOK
    /\ sigpc \in {"print", "shuffle"} \/ mainpc = "print" =>
          /\ \A w \in Workers : wpc[w] \notin {"compare", "writea", "writeb"}
          /\ Injective(polki)

\* Nobody uses what main frees: once it has joined the workers, every mutex
\* is free and the signal thread, which is never joined, has ended and will
\* not unlock mxkon through its freed argument (free(sigthread) in main).
NothingUsedAfterFree ==
    mainpc \in {"free", "bye"} =>
        /\ sigpc = "gone"
        /\ mx_stop = {}
        /\ \A s \in Polki : mx_polki[s] = {}

\* The threads never wait for each other in a circle: as long as somebody
\* waits for a shelf, some thread is running inside its section and can go
\* on (the increasing order of locking in worker_work and signal_routine).
CanGoOn(w) ==
    wpc[w] \in {"compare", "writea", "writeb", "unlocka", "unlockb"}
    \/ (wpc[w] = "lockb" /\ mx_polki[b[w]] = {})
NoCircle ==
    (\E s \in Polki : mx_polki[s] # {}) =>
        \/ \E w \in Workers : CanGoOn(w)
        \/ sigpc \in {"print", "shuffle", "unlock"}
        \/ sigpc = "lock" /\ mx_polki[i] = {}

\* The program implements Shelves: an exchange happens at its first store.
Promise == INSTANCE Shelves WITH
    Place <- Polki,
    goods <- Goods,
    mode <- IF sigpc = "shuffle" THEN "shuffle" ELSE "work"
PromiseKept == Promise!Spec

\* SIGINT ends the program: the signal thread gets to it past its own work,
\* every worker sees stop, and main says goodbye.
IntEndsIt == ("SIGINT" \in pending /\ sigpc # "gone") ~> (mainpc = "bye")
=============================================================================
