----------------------------- MODULE ThreadPipes -----------------------------
(***************************************************************************)
(* src/l5/main.c: main makes one pipe for all answers and one pipe to each *)
(* of n threads, closes the write ends, then writes to the threads and     *)
(* waits for answers until SIGINT or the end of its input.  All of it is   *)
(* one process with one table of descriptors: a number that was closed is  *)
(* given out again, to whoever asks next.                                  *)
(*                                                                         *)
(* The threads of kind 1 and 2 sleep once and end; main's joining them is  *)
(* part of leaving its loop.  Reads and writes of working are single       *)
(* steps, with the mutex or (main) without.  SIGPIPE keeps its default.    *)
(* pipe() and pthread_create() are taken to succeed.                       *)
(***************************************************************************)
EXTENDS Integers, FiniteSets, FiniteSetsExt

CONSTANT n      \* threads of each kind, at least one

Threads == 0 .. n - 1
Shared == n                 \* pipe_from_thread3; pipe i leads to thread i
Pipes == 0 .. n
Fds == 3 .. 2 * n + 5       \* the numbers the program can be given
ReadEnd(p) == [pipe |-> p, end |-> "read"]
WriteEnd(p) == [pipe |-> p, end |-> "write"]
Free == [pipe |-> -1, end |-> "none"]
Ends == {ReadEnd(p) : p \in Pipes} \cup {WriteEnd(p) : p \in Pipes} \cup {Free}

VARIABLES
    fds,        \* what each descriptor number stands for
    number,     \* the numbers the program keeps for the ends of each pipe
    waiting,    \* messages in each pipe
    working,    \* the flag SIGINT clears
    sig,        \* SIGINT: "none", "pending", "taken"
    pc,         \* where a thread of kind 3 is
    mainpc, i   \* where main is, and its loop variable

vars == <<fds, number, waiting, working, sig, pc, mainpc, i>>
signal == <<working, sig>>

Open(e) == \E f \in Fds : fds[f] = e
To(place, next) == mainpc' = place /\ i' = next
Goto(t, place) == pc' = [pc EXCEPT ![t] = place]

\* pipe(2) and close(2) on the table of descriptors.
FirstFree == Min({f \in Fds : fds[f] = Free})
SecondFree == Min({f \in Fds : fds[f] = Free} \ {FirstFree})
WithPipe(p) == [fds EXCEPT ![FirstFree] = ReadEnd(p), ![SecondFree] = WriteEnd(p)]
Closed(f) == [fds EXCEPT ![f] = Free]
-----------------------------------------------------------------------------
\* main has its pipe for the answers, 3 and 4, and its signal thread.
Init ==
    /\ fds = [f \in Fds |-> CASE f = 3 -> ReadEnd(Shared)
                              [] f = 4 -> WriteEnd(Shared)
                              [] OTHER -> Free]
    /\ number = [p \in Pipes |-> IF p = Shared THEN [read |-> 3, write |-> 4]
                                               ELSE [read |-> 0, write |-> 0]]
    /\ waiting = [p \in Pipes |-> 0]
    /\ working = TRUE
    /\ sig = "none"
    /\ pc = [t \in Threads |-> "unborn"]
    /\ mainpc = "pipe" /\ i = 0

MakePipe ==
    /\ mainpc = "pipe"
    /\ fds' = WithPipe(i)
    /\ number' = [number EXCEPT ![i] = [read |-> FirstFree, write |-> SecondFree]]
    /\ To("closewrite", i)
    /\ UNCHANGED <<waiting, signal, pc>>

\* "main will not write through this end"; it will.
CloseWrite_Read ==                             \* mutation
    /\ mainpc = "closewrite"
    /\ fds' = Closed(number[i].read)
    /\ To("thread", i)
    /\ UNCHANGED <<number, waiting, signal, pc>>
CloseWrite ==
    /\ mainpc = "closewrite"
    /\ fds' = Closed(number[i].write)
    /\ To("thread", i)
    /\ UNCHANGED <<number, waiting, signal, pc>>

CreateThread ==
    /\ mainpc = "thread"
    /\ Goto(i, "check")
    /\ IF i = n - 1 THEN To("closeshared", 0) ELSE To("pipe", i + 1)
    /\ UNCHANGED <<fds, number, waiting, signal>>

\* The write end every thread answers through is main's own: it is the
\* threads' last one.
CloseShared_Forgotten ==                       \* mutation
    /\ mainpc = "closeshared"
    /\ To("loop", 0)
    /\ UNCHANGED <<fds, number, waiting, signal, pc>>
CloseShared ==
    /\ mainpc = "closeshared"
    /\ fds' = Closed(number[Shared].write)
    /\ To("loop", 0)
    /\ UNCHANGED <<number, waiting, signal, pc>>

Loop ==
    /\ mainpc = "loop"
    /\ To(IF working THEN "write" ELSE "join", 0)
    /\ UNCHANGED <<fds, number, waiting, signal, pc>>

\* main writes to thread i if it is still working; a failed write is only
\* reported, a write nobody can read kills the process.
Write ==
    /\ mainpc = "write"
    /\ LET e == fds[number[i].write] IN
       IF working /\ e.end = "write"
       THEN IF Open(ReadEnd(e.pipe))
            THEN /\ waiting' = [waiting EXCEPT ![e.pipe] = @ + 1]
                 /\ IF i = n - 1 THEN To("select", 0) ELSE To("write", i + 1)
            ELSE To("killed", 0) /\ UNCHANGED waiting
       ELSE /\ IF i = n - 1 THEN To("select", 0) ELSE To("write", i + 1)
            /\ UNCHANGED waiting
    /\ UNCHANGED <<fds, number, signal, pc>>

\* select() for five seconds, then read() or another round.
Select ==
    /\ mainpc = "select"
    /\ IF waiting[Shared] > 0
       THEN waiting' = [waiting EXCEPT ![Shared] = 0] /\ To("loop", 0)
       ELSE To(IF Open(WriteEnd(Shared)) THEN "loop" ELSE "join", 0) /\ UNCHANGED waiting
    /\ UNCHANGED <<fds, number, signal, pc>>

\* main joins thread i and closes, by its number, a write end it closed
\* long ago.
Join ==
    /\ mainpc = "join"
    /\ pc[i] = "gone"
    /\ fds' = Closed(number[i].write)
    /\ IF i = n - 1 THEN To("leave", 0) ELSE To("join", i + 1)
    /\ UNCHANGED <<number, waiting, signal, pc>>

Leave ==
    /\ mainpc = "leave"
    /\ fds' = Closed(number[Shared].read)
    /\ To("exited", 0)
    /\ UNCHANGED <<number, waiting, signal, pc>>
-----------------------------------------------------------------------------
\* Thread t looks at working.
Check(t) ==
    /\ pc[t] = "check"
    /\ Goto(t, IF working THEN "select" ELSE "close")
    /\ UNCHANGED <<fds, number, waiting, signal, mainpc, i>>

\* select() for one second: an error ends the thread, silence begins again.
SelectInput(t) ==
    LET e == fds[number[t].read] IN
    /\ pc[t] = "select"
    /\ Goto(t, CASE e = Free -> "close"
                 [] e.end = "read" /\ (waiting[e.pipe] > 0 \/ ~Open(WriteEnd(e.pipe))) -> "read"
                 [] OTHER -> "check")
    /\ UNCHANGED <<fds, number, waiting, signal, mainpc, i>>

\* read(): the end of the input or an error ends the thread; a message is
\* answered, if the number for the answers still stands for its write end.
Read(t) ==
    LET e == fds[number[t].read] a == fds[number[Shared].write] IN
    /\ pc[t] = "read"
    /\ IF e = Free \/ waiting[e.pipe] = 0
       THEN Goto(t, "close") /\ UNCHANGED waiting
       ELSE /\ waiting' = [waiting EXCEPT ![e.pipe] = 0,
                                          ![Shared] = IF a = WriteEnd(Shared) THEN @ + 1 ELSE @]
            /\ Goto(t, IF a = WriteEnd(Shared) THEN "check" ELSE "close")
    /\ UNCHANGED <<fds, number, signal, mainpc, i>>

Close(t) ==
    /\ pc[t] = "close"
    /\ fds' = Closed(number[t].read)
    /\ Goto(t, "gone")
    /\ UNCHANGED <<number, waiting, signal, mainpc, i>>

\* Somebody presses Ctrl-C, and the signal thread clears working.
SendInt ==
    /\ sig = "none" /\ mainpc # "exited"
    /\ sig' = "pending"
    /\ UNCHANGED <<fds, number, waiting, working, pc, mainpc, i>>
Sigwait ==
    /\ sig = "pending" /\ mainpc # "exited"
    /\ sig' = "taken" /\ working' = FALSE
    /\ UNCHANGED <<fds, number, waiting, pc, mainpc, i>>

ThreadStep(t) ==
    /\ mainpc \notin {"exited", "killed"}
    /\ Check(t) \/ SelectInput(t) \/ Read(t) \/ Close(t)
MainStep ==
    \/ MakePipe \/ CloseWrite \/ CreateThread \/ CloseShared \/ Loop \/ Write \/ Select
    \/ Join \/ Leave

Next == (\E t \in Threads : ThreadStep(t)) \/ MainStep \/ SendInt \/ Sigwait
Spec == Init /\ [][Next]_vars

\* The scheduler runs every thread that can run; nobody has to press Ctrl-C.
FairSpec == Spec /\ WF_vars(MainStep) /\ \A t \in Threads : WF_vars(ThreadStep(t))
-----------------------------------------------------------------------------
\* The values the variables can take; at most n + 3 descriptors are open at
\* a time, every number of a closed one being used again.
TypeOK ==
    /\ fds \in [Fds -> Ends]
    /\ Cardinality({f \in Fds : fds[f] # Free}) <= n + 3
    /\ number \in [Pipes -> [read : Fds \cup {0}, write : Fds \cup {0}]]
    /\ waiting \in [Pipes -> Nat]
    /\ working \in BOOLEAN /\ sig \in {"none", "pending", "taken"}
    /\ pc \in [Threads -> {"unborn", "check", "select", "read", "close", "gone"}]
    /\ mainpc \in {"pipe", "closewrite", "thread", "closeshared", "loop", "write",
                   "select", "join", "leave", "exited", "killed"}
    /\ i \in Threads

\* Although numbers are closed twice and given out again while threads run,
\* nobody meets a stranger's pipe: the number a thread reads from and closes
\* stands for its own pipe or, once main has closed it, for nothing; and no
\* end is lost, only the pipe for the answers is open in the end.  The types
\* are part of it.
OwnPipe ==
    /\ TypeOK
    /\ \A t \in Threads : pc[t] \notin {"unborn", "gone"} =>
          fds[number[t].read] \in {ReadEnd(t), Free}
    /\ mainpc = "leave" => {f \in Fds : fds[f] # Free} = {number[Shared].read}

\* The program ends, Ctrl-C or not: each thread's input has no writer and
\* so is at its end, as is main's (the close() calls in main).
ProgramEnds == <>(mainpc = "exited")

\* What the comment on main's write says: it uses the write end of the
\* thread's own pipe.
UsesIndividualPipe ==
    mainpc = "write" => fds[number[i].write] = WriteEnd(i)
=============================================================================
