------------------------------ MODULE PipeRing ------------------------------
(***************************************************************************)
(* src/l5z1/main.c: a parent and two children pass one number round a ring *)
(* of three pipes, each adding a random amount.  Whoever receives 0 closes *)
(* its pipes and exits; the others learn it from the end of their input.   *)
(* SIGPIPE is ignored and so is every failure of write().                  *)
(*                                                                         *)
(* Process p reads pipe p - 1 and writes pipe p (modulo 3).  The end of    *)
(* input depends on who still holds a write end, so the inherited          *)
(* descriptors are part of the state.  Of a number only "is it 0" is kept. *)
(***************************************************************************)
EXTENDS Integers, FiniteSets, Sequences

Procs == 0 .. 2        \* the parent is 0
Children == 1 .. 2
Pipes == 0 .. 2

VARIABLES
    pc,         \* where a process is, or how it ended
    closed,     \* how many ends a process has closed of those it must
    x,          \* the number a process is about to send: "0" or "other"
    readers,    \* readers[i]: the processes with pipe i's read end open
    writers,    \* writers[i]: the processes with pipe i's write end open
    pipe        \* pipe[i]: the numbers in pipe i

vars == <<pc, closed, x, readers, writers, pipe>>
descriptors == <<readers, writers>>

Fates == {"absent", "found", "eof"}
Ended(p) == pc[p] \in Fates
Alive(p) == ~Ended(p) /\ pc[p] # "unborn"
Goto(p, place) == pc' = [pc EXCEPT ![p] = place]
Predecessor(p) == (p + 2) % 3
InPipe(p) == Predecessor(p)
OutPipe(p) == p
-----------------------------------------------------------------------------
Init ==
    /\ pc = [p \in Procs |-> IF p = 0 THEN "fork" ELSE "unborn"]
    /\ closed = [p \in Procs |-> 0]
    /\ x = [p \in Procs |-> "other"]
    /\ readers = [i \in Pipes |-> {0}]
    /\ writers = [i \in Pipes |-> {0}]
    /\ pipe = [i \in Pipes |-> <<>>]

\* The parent forks child 1, then child 2; a child inherits every open end.
NextToFork(c) == pc[0] = "fork" /\ pc[c] = "unborn" /\ (c = 2 => pc[1] # "unborn")

Fork(c) ==
    /\ NextToFork(c)
    /\ pc' = [pc EXCEPT ![c] = "setup", ![0] = IF c = 2 THEN "setup" ELSE "fork"]
    /\ readers' = [i \in Pipes |-> IF 0 \in readers[i] THEN readers[i] \cup {c} ELSE readers[i]]
    /\ writers' = [i \in Pipes |-> IF 0 \in writers[i] THEN writers[i] \cup {c} ELSE writers[i]]
    /\ UNCHANGED <<closed, x, pipe>>

\* fork() returns -1, which main does not look at.
ForkFails(c) ==
    /\ NextToFork(c)
    /\ pc' = [pc EXCEPT ![c] = "absent", ![0] = IF c = 2 THEN "setup" ELSE "fork"]
    /\ UNCHANGED <<closed, x, descriptors, pipe>>

\* The ends each process closes before its loop, in order; "r" is a read end
\* and "w" a write end.
Closing_OneForgotten(p) ==                             \* mutation
    CASE p = 0 -> << <<"r", 0>>, <<"w", 1>>, <<"r", 1>> >>
      [] p = 1 -> << <<"w", 0>>, <<"r", 1>>, <<"r", 2>> >>
      [] p = 2 -> << <<"w", 0>>, <<"r", 0>>, <<"r", 2>> >>
Closing_InputToo(p) ==                                 \* mutation
    CASE p = 0 -> << <<"r", 0>>, <<"w", 1>>, <<"w", 2>>, <<"w", 0>> >>
      [] p = 1 -> << <<"w", 0>>, <<"r", 1>>, <<"r", 2>>, <<"w", 2>> >>
      [] p = 2 -> << <<"w", 0>>, <<"r", 0>>, <<"w", 1>>, <<"r", 2>> >>
Closing(p) ==
    CASE p = 0 -> << <<"r", 0>>, <<"w", 1>>, <<"w", 2>>, <<"r", 1>> >>
      [] p = 1 -> << <<"w", 0>>, <<"r", 1>>, <<"r", 2>>, <<"w", 2>> >>
      [] p = 2 -> << <<"w", 0>>, <<"r", 0>>, <<"w", 1>>, <<"r", 2>> >>

\* The parent has the first number to send, 1.
FirstPlace(p) == IF p = 0 THEN "send" ELSE "read"

\* One close(); after the last one the process turns to its loop.
Close(p) ==
    /\ pc[p] = "setup"
    /\ LET end == Closing(p)[closed[p] + 1] IN
          /\ readers' = IF end[1] = "r" THEN [readers EXCEPT ![end[2]] = @ \ {p}] ELSE readers
          /\ writers' = IF end[1] = "w" THEN [writers EXCEPT ![end[2]] = @ \ {p}] ELSE writers
    /\ closed' = [closed EXCEPT ![p] = @ + 1]
    /\ Goto(p, IF closed'[p] = Len(Closing(p)) THEN FirstPlace(p) ELSE "setup")
    /\ UNCHANGED <<x, pipe>>

\* write(): without a reader it fails, and the process goes on to read.
Send(p) ==
    /\ pc[p] = "send"
    /\ pipe' = IF readers[OutPipe(p)] = {} THEN pipe
               ELSE [pipe EXCEPT ![OutPipe(p)] = Append(@, x[p])]
    /\ x' = [x EXCEPT ![p] = "other"]
    /\ Goto(p, "read")
    /\ UNCHANGED <<closed, descriptors>>

Exit(p, fate) ==
    /\ Goto(p, fate)
    /\ readers' = [i \in Pipes |-> readers[i] \ {p}]
    /\ writers' = [i \in Pipes |-> writers[i] \ {p}]

\* A number other than 0 is changed at random and sent on.
Receive(p) ==
    /\ pc[p] = "read"
    /\ pipe[InPipe(p)] # <<>> /\ Head(pipe[InPipe(p)]) # "0"
    /\ pipe' = [pipe EXCEPT ![InPipe(p)] = Tail(@)]
    /\ \E value \in {"0", "other"} : x' = [x EXCEPT ![p] = value]
    /\ Goto(p, "send")
    /\ UNCHANGED <<closed, descriptors>>

ReceiveZero(p) ==
    /\ pc[p] = "read"
    /\ pipe[InPipe(p)] # <<>> /\ Head(pipe[InPipe(p)]) = "0"
    /\ pipe' = [pipe EXCEPT ![InPipe(p)] = Tail(@)]
    /\ Exit(p, "found")
    /\ UNCHANGED <<closed, x>>

\* read() returned 0: nobody can write to the pipe any more.
EndOfInput(p) ==
    /\ pc[p] = "read"
    /\ pipe[InPipe(p)] = <<>> /\ writers[InPipe(p)] = {}
    /\ Exit(p, "eof")
    /\ UNCHANGED <<closed, x, pipe>>
-----------------------------------------------------------------------------
Step(p) == Close(p) \/ Send(p) \/ Receive(p) \/ ReceiveZero(p) \/ EndOfInput(p)

Forking == \E c \in Children : Fork(c)

Next ==
    \/ Forking
    \/ \E c \in Children : ForkFails(c)
    \/ \E p \in Procs : Step(p)

-----------------------------------------------------------------------------
\* The values the variables can take; a pipe never holds two numbers.
TypeOK ==
    /\ pc \in [Procs -> {"unborn", "fork", "setup", "send", "read"} \cup Fates]
    /\ closed \in [Procs -> 0 .. 4]
    /\ x \in [Procs -> {"0", "other"}]
    /\ readers \in [Pipes -> SUBSET Procs]
    /\ writers \in [Pipes -> SUBSET Procs]
    /\ pipe \in [Pipes -> {<<>>, <<"0">>, <<"other">>}]

\* There is one number in the ring: it is in one pipe or with the process
\* about to send it, and once somebody has found 0 there is none (the three
\* read-change-write loops).  The types are part of it.
Holders == {p \in Procs : pc[p] = "send"}
Full == {i \in Pipes : pipe[i] # <<>>}
OneNumber ==
    /\ TypeOK
    /\ Cardinality(Holders) + Cardinality(Full) <= 1
    /\ (\E p \in Procs : pc[p] = "found") => Holders \cup Full = {}

\* Nobody leaves early: a process sees the end of its input only when its
\* predecessor has ended, and if every process was forked, only after
\* somebody has found 0 (the close() calls behind each fork()).
NoEarlyEnd ==
    \A p \in Procs : pc[p] = "eof" =>
        /\ Ended(Predecessor(p))
        /\ \E q \in Procs : pc[q] \in {"found", "absent"}

\* An end is passed on all the way round: once one process has ended, or
\* was never born, all of them end (no inherited write end keeps anybody
\* waiting for input).
EndGoesRound == (\E p \in Procs : Ended(p)) ~> (\A p \in Procs : Ended(p))
=============================================================================
