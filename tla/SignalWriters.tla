--------------------------- MODULE SignalWriters ---------------------------
(***************************************************************************)
(* src/lab2_z1.c and src/lab2_1_2.c: a parent sends its process group      *)
(* SIGUSR1 a number of times and then waits for its children, which write  *)
(* one block to their files for each signal sigwait() gives them.          *)
(*                                                                         *)
(* In lab2_z1.c a child that finds, before it waits again, that its second *)
(* of life is over makes up for the blocks it has missed and exits; SIGINT *)
(* has the same effect at once.  In lab2_1_2.c an alarm or SIGINT ends it  *)
(* as it is.  The first ignores SIGUSR1 before it forks, the second after. *)
(***************************************************************************)
EXTENDS Integers, FiniteSets, Signals

CONSTANTS
    Children,
    Parent,
    Rounds,       \* the SIGUSR1 the parent sends
    s             \* the blocks a child of lab2_z1.c is to write

Procs == Children \cup {Parent}
Sigs == {"SIGUSR1", "SIGINT", "SIGALRM"}

VARIABLES
    prog,         \* "lab2_z1" or "lab2_1_2"
    sig,          \* the signals of every process
    cpc,          \* where a child is
    fate,         \* how it ended: "none", "done", "failed", "struck"
    aged,         \* children whose second of life, or alarm, is over
    blocks,       \* the blocks a child has written
    unmade,       \* those it failed to write when it made up for its blocks
    mainpc,       \* where the parent is
    sent          \* SIGUSR1 sent so far

vars == <<prog, sig, cpc, fate, aged, blocks, unmade, mainpc, sent>>

Runs(c) == cpc[c] \notin {"unborn", "gone"}
Open == mainpc \notin {"dead", "over"}
Goto(c, place) == cpc' = [cpc EXCEPT ![c] = place]
Ends(c, how) == Goto(c, "gone") /\ fate' = [fate EXCEPT ![c] = how]
SentToAll(signal) ==
    [p \in Procs |-> IF (p = Parent /\ Open) \/ (p # Parent /\ Runs(p))
                     THEN Sent(sig[p], signal) ELSE sig[p]]
-----------------------------------------------------------------------------
Init ==
    /\ prog \in {"lab2_z1", "lab2_1_2"}
    /\ sig = [p \in Procs |-> NewProcess(Sigs)]
    /\ cpc = [c \in Children |-> "unborn"]
    /\ fate = [c \in Children |-> "none"]
    /\ aged = {}
    /\ blocks = [c \in Children |-> 0]
    /\ unmade = [c \in Children |-> 0]
    /\ mainpc = IF prog = "lab2_z1" THEN "ignore" ELSE "fork"
    /\ sent = 0

\* set_sigact(SIGUSR1, SIG_IGN): the children of lab2_z1.c inherit it.
Ignore ==
    /\ mainpc = "ignore"
    /\ sig' = [sig EXCEPT ![Parent] = Disposed(@, "SIGUSR1", "ignore")]
    /\ mainpc' = IF prog = "lab2_z1" THEN "fork" ELSE "send"
    /\ UNCHANGED <<prog, cpc, fate, aged, blocks, unmade, sent>>

\* One fork per argument; one that fails leaves a child fewer.
Fork(c) ==
    /\ mainpc = "fork" /\ cpc[c] = "unborn"
    /\ Deliverable(sig[Parent]) = {}
    /\ sig' = [sig EXCEPT ![c] = Forked(sig[Parent])]
    /\ Goto(c, IF prog = "lab2_z1" THEN "open" ELSE "block")
    /\ UNCHANGED <<prog, fate, aged, blocks, unmade, mainpc, sent>>

AllForked ==
    /\ mainpc = "fork"
    /\ mainpc' = IF prog = "lab2_z1" THEN "send" ELSE "ignore"
    /\ UNCHANGED <<prog, sig, cpc, fate, aged, blocks, unmade, sent>>

Send ==
    /\ mainpc = "send" /\ sent < Rounds
    /\ sig' = SentToAll("SIGUSR1")
    /\ sent' = sent + 1
    /\ UNCHANGED <<prog, cpc, fate, aged, blocks, unmade, mainpc>>

\* while (waitpid(-1, NULL, 0) > 0);
WaitForAll ==
    /\ mainpc = "send" /\ sent = Rounds
    /\ \A c \in Children : ~Runs(c)
    /\ mainpc' = "over"
    /\ UNCHANGED <<prog, sig, cpc, fate, aged, blocks, unmade, sent>>
-----------------------------------------------------------------------------
\* A child opens its file and blocks its signals, in the order of the program.
OpenFile(c) ==
    /\ cpc[c] = "open"
    /\ Goto(c, IF prog = "lab2_z1" THEN "block" ELSE "wait")
    /\ UNCHANGED <<prog, sig, fate, aged, blocks, unmade, mainpc, sent>>

OpenFails(c) ==
    /\ cpc[c] = "open"
    /\ Ends(c, "failed")
    /\ UNCHANGED <<prog, sig, aged, blocks, unmade, mainpc, sent>>

Block(c) ==
    /\ cpc[c] = "block"
    /\ sig' = [sig EXCEPT ![c] = Blocked(@, Sigs)]
    /\ Goto(c, IF prog = "lab2_z1" THEN "look" ELSE "open")
    /\ UNCHANGED <<prog, fate, aged, blocks, unmade, mainpc, sent>>

\* The missing blocks are written one by one; nobody sees them come.  A write
\* that fails is not tried again, nor counted.
MadeUp_OneLess(m) == IF m < s THEN s - 1 ELSE m   \* mutation
MadeUp(m) == IF m < s THEN s ELSE m
MakeUp(c) ==
    \E m \in blocks[c] .. MadeUp(blocks[c]) :
        /\ blocks' = [blocks EXCEPT ![c] = m]
        /\ unmade' = [unmade EXCEPT ![c] = MadeUp(blocks[c]) - m]

\* lab2_z1.c: is the second over?
Look(c) ==
    /\ cpc[c] = "look"
    /\ IF c \in aged
       THEN Ends(c, "done") /\ MakeUp(c)
       ELSE Goto(c, "wait") /\ UNCHANGED <<fate, blocks, unmade>>
    /\ UNCHANGED <<prog, sig, aged, mainpc, sent>>

\* sigwait(): SIGUSR1 writes a block, the others end the child.  A block that
\* could not be written does not count, and the child goes on.
TakeUsr1(c) ==
    /\ cpc[c] = "wait" /\ "SIGUSR1" \in Waited(sig[c], Sigs)
    /\ sig' = [sig EXCEPT ![c] = Taken(@, "SIGUSR1")]
    /\ Goto(c, IF prog = "lab2_z1" THEN "look" ELSE "wait")
    /\ UNCHANGED <<prog, fate, aged, unmade, mainpc, sent>>

WriteBlock(c) == TakeUsr1(c) /\ blocks' = [blocks EXCEPT ![c] = @ + 1]
WriteFails(c) == TakeUsr1(c) /\ UNCHANGED blocks

Finish(c) ==
    /\ cpc[c] = "wait" /\ {"SIGINT", "SIGALRM"} \cap Waited(sig[c], Sigs) # {}
    /\ IF prog = "lab2_z1" THEN MakeUp(c) ELSE UNCHANGED <<blocks, unmade>>
    /\ Ends(c, "done")
    /\ UNCHANGED <<prog, sig, aged, mainpc, sent>>
-----------------------------------------------------------------------------
\* Time passes: the second of a child of lab2_z1.c, the alarm of another,
\* which is set once its file is open.
Age(c) ==
    /\ Runs(c) /\ c \notin aged
    /\ (prog = "lab2_z1" \/ cpc[c] = "wait")
    /\ aged' = aged \cup {c}
    /\ sig' = IF prog = "lab2_z1" THEN sig ELSE [sig EXCEPT ![c] = Sent(@, "SIGALRM")]
    /\ UNCHANGED <<prog, cpc, fate, blocks, unmade, mainpc, sent>>

Interrupt ==
    /\ Open
    /\ sig' = SentToAll("SIGINT")
    /\ UNCHANGED <<prog, cpc, fate, aged, blocks, unmade, mainpc, sent>>

Struck(c) ==
    /\ Runs(c) /\ Deadly(sig[c]) # {}
    /\ Ends(c, "struck")
    /\ UNCHANGED <<prog, sig, aged, blocks, unmade, mainpc, sent>>

ParentStruck ==
    /\ Open /\ Deadly(sig[Parent]) # {}
    /\ mainpc' = "dead"
    /\ UNCHANGED <<prog, sig, cpc, fate, aged, blocks, unmade, sent>>
-----------------------------------------------------------------------------
ParentStep ==
    \/ Ignore \/ AllForked \/ Send \/ WaitForAll \/ ParentStruck
    \/ \E c \in Children : Fork(c)
ChildStep(c) ==
    OpenFile(c) \/ Block(c) \/ Look(c) \/ WriteBlock(c) \/ Finish(c) \/ Struck(c)
Next ==
    \/ ParentStep \/ Interrupt
    \/ \E c \in Children : ChildStep(c) \/ OpenFails(c) \/ WriteFails(c) \/ Age(c)

Spec == Init /\ [][Next]_vars
FairSpec ==
    /\ Spec
    /\ WF_vars(ParentStep)
    /\ \A c \in Children : WF_vars(ChildStep(c)) /\ WF_vars(Age(c))
-----------------------------------------------------------------------------
\* The values the variables can take.
TypeOK ==
    /\ prog \in {"lab2_z1", "lab2_1_2"}
    /\ sig \in [Procs -> SignalStates(Sigs)]
    /\ cpc \in [Children -> {"unborn", "open", "block", "look", "wait", "gone"}]
    /\ fate \in [Children -> {"none", "done", "failed", "struck"}]
    /\ aged \subseteq Children
    /\ blocks \in [Children -> 0 .. Rounds + s] /\ unmade \in [Children -> 0 .. s]
    /\ mainpc \in {"ignore", "fork", "send", "dead", "over"}
    /\ sent \in 0 .. Rounds

\* A child never writes more than the parent asked for, or than it was to
\* write.  One of lab2_z1.c that ends by itself has written all of it, but for
\* the blocks whose write failed when it made up for them: what failed earlier
\* is made up for.  SIGUSR1 never strikes such a child, however early it comes
\* (childrenwork, main).
WritesMade ==
    /\ TypeOK
    /\ \A c \in Children :
          /\ blocks[c] <= (IF prog = "lab2_z1" /\ fate[c] = "done" /\ sent < s THEN s ELSE sent)
          /\ (prog = "lab2_z1" /\ fate[c] = "done" => blocks[c] + unmade[c] >= s)
          /\ (prog = "lab2_z1" /\ Runs(c) => "SIGUSR1" \notin Deadly(sig[c]))

\* Every child ends and the parent with it; but a child of lab2_z1.c that
\* went back to sigwait() just before its second was over is forgotten there
\* when no further signal comes.
Forgotten(c) == prog = "lab2_z1" /\ cpc[c] = "wait" /\ sig[c].pending = {} /\ sent = Rounds
Ended ==
    \/ ~Open /\ \A c \in Children : ~Runs(c)
    \/ \E c \in Children : Forgotten(c)
AllEnd == <>Ended
=============================================================================
