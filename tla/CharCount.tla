----------------------------- MODULE CharCount -----------------------------
(***************************************************************************)
(* src/l6/z1/main.c: n children count the characters of the same file,     *)
(* each into a block of results of its own, in shared memory.  One may     *)
(* abort before it writes.  The parent waits for the children one by one   *)
(* and prints the first block, or that the computation has failed.         *)
(*                                                                         *)
(* Nothing that main calls is checked.  A fork that fails leaves -1 in the *)
(* table, and waiting for -1 is waiting for anybody; a wait for a child    *)
(* that has been waited for already fails and leaves status uninitialised. *)
(***************************************************************************)
EXTENDS Integers, FiniteSets

CONSTANTS
    n,            \* the children to be created
    MaxKills      \* bound on children killed from outside

Children == 0 .. n - 1

VARIABLES
    state,        \* of a child: "unborn", "absent", "counts", "writes",
                  \* "exited", "aborted", "reaped"
    wyn,          \* the parts of a child's block that are written
    signaled,     \* children that did not exit by themselves
    mainpc,       \* where main is
    i,            \* the loop variable of main
    er,           \* main has seen a child that was ended by a signal
    kills

vars == <<state, wyn, signaled, mainpc, i, er, kills>>

Goes(c, to) == state' = [state EXCEPT ![c] = to]
Zombie(c) == state[c] \in {"exited", "aborted"}
-----------------------------------------------------------------------------
Init ==
    /\ state = [c \in Children |-> "unborn"]
    /\ wyn = [c \in Children |-> 0]
    /\ signaled = {}
    /\ mainpc = "fork" /\ i = 0
    /\ er = FALSE
    /\ kills = 0

\* The i-th turn of a loop of main over the children.
Turn(next) == IF i + 1 < n THEN i' = i + 1 /\ UNCHANGED mainpc ELSE i' = 0 /\ mainpc' = next

Fork ==
    /\ mainpc = "fork"
    /\ Goes(i, "counts") \/ Goes(i, "absent")
    /\ Turn("wait")
    /\ UNCHANGED <<wyn, signaled, er, kills>>
-----------------------------------------------------------------------------
\* child_work: count, perhaps abort, write the result.
Count(c) ==
    /\ state[c] = "counts"
    /\ \/ Goes(c, "writes") /\ UNCHANGED signaled
       \/ Goes(c, "aborted") /\ signaled' = signaled \cup {c}
    /\ UNCHANGED <<wyn, mainpc, i, er, kills>>

\* Spaces and line ends, letters, digits; and exit.
WritePart(c) ==
    /\ state[c] = "writes"
    /\ wyn' = [wyn EXCEPT ![c] = @ + 1]
    /\ IF wyn'[c] = 3 THEN Goes(c, "exited") ELSE UNCHANGED state
    /\ UNCHANGED <<signaled, mainpc, i, er, kills>>

Kill(c) ==
    /\ state[c] \in {"counts", "writes"} /\ kills < MaxKills
    /\ kills' = kills + 1
    /\ Goes(c, "aborted") /\ signaled' = signaled \cup {c}
    /\ UNCHANGED <<wyn, mainpc, i, er>>
-----------------------------------------------------------------------------
\* waitpid() of the i-th child, or of anybody where no i-th child is.
MayReap(c) == state[i] = "absent" \/ c = i

Seen_LastOnly(signal) == signal              \* mutation
Seen(signal) == er \/ signal

Wait(c) ==
    /\ mainpc = "wait" /\ MayReap(c)
    /\ Zombie(c)
    /\ Goes(c, "reaped")
    /\ er' = Seen(c \in signaled)
    /\ Turn("print")
    /\ UNCHANGED <<wyn, signaled, kills>>

\* Nobody to wait for: main looks at a status nobody has set.
WaitFails ==
    /\ mainpc = "wait"
    /\ \A c \in Children : MayReap(c) => state[c] \in {"absent", "reaped"}
    /\ er' = Seen(TRUE) \/ er' = Seen(FALSE)
    /\ Turn("print")
    /\ UNCHANGED <<state, wyn, signaled, kills>>

Report ==
    /\ mainpc = "print"
    /\ mainpc' = IF er THEN "failed" ELSE "printed"
    /\ UNCHANGED <<state, wyn, signaled, i, er, kills>>
-----------------------------------------------------------------------------
MainStep == Fork \/ WaitFails \/ Report \/ \E c \in Children : Wait(c)
ChildStep(c) == Count(c) \/ WritePart(c)
Next == MainStep \/ \E c \in Children : ChildStep(c) \/ Kill(c)

Spec == Init /\ [][Next]_vars
FairSpec == Spec /\ WF_vars(MainStep) /\ \A c \in Children : WF_vars(ChildStep(c))
-----------------------------------------------------------------------------
\* The values the variables can take.
TypeOK ==
    /\ state \in [Children -> {"unborn", "absent", "counts", "writes", "exited", "aborted",
                               "reaped"}]
    /\ wyn \in [Children -> 0 .. 3]
    /\ signaled \subseteq Children
    /\ mainpc \in {"fork", "wait", "print", "failed", "printed"}
    /\ i \in Children
    /\ er \in BOOLEAN
    /\ kills \in 0 .. MaxKills

\* What main prints is the whole of a count that nobody works on any more,
\* whichever child aborts: every child that was created has been waited for,
\* in whatever order the failed forks make main take them, none of them ended
\* by a signal, and the first block is complete, or empty where there is no
\* first child (main's loop over waitpid).
CountIsWhole ==
    /\ TypeOK
    /\ mainpc \in {"print", "failed", "printed"} =>
          \A c \in Children : state[c] \in {"absent", "reaped"}
    /\ mainpc = "printed" =>
          /\ signaled = {}
          /\ wyn[0] = IF state[0] = "absent" THEN 0 ELSE 3

\* main comes to its end.
Ended == mainpc \in {"failed", "printed"}
MainEnds == <>Ended
=============================================================================
