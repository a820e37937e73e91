------------------------------ MODULE SigList ------------------------------
(***************************************************************************)
(* src/l3/sygnaly.c and src/l3/template.c: a list of K nodes, its length   *)
(* and a stop flag.  main prints the list once a second; a signal thread   *)
(* takes a random node out of it for every SIGINT and sets the flag on     *)
(* SIGQUIT.  At the end main joins the signal thread and frees the list.   *)
(*                                                                         *)
(* The two differ in the length main prints, which template.c hands to     *)
(* main_loop by value, and in the mutex around the final clean-up, which   *)
(* template.c leaves out.  Its worker thread is never started.             *)
(***************************************************************************)
EXTENDS Integers, FiniteSets

CONSTANTS
    K,            \* the length at the start
    Sig, Main,    \* the two threads
    Nobody        \* the owner of a free mutex

Nodes == 1 .. K
Nil == 0

VARIABLES
    prog,         \* "sygnaly" or "template"
    head, next,   \* the list
    freed,        \* the nodes that have been freed
    k,            \* the length the signal thread keeps
    stop,         \* the flag
    owner,        \* of the mutexes "list" and "stop"
    spc, victim,  \* where the signal thread is, the node it removes
    pending,      \* the signals sigwait() may take
    mainpc, cur,  \* where main is, the node it looks at
    shown, walked \* the length it prints, the nodes it has printed

signalVars == <<spc, victim, pending>>
listVars == <<head, next, freed, k>>
mainVars == <<mainpc, cur, shown, walked>>
vars == <<prog, listVars, stop, owner, signalVars, mainVars>>

Take(m, t) == owner[m] = Nobody /\ owner' = [owner EXCEPT ![m] = t]
Give(m) == owner' = [owner EXCEPT ![m] = Nobody]
-----------------------------------------------------------------------------
\* main() with the list made, the signals blocked, the thread created.
Init ==
    /\ prog \in {"sygnaly", "template"}
    /\ head = 1
    /\ next = [i \in Nodes |-> IF i < K THEN i + 1 ELSE Nil]
    /\ freed = {} /\ k = K
    /\ stop = 0
    /\ owner = [m \in {"list", "stop"} |-> Nobody]
    /\ spc = "wait" /\ victim = Nil
    /\ pending = {}
    /\ mainpc = "ask" /\ cur = Nil
    /\ shown = 0 /\ walked = 0
-----------------------------------------------------------------------------
\* Signals from the keyboard; two SIGINT waiting are one.
SendInt ==
    /\ mainpc # "over" /\ "SIGINT" \notin pending
    /\ pending' = pending \cup {"SIGINT"}
    /\ UNCHANGED <<prog, listVars, stop, owner, spc, victim, mainVars>>

SendQuit ==
    /\ mainpc # "over" /\ "SIGQUIT" \notin pending
    /\ pending' = pending \cup {"SIGQUIT"}
    /\ UNCHANGED <<prog, listVars, stop, owner, spc, victim, mainVars>>

\* sigwait() takes the lowest of the signals that wait.
Lowest(set) == IF "SIGINT" \in set THEN "SIGINT" ELSE "SIGQUIT"

Sigwait ==
    /\ mainpc # "over" /\ spc = "wait" /\ pending # {}
    /\ pending' = pending \ {Lowest(pending)}
    /\ spc' = IF Lowest(pending) = "SIGINT" THEN "lock" ELSE "lockstop"
    /\ UNCHANGED <<prog, listVars, stop, owner, victim, mainVars>>

SigLock_Skipped ==                           \* mutation
    /\ spc = "lock"
    /\ spc' = "unlink"
    /\ UNCHANGED <<prog, listVars, stop, owner, victim, pending, mainVars>>
SigLock ==
    /\ spc = "lock"
    /\ Take("list", Sig)
    /\ spc' = "unlink"
    /\ UNCHANGED <<prog, listVars, stop, victim, pending, mainVars>>

\* The node i links away from the head.
Nth[i \in 0 .. K] ==
    IF i = 0 \/ head = Nil THEN head
    ELSE IF Nth[i - 1] = Nil THEN Nil ELSE next[Nth[i - 1]]

\* An empty list is left alone; otherwise the node at the drawn place goes.
Empty == k <= 0 \/ head = Nil

Unlink(los) ==
    /\ spc = "unlink" /\ ~Empty /\ los < k
    /\ victim' = Nth[los]
    /\ IF los = 0
       THEN head' = next[victim'] /\ UNCHANGED next
       ELSE next' = [next EXCEPT ![Nth[los - 1]] = next[victim']] /\ UNCHANGED head
    /\ spc' = "free"
    /\ UNCHANGED <<prog, freed, k, stop, owner, pending, mainVars>>

Free ==
    /\ spc = "free"
    /\ freed' = freed \cup {victim}
    /\ spc' = "shorten"
    /\ UNCHANGED <<prog, head, next, k, stop, owner, victim, pending, mainVars>>

Shorten_Forgotten ==                         \* mutation
    /\ spc = "shorten"
    /\ victim' = Nil /\ spc' = "unlock"
    /\ UNCHANGED <<prog, listVars, stop, owner, pending, mainVars>>
Shorten ==
    /\ spc = "shorten"
    /\ k' = k - 1
    /\ victim' = Nil /\ spc' = "unlock"
    /\ UNCHANGED <<prog, head, next, freed, stop, owner, pending, mainVars>>

SigUnlock ==
    /\ spc = "unlock" \/ (spc = "unlink" /\ Empty)
    /\ Give("list")
    /\ spc' = "wait"
    /\ UNCHANGED <<prog, listVars, stop, victim, pending, mainVars>>

SigLockStop ==
    /\ spc = "lockstop"
    /\ Take("stop", Sig)
    /\ spc' = "setstop"
    /\ UNCHANGED <<prog, listVars, stop, victim, pending, mainVars>>

SigSetStop ==
    /\ spc = "setstop"
    /\ stop' = 1 /\ spc' = "unlockstop"
    /\ UNCHANGED <<prog, listVars, owner, victim, pending, mainVars>>

SigUnlockStop ==
    /\ spc = "unlockstop"
    /\ Give("stop")
    /\ spc' = "gone"
    /\ UNCHANGED <<prog, listVars, stop, victim, pending, mainVars>>
-----------------------------------------------------------------------------
\* main reads the flag under its mutex.
MainAsk ==
    /\ mainpc = "ask"
    /\ Take("stop", Main)
    /\ mainpc' = "answer"
    /\ UNCHANGED <<prog, listVars, stop, signalVars, cur, shown, walked>>

MainAnswer ==
    /\ mainpc = "answer"
    /\ Give("stop")
    /\ mainpc' = IF stop = 1 THEN "join" ELSE "lock"
    /\ UNCHANGED <<prog, listVars, stop, signalVars, cur, shown, walked>>

\* It prints a length, then node after node.
Length == IF prog = "sygnaly" THEN k ELSE K

MainLock ==
    /\ mainpc = "lock"
    /\ Take("list", Main)
    /\ shown' = Length /\ walked' = 0
    /\ cur' = head
    /\ mainpc' = "print"
    /\ UNCHANGED <<prog, listVars, stop, signalVars>>

PrintNode ==
    /\ mainpc = "print" /\ cur # Nil
    /\ walked' = walked + 1
    /\ cur' = next[cur]
    /\ UNCHANGED <<prog, listVars, stop, owner, signalVars, mainpc, shown>>

\* The lock is given back, main sleeps and asks again.
MainUnlock ==
    /\ mainpc = "print" /\ cur = Nil
    /\ Give("list")
    /\ mainpc' = "ask" /\ shown' = 0 /\ walked' = 0
    /\ UNCHANGED <<prog, listVars, stop, signalVars, cur>>

\* With the signal thread joined the list is freed from its head.
Join ==
    /\ mainpc = "join" /\ spc = "gone"
    /\ mainpc' = "clean"
    /\ cur' = head
    /\ IF prog = "sygnaly" THEN Take("list", Main) ELSE UNCHANGED owner
    /\ UNCHANGED <<prog, listVars, stop, signalVars, shown, walked>>

CleanNode ==
    /\ mainpc = "clean" /\ cur # Nil
    /\ freed' = freed \cup {cur}
    /\ cur' = next[cur]
    /\ UNCHANGED <<prog, head, next, k, stop, owner, signalVars, mainpc, shown, walked>>

\* head is cleared, both mutexes are destroyed, main returns.
Return ==
    /\ mainpc = "clean" /\ cur = Nil
    /\ head' = Nil
    /\ owner' = [owner EXCEPT !["list"] = Nobody]
    /\ mainpc' = "over"
    /\ UNCHANGED <<prog, next, freed, k, stop, signalVars, cur, shown, walked>>
-----------------------------------------------------------------------------
SigStep ==
    \/ Sigwait \/ SigLock \/ Free \/ Shorten \/ SigUnlock
    \/ SigLockStop \/ SigSetStop \/ SigUnlockStop
    \/ \E los \in 0 .. K - 1 : Unlink(los)
MainStep ==
    \/ MainAsk \/ MainAnswer \/ MainLock \/ PrintNode \/ MainUnlock
    \/ Join \/ CleanNode \/ Return
Next == SigStep \/ MainStep \/ SendInt \/ SendQuit

Spec == Init /\ [][Next]_vars

\* main sleeps a second with neither mutex taken.
FairSpec == Spec /\ SF_vars(SigStep) /\ SF_vars(MainStep)
-----------------------------------------------------------------------------
\* The values the variables can take.
TypeOK ==
    /\ prog \in {"sygnaly", "template"}
    /\ head \in Nodes \cup {Nil} /\ next \in [Nodes -> Nodes \cup {Nil}]
    /\ freed \subseteq Nodes /\ k \in 0 .. K
    /\ stop \in {0, 1}
    /\ owner \in [{"list", "stop"} -> {Sig, Main, Nobody}]
    /\ spc \in {"wait", "lock", "unlink", "free", "shorten", "unlock",
                "lockstop", "setstop", "unlockstop", "gone"}
    /\ victim \in Nodes \cup {Nil}
    /\ pending \subseteq {"SIGINT", "SIGQUIT"}
    /\ mainpc \in {"ask", "answer", "lock", "print", "join", "clean", "over"}
    /\ cur \in Nodes \cup {Nil}
    /\ shown \in 0 .. K /\ walked \in 0 .. K

\* A print shows one state of the list: as many nodes as the signal thread
\* counts, in the order of their values.  The number above them is theirs
\* in sygnaly.c only; template.c prints the number it began with, too high by
\* exactly the nodes already taken out (the print in main and in main_loop).
OneState ==
    /\ TypeOK
    /\ owner["list"] # Sig /\ mainpc # "clean" /\ mainpc # "over" =>
          Cardinality(Nodes \ freed) = k
    /\ mainpc = "print" /\ cur # Nil => next[cur] = Nil \/ next[cur] > cur
    /\ mainpc = "print" /\ cur = Nil =>
          /\ walked = k
          /\ shown = IF prog = "sygnaly" THEN walked ELSE walked + Cardinality(freed)

\* No node is touched or freed after it has been freed, by a print, a removal
\* or the clean-up, and every place the signal thread draws exists; at the
\* end everything has been freed (start_routine, main's clean-up).
NothingDangling ==
    /\ mainpc \in {"print", "clean"} => cur \notin freed
    /\ spc = "free" => victim \notin freed /\ victim # Nil
    /\ spc = "unlink" /\ ~Empty => \A los \in 0 .. k - 1 : Nth[los] \in Nodes \ freed
    /\ mainpc = "over" => freed = Nodes /\ spc = "gone"

\* SIGQUIT ends the program, unless there is a SIGINT to take first again and
\* again (start_routine's sigwait).
Flooded == spc = "wait" /\ "SIGINT" \in pending
QuitEndsIt == []<>Flooded \/ (("SIGQUIT" \in pending) ~> (mainpc = "over"))
=============================================================================
