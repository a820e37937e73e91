------------------------------ MODULE Signals ------------------------------
(***************************************************************************)
(* What the kernel keeps of the signals of one process, as the lab2        *)
(* programs use it: a disposition per signal, the blocked signals, and the *)
(* set of signals that wait.  It is a set: a signal sent twice before it   *)
(* is taken arrives once.  Ignoring the signals that are ignored by        *)
(* default, SIGCHLD among them, is written as "ignore".                    *)
(***************************************************************************)
EXTENDS Naturals

SignalStates(signals) ==
    [disp : [signals -> {"default", "ignore", "handler"}],
     blocked : SUBSET signals, pending : SUBSET signals]

NewProcess(signals) ==
    [disp |-> [s \in signals |-> IF s = "SIGCHLD" THEN "ignore" ELSE "default"],
     blocked |-> {}, pending |-> {}]

\* kill(): what is ignored is discarded, unless it is blocked.
Sent(p, s) ==
    IF p.disp[s] = "ignore" /\ s \notin p.blocked
    THEN p
    ELSE [p EXCEPT !.pending = @ \cup {s}]

\* sigaction(): to ignore a signal discards it where it waits.
Disposed(p, s, how) ==
    [p EXCEPT !.disp[s] = how, !.pending = IF how = "ignore" THEN @ \ {s} ELSE @]

\* sigprocmask(SIG_BLOCK)
Blocked(p, signals) == [p EXCEPT !.blocked = @ \cup signals]

\* fork(): everything but the waiting signals is inherited.  It does not
\* go past a signal that is to be delivered (Deliverable is empty where it
\* is called), so a signal to the group strikes the parent or finds the child.
Forked(p) == [p EXCEPT !.pending = {}]

\* A signal delivered to a handler, or taken by sigwait().
Taken(p, s) == [p EXCEPT !.pending = @ \ {s}]
Deliverable(p) == p.pending \ p.blocked
Deadly(p) == {s \in Deliverable(p) : p.disp[s] = "default"}
Handled(p) == {s \in Deliverable(p) : p.disp[s] = "handler"}

\* sigwait() takes the lowest number first.
Number == [SIGINT |-> 2, SIGUSR1 |-> 10, SIGUSR2 |-> 12, SIGALRM |-> 14,
           SIGTERM |-> 15, SIGCHLD |-> 17]
Waited(p, signals) ==
    {s \in p.pending \cap signals : \A r \in p.pending \cap signals : Number[s] <= Number[r]}
=============================================================================
