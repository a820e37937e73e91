------------------------------ MODULE CountOff ------------------------------
(***************************************************************************)
(* What the three counters of the shared-memory templates promise: every   *)
(* child counts itself off on counter 1, then 2, then 3, each time in one  *)
(* indivisible step, and may vanish at any moment; the report is read once *)
(* nobody is left to count.                                                *)
(***************************************************************************)
EXTENDS Integers, FiniteSets

CONSTANTS
    Child,      \* the children
    Counter,    \* 1 .. 3, in the order in which a child meets them
    Unread      \* the report's value of a counter not read yet

VARIABLES
    unit,       \* what counting off adds to a counter, 1 or -1
    passed,     \* passed[c]: on how many counters c has counted itself off
    gone,       \* the children that have ended, in whatever way
    total,      \* total[k]: the value of counter k
    report      \* report[k]: what the parent reports for counter k

vars == <<unit, passed, gone, total, report>>

Init ==
    /\ unit \in {1, -1}
    /\ passed = [c \in Child |-> 0]
    /\ gone = {}
    /\ total = [k \in Counter |-> IF unit = 1 THEN 0 ELSE Cardinality(Child)]
    /\ report = [k \in Counter |-> Unread]

CountSelf(c) ==
    /\ c \notin gone
    /\ passed[c] + 1 \in Counter
    /\ passed' = [passed EXCEPT ![c] = @ + 1]
    /\ total' = [total EXCEPT ![passed[c] + 1] = @ + unit]
    /\ UNCHANGED <<unit, gone, report>>

Vanish(c) ==
    /\ c \notin gone
    /\ gone' = gone \cup {c}
    /\ UNCHANGED <<unit, passed, total, report>>

Read(k) ==
    /\ gone = Child
    /\ report[k] = Unread
    /\ report' = [report EXCEPT ![k] = total[k]]
    /\ UNCHANGED <<unit, passed, gone, total>>

Next ==
    \/ \E c \in Child : CountSelf(c) \/ Vanish(c)
    \/ \E k \in Counter : Read(k)

Spec == Init /\ [][Next]_vars
=============================================================================
