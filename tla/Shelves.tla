------------------------------ MODULE Shelves ------------------------------
(***************************************************************************)
(* What the night shift of src/l3/bitronka.c promises about the goods:     *)
(* while the shop is at work goods only ever change places in pairs that   *)
(* stood in the wrong order; while it is being shuffled they only exchange *)
(* places; and nothing is ever lost or doubled.                            *)
(***************************************************************************)
EXTENDS Integers, FiniteSets

CONSTANT Place    \* the shelves, 1 .. n

VARIABLES
    goods,        \* goods[i]: what stands on shelf i
    mode          \* "work" or "shuffle"

vars == <<goods, mode>>

Exchanged(i, j) == [goods EXCEPT ![i] = goods[j], ![j] = goods[i]]

Init ==
    /\ goods \in [Place -> Place]
    /\ \A i, j \in Place : goods[i] = goods[j] => i = j
    /\ mode = "work"

\* A pair in the wrong order is put right, in one step.
Sort(a, b) ==
    /\ mode = "work"
    /\ a < b /\ goods[a] > goods[b]
    /\ goods' = Exchanged(a, b)
    /\ UNCHANGED mode

StartShuffle == mode = "work" /\ mode' = "shuffle" /\ UNCHANGED goods

\* One exchange of the shuffle, perhaps its last.
Exchange(i, j) ==
    /\ mode = "shuffle"
    /\ goods' = Exchanged(i, j)
    /\ mode' \in {"work", "shuffle"}

Next ==
    \/ \E a, b \in Place : Sort(a, b) \/ Exchange(a, b)
    \/ StartShuffle

Spec == Init /\ [][Next]_vars
=============================================================================
