---------------------------- MODULE ObjectNames ----------------------------
(***************************************************************************)
(* The named objects of the shared-memory templates, over several          *)
(* instances of one program: two segments and a semaphore that outlive the *)
(* process that made them.  template.c and template_lab.c give them fixed  *)
(* names, which instances running together share; a name that is taken is  *)
(* thought to be left over and unlinked.  template_ds.c has its pid in the *)
(* names, so that only an instance that gets the pid of an earlier one     *)
(* meets them, and has no control segment.                                 *)
(*                                                                         *)
(* Children use what they inherit and never look at a name.                *)
(***************************************************************************)
EXTENDS Integers, FiniteSets

CONSTANTS
    Instances,    \* numbers of instances in the order they start;
                  \* for template_ds those of one pid
    None,         \* no object
    MaxTogether,  \* bound on instances that run at a time
    MaxKills      \* bound on instances that are killed

Names == {"data", "ctrl", "sem"}

VARIABLES
    prog,         \* "fixed" or "template_ds"
    named,        \* the instance that made the object a name leads to
    at,           \* <<step, name>>: where an instance is
    alone,        \* instances beside which no other has been running
    kills

vars == <<prog, named, at, alone, kills>>

Absent == <<"absent", "data">>
Done == <<"done", "data">>
Failed == <<"failed", "data">>
Killed == <<"killed", "data">>
Running(x) == at[x] \notin {Absent, Done, Failed, Killed}
Goto(x, place) == at' = [at EXCEPT ![x] = place]
-----------------------------------------------------------------------------
Init ==
    /\ prog \in {"fixed", "template_ds"}
    /\ named = [name \in Names |-> None]
    /\ at = [x \in Instances |-> Absent]
    /\ alone = {}
    /\ kills = 0

Start(x) ==
    /\ at[x] = Absent /\ \A y \in Instances : y < x => at[y] # Absent
    /\ Cardinality({y \in Instances : Running(y)}) < (IF prog = "fixed" THEN MaxTogether ELSE 1)
    /\ Goto(x, <<"open", "data">>)
    /\ alone' = IF \E y \in Instances : Running(y)
                THEN alone \ {y \in Instances : Running(y)}
                ELSE alone \cup {x}
    /\ UNCHANGED <<prog, named, kills>>

\* Data, control, semaphore; the name of a semaphore is dropped beforehand,
\* whether there is one or not.
After_NoDrop(name) ==                        \* mutation
    CASE name = "data" -> IF prog = "fixed" THEN <<"open", "ctrl">> ELSE <<"drop", "sem">>
      [] name = "ctrl" -> <<"open", "sem">>
      [] name = "sem" -> <<"work", "sem">>
After(name) ==
    CASE name = "data" -> IF prog = "fixed" THEN <<"open", "ctrl">> ELSE <<"drop", "sem">>
      [] name = "ctrl" -> <<"drop", "sem">>
      [] name = "sem" -> <<"work", "sem">>

\* O_CREAT | O_EXCL, once more after a name that was taken has been unlinked.
Open(x, name) ==
    /\ at[x] \in {<<"open", name>>, <<"retry", name>>}
    /\ IF named[name] = None
       THEN /\ named' = [named EXCEPT ![name] = x]
            /\ Goto(x, After(name))
       ELSE /\ Goto(x, IF prog = "fixed" /\ name # "sem" /\ at[x] = <<"open", name>>
                       THEN <<"unlink", name>> ELSE Failed)
            /\ UNCHANGED named
    /\ UNCHANGED <<prog, alone, kills>>

\* It may be gone in the meantime.
UnlinkStale(x, name) ==
    /\ at[x] = <<"unlink", name>>
    /\ named' = [named EXCEPT ![name] = None]
    /\ Goto(x, IF named[name] = None THEN Failed ELSE <<"retry", name>>)
    /\ UNCHANGED <<prog, alone, kills>>

DropSem(x) ==
    /\ at[x] = <<"drop", "sem">>
    /\ named' = [named EXCEPT !["sem"] = None]
    /\ Goto(x, <<"open", "sem">>)
    /\ UNCHANGED <<prog, alone, kills>>

\* The children, up to the report: SharedCounters.
Work(x) ==
    /\ at[x] = <<"work", "sem">>
    /\ Goto(x, <<"tidy", IF prog = "fixed" THEN "sem" ELSE "data">>)
    /\ UNCHANGED <<prog, named, alone, kills>>

\* At the end the names are unlinked, whoever's objects they lead to now;
\* one that is gone ends the program, the segment of template_ds.c excepted.
TidyAfter(name) ==
    CASE name = "sem" -> IF prog = "fixed" THEN <<"tidy", "data">> ELSE Done
      [] name = "data" -> <<"tidy", IF prog = "fixed" THEN "ctrl" ELSE "sem">>
      [] name = "ctrl" -> Done

Tidy(x, name) ==
    /\ at[x] = <<"tidy", name>>
    /\ named' = [named EXCEPT ![name] = None]
    /\ Goto(x, IF named[name] = None /\ ~(prog = "template_ds" /\ name = "data")
               THEN Failed ELSE TidyAfter(name))
    /\ UNCHANGED <<prog, alone, kills>>

Kill(x) ==
    /\ Running(x) /\ kills < MaxKills
    /\ kills' = kills + 1
    /\ Goto(x, Killed)
    /\ UNCHANGED <<prog, named, alone>>
-----------------------------------------------------------------------------
Step(x) ==
    \/ DropSem(x) \/ Work(x)
    \/ \E name \in Names : Open(x, name) \/ UnlinkStale(x, name) \/ Tidy(x, name)
Next == \E x \in Instances : Start(x) \/ Step(x) \/ Kill(x)

Spec == Init /\ [][Next]_vars
FairSpec == Spec /\ \A x \in Instances : WF_vars(Step(x))
-----------------------------------------------------------------------------
\* The values the variables can take.
Places == {"open", "retry", "unlink", "drop", "work", "tidy", "absent", "done", "failed", "killed"}
TypeOK ==
    /\ prog \in {"fixed", "template_ds"}
    /\ named \in [Names -> Instances \cup {None}]
    /\ at \in [Instances -> Places \X Names]
    /\ alone \subseteq Instances
    /\ kills \in 0 .. MaxKills

\* An instance that runs alone comes to its end and leaves nothing behind,
\* wherever earlier ones have failed or have been killed, and whatever names
\* those took away or left.  Only template_ds.c does not clear away the segment
\* left under its pid, and only one that was killed leaves it (the set-up and
\* the tidying-up of the mains).
LoneInstanceEnds ==
    /\ TypeOK
    /\ \A x \in alone :
          /\ at[x] = Failed => /\ prog = "template_ds" /\ named["data"] # None
                              /\ at[named["data"]] = Killed
          /\ at[x] = Done => \A name \in Names : named[name] # x
=============================================================================
