---------------------------- MODULE RobustMutex ----------------------------
(***************************************************************************)
(* The POSIX robust mutex as the programs of src/sop_l6_templates and      *)
(* src/l6 use it: a mutex in shared memory whose owner may die while it    *)
(* holds it.  The mutex is external code; only what the programs rely on   *)
(* is modelled.  A mutex is a record: holder is {} or {p}, and state says  *)
(* whether the data it protects has been declared usable.                  *)
(***************************************************************************)

\* The value of a mutex after pthread_mutex_init with PTHREAD_MUTEX_ROBUST.
FreshMutex == [holder |-> {}, state |-> "consistent"]

\* Every value a mutex shared by the processes P can have.
MutexType(P) ==
    [holder : {{}} \cup {{p} : p \in P},
     state  : {"consistent", "inconsistent", "notrecoverable"}]

\* pthread_mutex_lock returns (with whatever code) instead of blocking.
Lockable(m) == m.holder = {}

\* pthread_mutex_lock returned 0 or EOWNERDEAD to p: p owns the mutex.
Acquired(m, p) == [m EXCEPT !.holder = {p}]

\* What pthread_mutex_lock returns to a process that stops waiting.
LockResult(m) ==
    CASE m.state = "consistent"     -> "0"
      [] m.state = "inconsistent"   -> "EOWNERDEAD"
      [] m.state = "notrecoverable" -> "ENOTRECOVERABLE"

\* pthread_mutex_consistent, called by the owner after EOWNERDEAD.
MadeConsistent(m) == [m EXCEPT !.state = "consistent"]

\* pthread_mutex_unlock: an owner that never called
\* pthread_mutex_consistent leaves a mutex nobody can lock again.
Released(m) ==
    [holder |-> {},
     state  |-> IF m.state = "consistent" THEN "consistent"
                                          ELSE "notrecoverable"]

\* The kernel walks the robust list of a process that dies.
AfterDeath(m, p) ==
    IF p \in m.holder THEN [holder |-> {}, state |-> "inconsistent"] ELSE m
=============================================================================
