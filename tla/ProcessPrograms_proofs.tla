----------------------- MODULE ProcessPrograms_proofs -----------------------
(***************************************************************************)
(* Theorems about the smaller programs of several processes, for any       *)
(* number of processes.  They share nothing and only one of them ever      *)
(* runs, so that every step is a step of each program or leaves it as it   *)
(* is, and each has an inductive invariant of its own.                     *)
(***************************************************************************)
EXTENDS ProcessPrograms, Sequences, FiniteSetTheorems, SequenceTheorems, TLAPS

\* A step of ProcessPrograms is a step of the program that runs, and leaves the
\* others as they are.
LEMMA NextCases ==
    ASSUME [Next]_vars
    PROVE  \/ RunToken \/ RunKG \/ RunWriters \/ RunGraph \/ RunCount \/ RunNames
           \/ UNCHANGED vars
BY DEF Next, Lead, Misfortune, Keyboard, Process, Meanwhile

\* The steps of WorkToken: Work.
LEMMA TokenMoves ==
    ASSUME [Next]_vars
    PROVE  [Token!Next]_(Token!vars)
<1>1. CASE UNCHANGED token
  BY <1>1 DEF token, Token!vars
<1>2. CASE RunToken /\ ~UNCHANGED token
  <2> USE <1>2 DEF RunToken, Runs, RunToken, RunKG, RunWriters, RunGraph, RunCount, RunNames
  <2>1. CASE Lead
    BY <2>1 DEF Lead, Token!Next
  <2>2. CASE Misfortune \/ Keyboard
    BY <2>2 DEF Misfortune, Keyboard, Token!Next, Children, Token!Children
  <2>3. CASE \E c \in Processes : Process(c)
    BY <2>3 DEF Process, Token!Next, Children, Token!Children
  <2>4. CASE \E c \in Children : Meanwhile(c)
    BY <2>4 DEF Meanwhile, Token!Next, Children, Token!Children
  <2> QED  BY <2>1, <2>2, <2>3, <2>4 DEF Next, vars
<1>3. ASSUME ~RunToken PROVE UNCHANGED token
  BY <1>3, NextCases DEF RunToken, RunKG, RunWriters, RunGraph, RunCount, RunNames, vars
<1> QED  BY <1>1, <1>2, <1>3

\* Those of Kindergarten.
LEMMA KGMoves ==
    ASSUME [Next]_vars
    PROVE  [KG!Next]_(KG!vars)
<1>1. CASE UNCHANGED kindergarten
  BY <1>1 DEF kindergarten, KG!vars, KG!flags
<1>2. CASE RunKG /\ ~UNCHANGED kindergarten
  <2> USE <1>2 DEF RunKG, Runs, RunToken, RunKG, RunWriters, RunGraph, RunCount, RunNames
  <2>1. CASE Lead
    BY <2>1 DEF Lead, KG!Next
  <2>2. CASE Misfortune \/ Keyboard
    BY <2>2 DEF Misfortune, Keyboard, KG!Next, Children, KG!Children
  <2>3. CASE \E c \in Processes : Process(c)
    BY <2>3 DEF Process, KG!Next, Children, KG!Children
  <2>4. CASE \E c \in Children : Meanwhile(c)
    BY <2>4 DEF Meanwhile, KG!Next, Children, KG!Children
  <2> QED  BY <2>1, <2>2, <2>3, <2>4 DEF Next, vars
<1>3. ASSUME ~RunKG PROVE UNCHANGED kindergarten
  BY <1>3, NextCases DEF RunToken, RunKG, RunWriters, RunGraph, RunCount, RunNames, vars
<1> QED  BY <1>1, <1>2, <1>3

\* Those of SignalWriters.
LEMMA WritersMoves ==
    ASSUME [Next]_vars
    PROVE  [Writers!Next]_(Writers!vars)
<1>1. CASE UNCHANGED writers
  BY <1>1 DEF writers, Writers!vars
<1>2. CASE RunWriters /\ ~UNCHANGED writers
  <2> USE <1>2 DEF RunWriters, Runs, RunToken, RunKG, RunWriters, RunGraph, RunCount, RunNames
  <2>1. CASE Lead
    BY <2>1 DEF Lead, Writers!Next
  <2>2. CASE Misfortune \/ Keyboard
    BY <2>2 DEF Misfortune, Keyboard, Writers!Next
  <2>3. CASE \E c \in Processes : Process(c)
    BY <2>3 DEF Process, Writers!Next
  <2>4. CASE \E c \in Children : Meanwhile(c)
    BY <2>4 DEF Meanwhile, Writers!Next
  <2> QED  BY <2>1, <2>2, <2>3, <2>4 DEF Next, vars
<1>3. ASSUME ~RunWriters PROVE UNCHANGED writers
  BY <1>3, NextCases DEF RunToken, RunKG, RunWriters, RunGraph, RunCount, RunNames, vars
<1> QED  BY <1>1, <1>2, <1>3

\* Those of CharCount.
LEMMA CountMoves ==
    ASSUME [Next]_vars
    PROVE  [Count!Next]_(Count!vars)
<1>1. CASE UNCHANGED count
  BY <1>1 DEF count, Count!vars
<1>2. CASE RunCount /\ ~UNCHANGED count
  <2> USE <1>2 DEF RunCount, Runs, RunToken, RunKG, RunWriters, RunGraph, RunCount, RunNames
  <2>1. CASE Lead
    BY <2>1 DEF Lead, Count!Next
  <2>2. CASE Misfortune \/ Keyboard
    BY <2>2 DEF Misfortune, Keyboard, Count!Next, Counters, Count!Children
  <2>3. CASE \E c \in Processes : Process(c)
    BY <2>3 DEF Process, Count!Next, Counters, Count!Children
  <2>4. CASE \E c \in Children : Meanwhile(c)
    BY <2>4 DEF Meanwhile, Count!Next, Counters, Count!Children
  <2> QED  BY <2>1, <2>2, <2>3, <2>4 DEF Next, vars
<1>3. ASSUME ~RunCount PROVE UNCHANGED count
  BY <1>3, NextCases DEF RunToken, RunKG, RunWriters, RunGraph, RunCount, RunNames, vars
<1> QED  BY <1>1, <1>2, <1>3

\* Those of GraphFifo.
LEMMA GraphMoves ==
    ASSUME [Next]_vars
    PROVE  [Graph!Next]_(Graph!vars)
<1>1. CASE UNCHANGED graph
  BY <1>1 DEF graph, Graph!vars
<1>2. CASE RunGraph /\ ~UNCHANGED graph
  <2> USE <1>2 DEF RunGraph, Runs, RunToken, RunKG, RunWriters, RunGraph, RunCount, RunNames
  <2>1. CASE Lead
    BY <2>1 DEF Lead, Graph!Next
  <2>2. CASE Misfortune \/ Keyboard
    BY <2>2 DEF Misfortune, Keyboard, Graph!Next, Graph!Procs
  <2>3. CASE \E c \in Processes : Process(c)
    BY <2>3 DEF Process, Graph!Next
  <2>4. CASE \E c \in Children : Meanwhile(c)
    BY <2>4 DEF Meanwhile, Graph!Next
  <2> QED  BY <2>1, <2>2, <2>3, <2>4 DEF Next, vars
<1>3. ASSUME ~RunGraph PROVE UNCHANGED graph
  BY <1>3, NextCases DEF RunToken, RunKG, RunWriters, RunGraph, RunCount, RunNames, vars
<1> QED  BY <1>1, <1>2, <1>3

\* Those of ObjectNames.
LEMMA ObjectsMoves ==
    ASSUME [Next]_vars
    PROVE  [Objects!Next]_(Objects!vars)
<1>1. CASE UNCHANGED names
  BY <1>1 DEF names, Objects!vars
<1>2. CASE RunNames /\ ~UNCHANGED names
  <2> USE <1>2 DEF RunNames, Runs, RunToken, RunKG, RunWriters, RunGraph, RunCount, RunNames
  <2>1. CASE Lead
    BY <2>1 DEF Lead, Objects!Next
  <2>2. CASE Misfortune \/ Keyboard
    BY <2>2 DEF Misfortune, Keyboard, Objects!Next
  <2>3. CASE \E c \in Processes : Process(c)
    BY <2>3 DEF Process, Objects!Next
  <2>4. CASE \E c \in Children : Meanwhile(c)
    BY <2>4 DEF Meanwhile, Objects!Next
  <2> QED  BY <2>1, <2>2, <2>3, <2>4 DEF Next, vars
<1>3. ASSUME ~RunNames PROVE UNCHANGED names
  BY <1>3, NextCases DEF RunToken, RunKG, RunWriters, RunGraph, RunCount, RunNames, vars
<1> QED  BY <1>1, <1>2, <1>3

(***************************************************************************)
(* WorkToken: lab2_z3.c.                                                   *)
(***************************************************************************)

\* What a child that lives has been told, as long as its two signals have not met:
\* to work, or to rest.
TkWorks(c) ==
    Token!Child(c) => /\ "SIGUSR2" \notin Token!Due(c)
                      /\ (c \in czy_dzialam \/ "SIGUSR1" \in Token!Due(c))
TkRests(c) ==
    Token!Child(c) => /\ "SIGUSR1" \notin Token!Due(c)
                      /\ (c \notin czy_dzialam \/ "SIGUSR2" \in Token!Due(c))

\* Nobody ignores a signal, so that none is discarded.
TkHeeds == \A p \in Token!Procs : \A v \in Token!Sigs : sig[p].disp[v] # "ignore"

\* The first child is told to work by its number; only a child that lives works
\* or is in a handler.
TkFirst ==
    /\ mainpc \in {"fork", "kick", "block", "kickagain"} => pracujace = 0
    /\ \A c \in czy_dzialam : Token!Child(c)
    /\ \A c \in Token!Children : ~Token!Child(c) => inside[c] = <<>>

\* All children rest before the first SIGUSR1 and between the two signals of a pass;
\* otherwise one works.
TkOf(c) ==
    /\ mainpc \in {"fork", "kick", "pass"} => TkRests(c)
    /\ mainpc \in {"block", "kickagain", "wait", "halt"} =>
           (c = pracujace => TkWorks(c)) /\ (c # pracujace => TkRests(c))
TkToken == ~crossed => \A c \in Token!Children : TkOf(c)

TkInv == Token!TypeOK /\ TkHeeds /\ TkFirst /\ TkToken

\* kill().
LEMMA TkSent ==
    ASSUME NEW p \in Token!SignalStates(Token!Sigs), NEW v \in Token!Sigs
    PROVE  /\ Token!Sent(p, v) \in Token!SignalStates(Token!Sigs)
           /\ Token!Sent(p, v).disp = p.disp /\ Token!Sent(p, v).blocked = p.blocked
           /\ Token!Sent(p, v).pending \in {p.pending, p.pending \cup {v}}
BY DEF Token!Sent, Token!SignalStates

\* sigaction().
LEMMA TkDisposed ==
    ASSUME NEW p \in Token!SignalStates(Token!Sigs), NEW v \in Token!Sigs,
           NEW how \in {"ignore", "handler"}
    PROVE  /\ Token!Disposed(p, v, how) \in Token!SignalStates(Token!Sigs)
           /\ Token!Disposed(p, v, how).disp = [p.disp EXCEPT ![v] = how]
           /\ Token!Disposed(p, v, how).blocked = p.blocked
           /\ Token!Disposed(p, v, how).pending \subseteq p.pending
BY DEF Token!Disposed, Token!SignalStates

\* sigprocmask().
LEMMA TkBlocked ==
    ASSUME NEW p \in Token!SignalStates(Token!Sigs), NEW w \in SUBSET Token!Sigs
    PROVE  /\ Token!Blocked(p, w) \in Token!SignalStates(Token!Sigs)
           /\ Token!Blocked(p, w).disp = p.disp /\ Token!Blocked(p, w).pending = p.pending
           /\ Token!Blocked(p, w).blocked = p.blocked \cup w
BY DEF Token!Blocked, Token!SignalStates

\* fork().
LEMMA TkForked ==
    ASSUME NEW p \in Token!SignalStates(Token!Sigs)
    PROVE  /\ Token!Forked(p) \in Token!SignalStates(Token!Sigs)
           /\ Token!Forked(p).disp = p.disp /\ Token!Forked(p).pending = {}
BY DEF Token!Forked, Token!SignalStates

\* A signal is taken.
LEMMA TkTaken ==
    ASSUME NEW p \in Token!SignalStates(Token!Sigs), NEW v \in Token!Sigs
    PROVE  /\ Token!Taken(p, v) \in Token!SignalStates(Token!Sigs)
           /\ Token!Taken(p, v).disp = p.disp
           /\ Token!Taken(p, v).blocked = p.blocked
           /\ Token!Taken(p, v).pending = p.pending \ {v}
BY DEF Token!Taken, Token!SignalStates

\* The steps of the program.
LEMMA TkCases ==
    ASSUME Token!Next
    PROVE  \/ Token!Kick \/ Token!Block \/ Token!Halt \/ Token!Pass \/ Token!Stop \/ Token!Reap
           \/ Token!Struck(Parent) \/ Token!ForkFails \/ Token!SendUsr1
           \/ Token!SendInt({Parent}) \/ Token!SendInt(Token!Procs)
           \/ \E v \in Token!Sigs : Token!Wait(v)
           \/ \E c \in Token!Children :
                  \/ Token!Fork(c) \/ Token!Install(c) \/ Token!Work(c) \/ Token!Rest(c)
                  \/ Token!Quit(c) \/ Token!QuitFails(c) \/ Token!Struck(c)
                  \/ \E v \in Token!Sigs : Token!Interrupted(c, v)
BY DEF Token!Next, Token!ParentStep, Token!ChildStep

\* The parent is no child.
LEMMA TkProcs ==
    /\ Parent \notin Token!Children
    /\ Parent \in Token!Procs
    /\ Token!Children \subseteq Token!Procs
BY YoungAssumption DEF Token!Procs, Token!Children

\* The children have numbers, and the work goes round.
LEMMA TkNumbers ==
    /\ 0 \in Token!Children
    /\ \A c \in Token!Children : Token!NextChild(c) \in Token!Children
    /\ \A k \in 0 .. MaxPasses : k < MaxPasses => k + 1 \in 0 .. MaxPasses
    /\ \A k \in 0 .. MaxFaults : k < MaxFaults => k + 1 \in 0 .. MaxFaults
BY YoungAssumption, SignalsAssumption DEF Token!Children, Token!NextChild

\* A step that changes the signals of one process to q.
LEMMA TkOne ==
    ASSUME Token!TypeOK, NEW p \in Token!Procs, NEW q \in Token!SignalStates(Token!Sigs),
           sig' = [sig EXCEPT ![p] = q]
    PROVE  /\ sig' \in [Token!Procs -> Token!SignalStates(Token!Sigs)]
           /\ sig'[p] = q /\ \A r \in Token!Procs : r # p => sig'[r] = sig[r]
BY DEF Token!TypeOK

\* What is due stays so when neither the signals nor the handlers change.
LEMMA TkSameDue ==
    ASSUME NEW c, sig'[c].pending = sig[c].pending, inside'[c] = inside[c]
    PROVE  Token!Due(c)' = Token!Due(c)
BY DEF Token!Due

\* The handlers a child is in: one more, or one less.
LEMMA TkPushed ==
    ASSUME NEW q \in Seq(Token!Sigs), NEW v \in Token!Sigs
    PROVE  /\ <<v>> \o q \in Seq(Token!Sigs)
           /\ {(<<v>> \o q)[j] : j \in DOMAIN (<<v>> \o q)} = {v} \cup {q[j] : j \in DOMAIN q}
<1> DEFINE r == <<v>> \o q
<1>1. /\ r \in Seq(Token!Sigs) /\ Len(r) = Len(q) + 1 /\ Len(q) \in Nat
      /\ DOMAIN q = 1 .. Len(q) /\ DOMAIN r = 1 .. Len(r)
      /\ r[1] = v /\ \A j \in 1 .. Len(q) : r[j + 1] = q[j]
  OBVIOUS
<1> HIDE DEF r
<1>2. ASSUME NEW j \in DOMAIN r PROVE r[j] \in {v} \cup {q[k] : k \in DOMAIN q}
  <2>1. CASE j = 1
    BY <1>1, <2>1
  <2>2. CASE j # 1
    <3>1. j - 1 \in 1 .. Len(q) /\ r[(j - 1) + 1] = q[j - 1] /\ (j - 1) + 1 = j
      BY <1>1, <2>2
    <3> QED  BY <1>1, <3>1
  <2> QED  BY <2>1, <2>2
<1>3. ASSUME NEW k \in DOMAIN q PROVE q[k] \in {r[j] : j \in DOMAIN r}
  <2>1. k + 1 \in DOMAIN r /\ r[k + 1] = q[k]
    BY <1>1
  <2> QED  BY <2>1
<1>4. v \in {r[j] : j \in DOMAIN r}
  BY <1>1
<1>5. {r[j] : j \in DOMAIN r} = {v} \cup {q[j] : j \in DOMAIN q}
  BY <1>2, <1>3, <1>4
<1> QED  BY <1>1, <1>5 DEF r

LEMMA TkPopped ==
    ASSUME NEW q \in Seq(Token!Sigs), q # <<>>
    PROVE  /\ Tail(q) \in Seq(Token!Sigs)
           /\ Head(q) \in {q[j] : j \in DOMAIN q}
           /\ {Tail(q)[j] : j \in DOMAIN Tail(q)} \subseteq {q[j] : j \in DOMAIN q}
           /\ {q[j] : j \in DOMAIN q} \subseteq
                  {Head(q)} \cup {Tail(q)[j] : j \in DOMAIN Tail(q)}
<1> DEFINE t == Tail(q)
<1>1. /\ t \in Seq(Token!Sigs) /\ Len(t) = Len(q) - 1 /\ Len(q) \in Nat /\ Len(q) > 0
      /\ DOMAIN q = 1 .. Len(q) /\ DOMAIN t = 1 .. Len(t)
      /\ Head(q) = q[1] /\ \A j \in 1 .. Len(t) : t[j] = q[j + 1]
  OBVIOUS
<1> HIDE DEF t
<1>2. ASSUME NEW j \in DOMAIN t PROVE t[j] \in {q[k] : k \in DOMAIN q}
  <2>1. j + 1 \in DOMAIN q /\ q[j + 1] = t[j]
    BY <1>1
  <2> QED  BY <2>1
<1>3. ASSUME NEW k \in DOMAIN q PROVE q[k] \in {Head(q)} \cup {t[j] : j \in DOMAIN t}
  <2>1. CASE k = 1
    BY <1>1, <2>1
  <2>2. CASE k # 1
    <3>1. k - 1 \in 1 .. Len(t) /\ t[k - 1] = q[(k - 1) + 1] /\ (k - 1) + 1 = k
      BY <1>1, <2>2
    <3> QED  BY <1>1, <3>1
  <2> QED  BY <2>1, <2>2
<1>4. Head(q) \in {q[j] : j \in DOMAIN q}
  BY <1>1
<1>5. /\ {t[j] : j \in DOMAIN t} \subseteq {q[j] : j \in DOMAIN q}
      /\ {q[j] : j \in DOMAIN q} \subseteq {Head(q)} \cup {t[j] : j \in DOMAIN t}
  BY <1>2, <1>3
<1> QED  BY <1>1, <1>4, <1>5 DEF t

\* A handler returns: what it was for may be due no longer, everything else is.
LEMMA TkReturns ==
    ASSUME Token!TypeOK, NEW c \in Token!Children, NEW v \in Token!Sigs,
           Token!Innermost(c, v), Token!Returns(c), UNCHANGED sig
    PROVE  /\ inside' \in [Token!Children -> Seq(Token!Sigs)]
           /\ v \in Token!Due(c)
           /\ Token!Due(c)' \subseteq Token!Due(c)
           /\ Token!Due(c) \ {v} \subseteq Token!Due(c)'
           /\ \A d \in Token!Children : d # c => inside'[d] = inside[d]
<1> DEFINE q == inside[c]
<1>1. /\ q \in Seq(Token!Sigs) /\ q # <<>> /\ Head(q) = v
      /\ inside' = [inside EXCEPT ![c] = Tail(q)] /\ inside'[c] = Tail(q)
  BY DEF Token!TypeOK, Token!Innermost, Token!Returns
<1>2. /\ Tail(q) \in Seq(Token!Sigs)
      /\ v \in {q[j] : j \in DOMAIN q}
      /\ {Tail(q)[j] : j \in DOMAIN Tail(q)} \subseteq {q[j] : j \in DOMAIN q}
      /\ {q[j] : j \in DOMAIN q} \subseteq {v} \cup {Tail(q)[j] : j \in DOMAIN Tail(q)}
  BY <1>1, TkPopped
<1>3. inside' \in [Token!Children -> Seq(Token!Sigs)]
  BY <1>1, <1>2 DEF Token!TypeOK
<1>4. \A d \in Token!Children : d # c => inside'[d] = inside[d]
  BY <1>1 DEF Token!TypeOK
<1>5. /\ Token!Due(c) = sig[c].pending \cup {q[j] : j \in DOMAIN q}
      /\ Token!Due(c)' = sig[c].pending \cup {Tail(q)[j] : j \in DOMAIN Tail(q)}
  BY <1>1 DEF Token!Due
<1> HIDE DEF q
<1> QED  BY <1>2, <1>3, <1>4, <1>5

\* kill() of one child.
LEMMA TkKills ==
    ASSUME Token!TypeOK, TkHeeds, NEW c \in Token!Children,
           NEW v \in {"SIGUSR1", "SIGUSR2"}, Token!Kills(c, v)
    PROVE  /\ sig' \in [Token!Procs -> Token!SignalStates(Token!Sigs)] /\ crossed' \in BOOLEAN
           /\ TkHeeds' /\ inside' = inside
           /\ \A p \in Token!Procs : p # c => sig'[p] = sig[p]
           /\ Token!Child(c) => Token!Due(c)' = Token!Due(c) \cup {v}
           /\ ~crossed' => /\ ~crossed
                           /\ Token!Child(c) => ~({"SIGUSR1", "SIGUSR2"} \subseteq Token!Due(c)')
<1> DEFINE q == IF Token!Child(c) THEN Token!Sent(sig[c], v) ELSE sig[c]
<1>1. /\ c \in Token!Procs
      /\ v \in Token!Sigs
      /\ sig[c] \in Token!SignalStates(Token!Sigs)
      /\ sig[c].disp[v] # "ignore"
  BY TkProcs DEF Token!TypeOK, Token!Sigs, TkHeeds
<1>2. q \in Token!SignalStates(Token!Sigs) /\ q.disp = sig[c].disp
  BY <1>1, TkSent
<1>3. Token!Child(c) => q.pending = sig[c].pending \cup {v}
  BY <1>1 DEF Token!Sent, Token!SignalStates
<1>4. sig' = [sig EXCEPT ![c] = q]
  BY <1>1 DEF Token!Kills, Token!TypeOK
<1>5. /\ crossed' = (crossed \/ (/\ Token!Child(c)
                                 /\ {"SIGUSR1", "SIGUSR2"} \subseteq Token!Due(c) \cup {v}))
      /\ inside' = inside
  BY DEF Token!Kills
<1> HIDE DEF q
<1>6. /\ sig' \in [Token!Procs -> Token!SignalStates(Token!Sigs)]
      /\ sig'[c] = q /\ \A p \in Token!Procs : p # c => sig'[p] = sig[p]
  BY <1>1, <1>2, <1>4, TkOne
<1>7. TkHeeds'
  BY <1>2, <1>6 DEF TkHeeds
<1>8. crossed' \in BOOLEAN
  BY <1>5 DEF Token!TypeOK
<1>9. ASSUME Token!Child(c) PROVE Token!Due(c)' = Token!Due(c) \cup {v}
  <2>1. sig'[c].pending = sig[c].pending \cup {v}
    BY <1>3, <1>6, <1>9
  <2> QED  BY <1>5, <2>1 DEF Token!Due
<1>10. ~crossed' => /\ ~crossed
                    /\ Token!Child(c) => ~({"SIGUSR1", "SIGUSR2"} \subseteq Token!Due(c)')
  BY <1>5, <1>9
<1> QED  BY <1>5, <1>6, <1>7, <1>8, <1>9, <1>10

\* A signal that concerns no work.
LEMMA TkSends ==
    ASSUME Token!TypeOK, TkHeeds, NEW v \in Token!Sigs, NEW to,
           sig' = [p \in Token!Procs |-> IF p \in to THEN Token!Sent(sig[p], v) ELSE sig[p]]
    PROVE  /\ sig' \in [Token!Procs -> Token!SignalStates(Token!Sigs)] /\ TkHeeds'
           /\ \A p \in Token!Procs : p \notin to => sig'[p] = sig[p]
           /\ v = "SIGINT" => \A p \in Token!Procs :
                 /\ "SIGUSR1" \in sig'[p].pending <=> "SIGUSR1" \in sig[p].pending
                 /\ "SIGUSR2" \in sig'[p].pending <=> "SIGUSR2" \in sig[p].pending
<1> DEFINE q(p) == Token!Sent(sig[p], v)
<1>1. ASSUME NEW p \in Token!Procs
      PROVE  /\ q(p) \in Token!SignalStates(Token!Sigs) /\ q(p).disp = sig[p].disp
             /\ q(p).pending \in {sig[p].pending, sig[p].pending \cup {v}}
  BY <1>1, TkSent DEF Token!TypeOK
<1> HIDE DEF q
<1>2. sig' = [p \in Token!Procs |-> IF p \in to THEN q(p) ELSE sig[p]]
  BY DEF q
<1>3. \A p \in Token!Procs : sig[p] \in Token!SignalStates(Token!Sigs)
  BY DEF Token!TypeOK
<1>4. sig' \in [Token!Procs -> Token!SignalStates(Token!Sigs)]
  BY <1>1, <1>2, <1>3
<1>5. TkHeeds'
  BY <1>1, <1>2 DEF TkHeeds
<1>6. \A p \in Token!Procs : p \notin to => sig'[p] = sig[p]
  BY <1>2
<1>7. ASSUME v = "SIGINT", NEW p \in Token!Procs
      PROVE  /\ "SIGUSR1" \in sig'[p].pending <=> "SIGUSR1" \in sig[p].pending
             /\ "SIGUSR2" \in sig'[p].pending <=> "SIGUSR2" \in sig[p].pending
  BY <1>1, <1>2, <1>7
<1> QED  BY <1>4, <1>5, <1>6, <1>7

\* SIGINT to the children, from the parent.
LEMMA TkStopEffect ==
    ASSUME Token!TypeOK, TkHeeds, Token!Stop
    PROVE  /\ sig' \in [Token!Procs -> Token!SignalStates(Token!Sigs)] /\ TkHeeds'
<1>1. sig' = [p \in Token!Procs |-> IF p \in {r \in Token!Procs : r # Parent /\ Token!Child(r)}
                 THEN Token!Sent(sig[p], "SIGINT") ELSE sig[p]]
  BY DEF Token!Stop
<1>2. "SIGINT" \in Token!Sigs
  BY DEF Token!Sigs
<1> QED  BY <1>1, <1>2, TkSends

\* Control-C.
LEMMA TkIntEffect ==
    ASSUME Token!TypeOK, TkHeeds, NEW to \in {{Parent}, Token!Procs}, Token!SendInt(to)
    PROVE  /\ sig' \in [Token!Procs -> Token!SignalStates(Token!Sigs)] /\ TkHeeds'
           /\ \A p \in Token!Procs :
                 /\ "SIGUSR1" \in sig'[p].pending <=> "SIGUSR1" \in sig[p].pending
                 /\ "SIGUSR2" \in sig'[p].pending <=> "SIGUSR2" \in sig[p].pending
<1>1. sig' = [p \in Token!Procs |->
                 IF p \in {r \in Token!Procs : r \in to /\ (r = Parent \/ Token!Child(r))}
                 THEN Token!Sent(sig[p], "SIGINT") ELSE sig[p]]
  BY DEF Token!SendInt
<1>2. "SIGINT" \in Token!Sigs
  BY DEF Token!Sigs
<1> QED  BY <1>1, <1>2, TkSends

\* SIGUSR1 to the parent.
LEMMA TkUsr1Effect ==
    ASSUME Token!TypeOK, TkHeeds, Token!SendUsr1
    PROVE  /\ sig' \in [Token!Procs -> Token!SignalStates(Token!Sigs)] /\ TkHeeds'
           /\ \A c \in Token!Children : sig'[c] = sig[c]
<1>1. sig' = [p \in Token!Procs |->
                 IF p \in {Parent} THEN Token!Sent(sig[p], "SIGUSR1") ELSE sig[p]]
  BY TkProcs DEF Token!SendUsr1, Token!TypeOK
<1>2. "SIGUSR1" \in Token!Sigs
  BY DEF Token!Sigs
<1> QED  BY <1>1, <1>2, TkSends, TkProcs

\* A child starts with no signal waiting for it, and the parent's dispositions.
LEMMA TkForkEffect ==
    ASSUME Token!TypeOK, TkHeeds, NEW c \in Token!Children, Token!Fork(c)
    PROVE  /\ sig' \in [Token!Procs -> Token!SignalStates(Token!Sigs)] /\ TkHeeds'
           /\ sig'[c].pending = {}
           /\ \A p \in Token!Procs : p # c => sig'[p] = sig[p]
<1> DEFINE q == Token!Forked(sig[Parent])
<1>1. q \in Token!SignalStates(Token!Sigs) /\ q.pending = {} /\ q.disp = sig[Parent].disp
  BY TkProcs, TkForked DEF Token!TypeOK
<1>2. sig' = [sig EXCEPT ![c] = q] /\ c \in Token!Procs
  BY TkProcs DEF Token!Fork
<1> HIDE DEF q
<1>3. /\ sig' \in [Token!Procs -> Token!SignalStates(Token!Sigs)]
      /\ sig'[c] = q /\ \A p \in Token!Procs : p # c => sig'[p] = sig[p]
  BY <1>1, <1>2, TkOne
<1> QED  BY <1>1, <1>3, TkProcs DEF TkHeeds

\* A process takes a signal.
LEMMA TkTakes ==
    ASSUME Token!TypeOK, TkHeeds, NEW p \in Token!Procs, NEW v \in Token!Sigs,
           sig' = [sig EXCEPT ![p] = Token!Taken(@, v)]
    PROVE  /\ sig' \in [Token!Procs -> Token!SignalStates(Token!Sigs)] /\ TkHeeds'
           /\ sig'[p].pending = sig[p].pending \ {v}
           /\ \A r \in Token!Procs : r # p => sig'[r] = sig[r]
<1> DEFINE q == Token!Taken(sig[p], v)
<1>1. /\ q \in Token!SignalStates(Token!Sigs)
      /\ q.pending = sig[p].pending \ {v}
      /\ q.disp = sig[p].disp
  BY TkTaken DEF Token!TypeOK
<1>2. sig' = [sig EXCEPT ![p] = q]
  BY DEF Token!TypeOK
<1> HIDE DEF q
<1>3. /\ sig' \in [Token!Procs -> Token!SignalStates(Token!Sigs)]
      /\ sig'[p] = q /\ \A r \in Token!Procs : r # p => sig'[r] = sig[r]
  BY <1>1, <1>2, TkOne
<1> QED  BY <1>1, <1>3 DEF TkHeeds

\* A handler begins: what was waiting is still due.
LEMMA TkInterruptedEffect ==
    ASSUME Token!TypeOK, TkHeeds, NEW c \in Token!Children, NEW v \in Token!Sigs,
           Token!Interrupted(c, v)
    PROVE  /\ sig' \in [Token!Procs -> Token!SignalStates(Token!Sigs)] /\ TkHeeds'
           /\ inside' \in [Token!Children -> Seq(Token!Sigs)]
           /\ Token!Due(c)' = Token!Due(c)
           /\ \A d \in Token!Children : d # c => sig'[d] = sig[d] /\ inside'[d] = inside[d]
<1> DEFINE q == inside[c]
<1>1. /\ q \in Seq(Token!Sigs) /\ inside' = [inside EXCEPT ![c] = <<v>> \o q]
      /\ inside'[c] = <<v>> \o q
  BY DEF Token!TypeOK, Token!Interrupted
<1>2. /\ <<v>> \o q \in Seq(Token!Sigs)
      /\ {(<<v>> \o q)[j] : j \in DOMAIN (<<v>> \o q)} = {v} \cup {q[j] : j \in DOMAIN q}
  BY <1>1, TkPushed
<1>3. /\ sig' \in [Token!Procs -> Token!SignalStates(Token!Sigs)] /\ TkHeeds'
      /\ sig'[c].pending = sig[c].pending \ {v}
      /\ \A r \in Token!Procs : r # c => sig'[r] = sig[r]
  BY TkProcs, TkTakes DEF Token!Interrupted
<1>4. v \in sig[c].pending
  BY DEF Token!Interrupted, Token!Handled, Token!Deliverable
<1>5. /\ Token!Due(c) = sig[c].pending \cup {q[j] : j \in DOMAIN q}
      /\ Token!Due(c)' = sig'[c].pending \cup {(<<v>> \o q)[j] : j \in DOMAIN (<<v>> \o q)}
  BY <1>1 DEF Token!Due
<1>6. Token!Due(c)' = Token!Due(c)
  BY <1>2, <1>3, <1>4, <1>5
<1>7. inside' \in [Token!Children -> Seq(Token!Sigs)]
  BY <1>1, <1>2 DEF Token!TypeOK
<1>8. \A d \in Token!Children : d # c => inside'[d] = inside[d]
  BY <1>1 DEF Token!TypeOK
<1> QED  BY <1>3, <1>6, <1>7, <1>8, TkProcs

\* A child is gone, and nothing waits for it.
LEMMA TkDies ==
    ASSUME Token!TypeOK, TkHeeds, NEW c \in Token!Children, Token!Dies(c)
    PROVE  /\ sig' \in [Token!Procs -> Token!SignalStates(Token!Sigs)] /\ TkHeeds'
           /\ inside' \in [Token!Children -> Seq(Token!Sigs)] /\ inside'[c] = <<>>
           /\ cpc' = [cpc EXCEPT ![c] = "gone"] /\ czy_dzialam' = czy_dzialam \ {c}
           /\ \A d \in Token!Children : d # c => sig'[d] = sig[d] /\ inside'[d] = inside[d]
<1> DEFINE q == [sig[c] EXCEPT !.pending = {}]
<1>1. c \in Token!Procs /\ sig[c] \in Token!SignalStates(Token!Sigs)
  BY TkProcs DEF Token!TypeOK
<1>2. q \in Token!SignalStates(Token!Sigs) /\ q.disp = sig[c].disp
  BY <1>1 DEF Token!SignalStates
<1>3. sig' = [sig EXCEPT ![c] = q]
  BY DEF Token!Dies
<1> HIDE DEF q
<1>4. /\ sig' \in [Token!Procs -> Token!SignalStates(Token!Sigs)]
      /\ sig'[c] = q /\ \A p \in Token!Procs : p # c => sig'[p] = sig[p]
  BY <1>1, <1>2, <1>3, TkOne
<1>5. TkHeeds'
  BY <1>2, <1>4 DEF TkHeeds
<1>6. /\ inside' = [inside EXCEPT ![c] = <<>>]
      /\ cpc' = [cpc EXCEPT ![c] = "gone"] /\ czy_dzialam' = czy_dzialam \ {c}
  BY DEF Token!Dies, Token!Goto
<1>7. <<>> \in Seq(Token!Sigs)
  OBVIOUS
<1>8. /\ inside' \in [Token!Children -> Seq(Token!Sigs)] /\ inside'[c] = <<>>
      /\ \A d \in Token!Children : d # c => inside'[d] = inside[d]
  BY <1>6, <1>7 DEF Token!TypeOK
<1> QED  BY <1>4, <1>5, <1>6, <1>8, TkProcs

\* The parent blocks its signals.
LEMMA TkBlockEffect ==
    ASSUME Token!TypeOK, TkHeeds, Token!Block
    PROVE  /\ sig' \in [Token!Procs -> Token!SignalStates(Token!Sigs)] /\ TkHeeds'
           /\ \A c \in Token!Children : sig'[c] = sig[c]
<1> DEFINE q == Token!Blocked(sig[Parent], Token!Sigs)
<1>1. q \in Token!SignalStates(Token!Sigs) /\ q.disp = sig[Parent].disp
  BY TkProcs, TkBlocked DEF Token!TypeOK
<1>2. sig' = [sig EXCEPT ![Parent] = q] /\ Parent \in Token!Procs
  BY TkProcs DEF Token!Block
<1> HIDE DEF q
<1>3. /\ sig' \in [Token!Procs -> Token!SignalStates(Token!Sigs)]
      /\ sig'[Parent] = q /\ \A p \in Token!Procs : p # Parent => sig'[p] = sig[p]
  BY <1>1, <1>2, TkOne
<1> QED  BY <1>1, <1>3, TkProcs DEF TkHeeds

\* A child installs a handler.
LEMMA TkInstallEffect ==
    ASSUME Token!TypeOK, TkHeeds, NEW c \in Token!Children, Token!Install(c)
    PROVE  /\ sig' \in [Token!Procs -> Token!SignalStates(Token!Sigs)] /\ TkHeeds'
           /\ sig'[c].pending = sig[c].pending
           /\ \A p \in Token!Procs : p # c => sig'[p] = sig[p]
           /\ cpc[c] \in {"usr1", "usr2", "int"}
           /\ \E place \in {"usr2", "int", "loop"} : cpc' = [cpc EXCEPT ![c] = place]
<1>1. PICK v \in Token!Sigs, place \in {"usr2", "int", "loop"} :
        /\ cpc[c] \in {"usr1", "usr2", "int"} /\ cpc' = [cpc EXCEPT ![c] = place]
        /\ sig' = [sig EXCEPT ![c] = Token!Disposed(@, v, "handler")]
  <2>1. DOMAIN Token!Order = {"usr1", "usr2", "int"}
    BY DEF Token!Order
  <2>2. /\ Token!Order["usr1"][1] = "SIGUSR1" /\ Token!Order["usr1"][2] = "usr2"
        /\ Token!Order["usr2"][1] = "SIGUSR2" /\ Token!Order["usr2"][2] = "int"
        /\ Token!Order["int"][1] = "SIGINT" /\ Token!Order["int"][2] = "loop"
    BY DEF Token!Order
  <2>3. /\ Token!Order[cpc[c]][1] \in Token!Sigs
        /\ Token!Order[cpc[c]][2] \in {"usr2", "int", "loop"}
    BY <2>1, <2>2 DEF Token!Install, Token!Sigs
  <2> QED  BY <2>1, <2>3 DEF Token!Install, Token!Goto
<1> DEFINE q == Token!Disposed(sig[c], v, "handler")
<1>2. c \in Token!Procs /\ sig[c] \in Token!SignalStates(Token!Sigs)
  BY TkProcs DEF Token!TypeOK
<1>3. q \in Token!SignalStates(Token!Sigs) /\ q.disp = [sig[c].disp EXCEPT ![v] = "handler"]
  BY <1>2, TkDisposed
<1>4. q.pending = sig[c].pending
  BY <1>2 DEF Token!Disposed, Token!SignalStates
<1>5. sig' = [sig EXCEPT ![c] = q]
  BY <1>1, <1>2 DEF Token!TypeOK
<1> HIDE DEF q
<1>6. /\ sig' \in [Token!Procs -> Token!SignalStates(Token!Sigs)]
      /\ sig'[c] = q /\ \A p \in Token!Procs : p # c => sig'[p] = sig[p]
  BY <1>2, <1>3, <1>5, TkOne
<1>7. \A u \in Token!Sigs : q.disp[u] # "ignore"
  BY <1>2, <1>3 DEF TkHeeds, Token!SignalStates
<1>8. TkHeeds'
  BY <1>6, <1>7 DEF TkHeeds
<1> QED  BY <1>1, <1>4, <1>6, <1>8

\* The types are preserved.
LEMMA TkType ==
    ASSUME Token!TypeOK, TkHeeds, [Token!Next]_(Token!vars)
    PROVE  Token!TypeOK'
<1> USE TkProcs, TkNumbers DEF Token!TypeOK, Token!Goto
<1>1. ASSUME Token!Kick PROVE Token!TypeOK'
  <2>1. /\ sig' \in [Token!Procs -> Token!SignalStates(Token!Sigs)] /\ crossed' \in BOOLEAN
        /\ inside' = inside
    BY <1>1, TkKills DEF Token!Kick
  <2> QED  BY <1>1, <2>1 DEF Token!Kick
<1>2. ASSUME Token!Block PROVE Token!TypeOK'
  BY <1>2, TkBlockEffect DEF Token!Block
<1>3. ASSUME Token!Halt PROVE Token!TypeOK'
  <2>1. /\ sig' \in [Token!Procs -> Token!SignalStates(Token!Sigs)] /\ crossed' \in BOOLEAN
        /\ inside' = inside
    BY <1>3, TkKills DEF Token!Halt
  <2> QED  BY <1>3, <2>1 DEF Token!Halt
<1>4. ASSUME Token!Pass PROVE Token!TypeOK'
  <2>1. pracujace' \in Token!Children /\ Token!Kills(pracujace', "SIGUSR1")
    BY <1>4 DEF Token!Pass
  <2>2. /\ sig' \in [Token!Procs -> Token!SignalStates(Token!Sigs)] /\ crossed' \in BOOLEAN
        /\ inside' = inside
    BY <2>1, TkKills
  <2> QED  BY <1>4, <2>1, <2>2 DEF Token!Pass
<1>5. ASSUME Token!Stop PROVE Token!TypeOK'
  BY <1>5, TkStopEffect DEF Token!Stop
<1>6. ASSUME Token!Reap PROVE Token!TypeOK'
  BY <1>6 DEF Token!Reap
<1>7. ASSUME Token!Struck(Parent) PROVE Token!TypeOK'
  BY <1>7 DEF Token!Struck
<1>8. ASSUME Token!ForkFails PROVE Token!TypeOK'
  BY <1>8 DEF Token!ForkFails
<1>9. ASSUME Token!SendUsr1 PROVE Token!TypeOK'
  BY <1>9, TkUsr1Effect DEF Token!SendUsr1
<1>10. ASSUME NEW to \in {{Parent}, Token!Procs}, Token!SendInt(to) PROVE Token!TypeOK'
  BY <1>10, TkIntEffect DEF Token!SendInt
<1>11. ASSUME NEW v \in Token!Sigs, Token!Wait(v) PROVE Token!TypeOK'
  <2>1. sig' \in [Token!Procs -> Token!SignalStates(Token!Sigs)]
    BY <1>11, TkTakes DEF Token!Wait
  <2>2. mainpc' \in {"stop", "halt", "wait"}
    BY <1>11 DEF Token!Wait
  <2> QED  BY <1>11, <2>1, <2>2 DEF Token!Wait
<1>12. ASSUME NEW c \in Token!Children, Token!Fork(c) PROVE Token!TypeOK'
  BY <1>12, TkForkEffect DEF Token!Fork
<1>13. ASSUME NEW c \in Token!Children, Token!Install(c) PROVE Token!TypeOK'
  <2>1. PICK place \in {"usr2", "int", "loop"} : cpc' = [cpc EXCEPT ![c] = place]
    BY <1>13, TkInstallEffect
  <2>2. sig' \in [Token!Procs -> Token!SignalStates(Token!Sigs)]
    BY <1>13, TkInstallEffect
  <2> QED  BY <1>13, <2>1, <2>2 DEF Token!Install
<1>14. ASSUME NEW c \in Token!Children, Token!Work(c) PROVE Token!TypeOK'
  <2>1. inside' \in [Token!Children -> Seq(Token!Sigs)]
    BY <1>14, TkReturns DEF Token!Work, Token!Sigs
  <2> QED  BY <1>14, <2>1 DEF Token!Work
<1>15. ASSUME NEW c \in Token!Children, Token!Rest(c) PROVE Token!TypeOK'
  <2>1. inside' \in [Token!Children -> Seq(Token!Sigs)]
    BY <1>15, TkReturns DEF Token!Rest, Token!Sigs
  <2> QED  BY <1>15, <2>1 DEF Token!Rest
<1>16. ASSUME NEW c \in Token!Children, Token!Dies(c), mainpc' = mainpc,
              UNCHANGED <<pracujace, crossed, passes, faults>>
       PROVE  Token!TypeOK'
  BY <1>16, TkDies
<1>17. ASSUME NEW c \in Token!Children, Token!QuitFails(c) PROVE Token!TypeOK'
  <2>1. inside' \in [Token!Children -> Seq(Token!Sigs)]
    BY <1>17, TkReturns DEF Token!QuitFails, Token!Sigs
  <2> QED  BY <1>17, <2>1 DEF Token!QuitFails
<1>18. ASSUME NEW c \in Token!Children, Token!Quit(c) \/ Token!Struck(c) PROVE Token!TypeOK'
  BY <1>16, <1>18 DEF Token!Quit, Token!Struck
<1>20. ASSUME NEW c \in Token!Children, NEW v \in Token!Sigs, Token!Interrupted(c, v)
       PROVE  Token!TypeOK'
  <2>1. /\ sig' \in [Token!Procs -> Token!SignalStates(Token!Sigs)]
        /\ inside' \in [Token!Children -> Seq(Token!Sigs)]
    BY <1>20, TkInterruptedEffect
  <2> QED  BY <1>20, <2>1 DEF Token!Interrupted
<1>19. CASE UNCHANGED Token!vars
  BY <1>19 DEF Token!vars
<1> QED
  BY <1>1, <1>2, <1>3, <1>4, <1>5, <1>6, <1>7, <1>8, <1>9, <1>10, <1>11, <1>12, <1>13, <1>14,
        <1>15, <1>17, <1>18, <1>19, <1>20, TkCases

\* Nobody comes to ignore a signal.
LEMMA TkHeedsStep ==
    ASSUME Token!TypeOK, TkHeeds, [Token!Next]_(Token!vars)
    PROVE  TkHeeds'
<1> USE TkProcs, TkNumbers
<1>1. ASSUME Token!Kick PROVE TkHeeds'
  BY <1>1, TkKills DEF Token!Kick
<1>2. ASSUME Token!Block PROVE TkHeeds'
  BY <1>2, TkBlockEffect
<1>3. ASSUME Token!Halt PROVE TkHeeds'
  <2>1. pracujace \in Token!Children
    BY DEF Token!TypeOK
  <2> QED  BY <1>3, <2>1, TkKills DEF Token!Halt
<1>4. ASSUME Token!Pass PROVE TkHeeds'
  <2>1. pracujace' \in Token!Children /\ Token!Kills(pracujace', "SIGUSR1")
    BY <1>4 DEF Token!Pass, Token!TypeOK
  <2> QED  BY <2>1, TkKills
<1>5. ASSUME Token!Stop PROVE TkHeeds'
  BY <1>5, TkStopEffect
<1>6. ASSUME Token!Reap PROVE TkHeeds'
  BY <1>6 DEF Token!Reap, TkHeeds
<1>7. ASSUME Token!Struck(Parent) PROVE TkHeeds'
  BY <1>7 DEF Token!Struck, TkHeeds
<1>8. ASSUME Token!ForkFails PROVE TkHeeds'
  BY <1>8 DEF Token!ForkFails, TkHeeds
<1>9. ASSUME Token!SendUsr1 PROVE TkHeeds'
  BY <1>9, TkUsr1Effect
<1>10. ASSUME NEW to \in {{Parent}, Token!Procs}, Token!SendInt(to) PROVE TkHeeds'
  BY <1>10, TkIntEffect
<1>11. ASSUME NEW v \in Token!Sigs, Token!Wait(v) PROVE TkHeeds'
  BY <1>11, TkTakes DEF Token!Wait
<1>12. ASSUME NEW c \in Token!Children, Token!Fork(c) PROVE TkHeeds'
  BY <1>12, TkForkEffect
<1>13. ASSUME NEW c \in Token!Children, Token!Install(c) PROVE TkHeeds'
  BY <1>13, TkInstallEffect
<1>14. ASSUME NEW c \in Token!Children, Token!Work(c) \/ Token!Rest(c) \/ Token!QuitFails(c)
       PROVE  TkHeeds'
  BY <1>14 DEF Token!Work, Token!Rest, Token!QuitFails, TkHeeds
<1>15. ASSUME NEW c \in Token!Children, Token!Quit(c) \/ Token!Struck(c) PROVE TkHeeds'
  BY <1>15, TkDies DEF Token!Quit, Token!Struck
<1>16. ASSUME NEW c \in Token!Children, NEW v \in Token!Sigs, Token!Interrupted(c, v)
       PROVE  TkHeeds'
  BY <1>16, TkInterruptedEffect
<1>19. CASE UNCHANGED Token!vars
  BY <1>19 DEF Token!vars, TkHeeds
<1> QED
  BY <1>1, <1>2, <1>3, <1>4, <1>5, <1>6, <1>7, <1>8, <1>9, <1>10, <1>11, <1>12, <1>13, <1>14,
        <1>15, <1>16, <1>19, TkCases

\* The first child stays the first, and who works lives.
LEMMA TkFirstStep ==
    ASSUME Token!TypeOK, TkHeeds, TkFirst, [Token!Next]_(Token!vars)
    PROVE  TkFirst'
<1> USE TkProcs DEF TkFirst, Token!Child, Token!Goto
<1>1. ASSUME Token!Kick PROVE TkFirst'
  BY <1>1 DEF Token!Kick, Token!Kills
<1>2. ASSUME Token!Block PROVE TkFirst'
  BY <1>2 DEF Token!Block
<1>3. ASSUME Token!Halt PROVE TkFirst'
  BY <1>3 DEF Token!Halt, Token!Kills
<1>4. ASSUME Token!Pass PROVE TkFirst'
  BY <1>4 DEF Token!Pass, Token!Kills
<1>5. ASSUME Token!Stop PROVE TkFirst'
  BY <1>5 DEF Token!Stop
<1>6. ASSUME Token!Reap PROVE TkFirst'
  BY <1>6 DEF Token!Reap
<1>7. ASSUME Token!Struck(Parent) PROVE TkFirst'
  BY <1>7 DEF Token!Struck, Token!TypeOK
<1>8. ASSUME Token!ForkFails PROVE TkFirst'
  BY <1>8 DEF Token!ForkFails
<1>9. ASSUME Token!SendUsr1 PROVE TkFirst'
  BY <1>9 DEF Token!SendUsr1
<1>10. ASSUME NEW to \in {{Parent}, Token!Procs}, Token!SendInt(to) PROVE TkFirst'
  BY <1>10 DEF Token!SendInt
<1>11. ASSUME NEW v \in Token!Sigs, Token!Wait(v) PROVE TkFirst'
  <2>1. mainpc' \in {"stop", "halt", "wait"}
    BY <1>11 DEF Token!Wait
  <2> QED  BY <1>11, <2>1 DEF Token!Wait
<1>12. ASSUME NEW c \in Token!Children, Token!Fork(c) PROVE TkFirst'
  BY <1>12 DEF Token!Fork, Token!TypeOK
<1>13. ASSUME NEW c \in Token!Children, Token!Install(c) PROVE TkFirst'
  <2>1. \E place \in {"usr2", "int", "loop"} : cpc' = [cpc EXCEPT ![c] = place]
    BY <1>13, TkInstallEffect
  <2> QED  BY <1>13, <2>1 DEF Token!Install, Token!TypeOK
<1>14. ASSUME NEW c \in Token!Children, Token!Work(c) \/ Token!Rest(c) \/ Token!QuitFails(c)
       PROVE  TkFirst'
  <2>1. /\ Token!Child(c) /\ \A d \in Token!Children : d # c => inside'[d] = inside[d]
        /\ czy_dzialam' \subseteq czy_dzialam \cup {c} /\ UNCHANGED <<cpc, mainpc, pracujace>>
    BY <1>14 DEF Token!Work, Token!Rest, Token!QuitFails, Token!Innermost, Token!Returns,
                 Token!TypeOK
  <2> QED  BY <2>1
<1>15. ASSUME NEW c \in Token!Children, Token!Quit(c) \/ Token!Struck(c) PROVE TkFirst'
  <2>1. Token!Dies(c) /\ UNCHANGED <<mainpc, pracujace>>
    BY <1>15 DEF Token!Quit, Token!Struck
  <2>2. /\ inside'[c] = <<>> /\ \A d \in Token!Children : d # c => inside'[d] = inside[d]
        /\ cpc' = [cpc EXCEPT ![c] = "gone"] /\ czy_dzialam' = czy_dzialam \ {c}
    BY <2>1, TkDies
  <2> QED  BY <2>1, <2>2 DEF Token!TypeOK
<1>16. ASSUME NEW c \in Token!Children, NEW v \in Token!Sigs, Token!Interrupted(c, v)
       PROVE  TkFirst'
  <2>1. \A d \in Token!Children : d # c => inside'[d] = inside[d]
    BY <1>16, TkInterruptedEffect
  <2> QED  BY <1>16, <2>1 DEF Token!Interrupted
<1>19. CASE UNCHANGED Token!vars
  BY <1>19 DEF Token!vars
<1> QED
  BY <1>1, <1>2, <1>3, <1>4, <1>5, <1>6, <1>7, <1>8, <1>9, <1>10, <1>11, <1>12, <1>13, <1>14,
        <1>15, <1>16, <1>19, TkCases

\* The two signals of a pass, and whichever of them is taken first.
LEMMA TkTokenStep ==
    ASSUME Token!TypeOK, TkHeeds, TkFirst, TkToken, [Token!Next]_(Token!vars)
    PROVE  TkToken'
<1> USE TkProcs, TkNumbers DEF TkToken, TkOf, TkWorks, TkRests, Token!Child, Token!Goto
<1>1. ASSUME Token!Kick PROVE TkToken'
  <2> SUFFICES ASSUME ~crossed', NEW d \in Token!Children PROVE TkOf(d)'
    BY DEF TkToken
  <2>1. Token!Kills(0, "SIGUSR1") /\ UNCHANGED <<cpc, czy_dzialam, pracujace>>
    BY <1>1 DEF Token!Kick
  <2>2. /\ d # 0 => Token!Due(d)' = Token!Due(d)
        /\ Token!Child(0) => /\ Token!Due(0)' = Token!Due(0) \cup {"SIGUSR1"}
                            /\ ~({"SIGUSR1", "SIGUSR2"} \subseteq Token!Due(0)')
        /\ ~crossed
    <3> HIDE DEF Token!Child
    <3> QED  BY <2>1, TkKills, TkSameDue
  <2>3. pracujace = 0 /\ mainpc \in {"kick", "kickagain"} /\ mainpc' \in {"block", "wait"}
    BY <1>1 DEF Token!Kick, TkFirst
  <2> QED  BY <2>1, <2>2, <2>3
<1>2. ASSUME Token!Block PROVE TkToken'
  <2> SUFFICES ASSUME ~crossed', NEW d \in Token!Children PROVE TkOf(d)'
    BY DEF TkToken
  <2>1. Token!Due(d)' = Token!Due(d) /\ UNCHANGED <<cpc, czy_dzialam, pracujace, crossed>>
    BY <1>2, TkBlockEffect, TkSameDue DEF Token!Block
  <2>2. mainpc = "block" /\ mainpc' = "kickagain"
    BY <1>2 DEF Token!Block
  <2> QED  BY <2>1, <2>2
<1>3. ASSUME Token!Halt PROVE TkToken'
  <2> SUFFICES ASSUME ~crossed', NEW d \in Token!Children PROVE TkOf(d)'
    BY DEF TkToken
  <2>1. Token!Kills(pracujace, "SIGUSR2") /\ UNCHANGED <<cpc, czy_dzialam, pracujace>>
    BY <1>3 DEF Token!Halt
  <2>2. /\ d # pracujace => Token!Due(d)' = Token!Due(d)
        /\ Token!Child(pracujace) =>
               /\ Token!Due(pracujace)' = Token!Due(pracujace) \cup {"SIGUSR2"}
               /\ ~({"SIGUSR1", "SIGUSR2"} \subseteq Token!Due(pracujace)')
        /\ ~crossed
    <3>1. pracujace \in Token!Children
      BY DEF Token!TypeOK
    <3> HIDE DEF Token!Child
    <3> QED  BY <2>1, <3>1, TkKills, TkSameDue
  <2>3. mainpc = "halt" /\ mainpc' = "pass"
    BY <1>3 DEF Token!Halt
  <2> QED  BY <2>1, <2>2, <2>3
<1>4. ASSUME Token!Pass PROVE TkToken'
  <2> SUFFICES ASSUME ~crossed', NEW d \in Token!Children PROVE TkOf(d)'
    BY DEF TkToken
  <2>1. PICK e \in Token!Children : /\ pracujace' = e /\ Token!Kills(e, "SIGUSR1")
                              /\ UNCHANGED <<cpc, czy_dzialam>>
    BY <1>4 DEF Token!Pass, Token!TypeOK
  <2>2. /\ d # e => Token!Due(d)' = Token!Due(d)
        /\ Token!Child(e) => /\ Token!Due(e)' = Token!Due(e) \cup {"SIGUSR1"}
                            /\ ~({"SIGUSR1", "SIGUSR2"} \subseteq Token!Due(e)')
        /\ ~crossed
    <3> HIDE DEF Token!Child
    <3> QED  BY <2>1, TkKills, TkSameDue
  <2>3. mainpc = "pass" /\ mainpc' = "wait"
    BY <1>4 DEF Token!Pass
  <2> QED  BY <2>1, <2>2, <2>3
<1>5. ASSUME Token!Stop PROVE TkToken'
  BY <1>5 DEF Token!Stop
<1>6. ASSUME Token!Reap PROVE TkToken'
  BY <1>6 DEF Token!Reap
<1>7. ASSUME Token!Struck(Parent) PROVE TkToken'
  BY <1>7 DEF Token!Struck
<1>8. ASSUME Token!ForkFails PROVE TkToken'
  BY <1>8 DEF Token!ForkFails
<1>9. ASSUME Token!SendUsr1 PROVE TkToken'
  <2> SUFFICES ASSUME ~crossed', NEW d \in Token!Children PROVE TkOf(d)'
    BY DEF TkToken
  <2>1. /\ Token!Due(d)' = Token!Due(d)
        /\ UNCHANGED <<cpc, czy_dzialam, mainpc, pracujace, crossed>>
    BY <1>9, TkUsr1Effect, TkSameDue DEF Token!SendUsr1
  <2> QED  BY <2>1
<1>10. ASSUME NEW to \in {{Parent}, Token!Procs}, Token!SendInt(to) PROVE TkToken'
  <2> SUFFICES ASSUME ~crossed', NEW d \in Token!Children PROVE TkOf(d)'
    BY DEF TkToken
  <2>1. /\ "SIGUSR1" \in Token!Due(d)' <=> "SIGUSR1" \in Token!Due(d)
        /\ "SIGUSR2" \in Token!Due(d)' <=> "SIGUSR2" \in Token!Due(d)
    BY <1>10, TkIntEffect DEF Token!Due, Token!SendInt
  <2>2. UNCHANGED <<cpc, czy_dzialam, mainpc, pracujace, crossed>>
    BY <1>10 DEF Token!SendInt
  <2> QED  BY <2>1, <2>2
<1>11. ASSUME NEW v \in Token!Sigs, Token!Wait(v) PROVE TkToken'
  <2> SUFFICES ASSUME ~crossed', NEW d \in Token!Children PROVE TkOf(d)'
    BY DEF TkToken
  <2>1. Token!Due(d)' = Token!Due(d) /\ UNCHANGED <<cpc, czy_dzialam, pracujace, crossed>>
    BY <1>11, TkTakes, TkSameDue DEF Token!Wait
  <2>2. mainpc = "wait" /\ mainpc' \in {"stop", "halt", "wait"}
    BY <1>11 DEF Token!Wait
  <2> QED  BY <2>1, <2>2
<1>12. ASSUME NEW c \in Token!Children, Token!Fork(c) PROVE TkToken'
  <2> SUFFICES ASSUME ~crossed', NEW d \in Token!Children PROVE TkOf(d)'
    BY DEF TkToken
  <2>1. d # c => Token!Due(d)' = Token!Due(d)
    BY <1>12, TkForkEffect, TkSameDue DEF Token!Fork
  <2>2. Token!Due(c)' = {} /\ c \notin czy_dzialam
    <3>1. sig'[c].pending = {} /\ inside'[c] = <<>> /\ c \notin czy_dzialam
      BY <1>12, TkForkEffect DEF Token!Fork, TkFirst
    <3>2. Token!Due(c)' = sig'[c].pending \cup {inside'[c][j] : j \in DOMAIN inside'[c]}
      BY DEF Token!Due
    <3>3. DOMAIN <<>> = {}
      OBVIOUS
    <3> QED  BY <3>1, <3>2, <3>3
  <2>3. mainpc = "fork" /\ mainpc' \in {"fork", "kick"} /\ UNCHANGED <<czy_dzialam, crossed>>
    BY <1>12 DEF Token!Fork
  <2>4. d # c => cpc'[d] = cpc[d]
    BY <1>12 DEF Token!Fork, Token!TypeOK
  <2> QED  BY <2>1, <2>2, <2>3, <2>4
<1>13. ASSUME NEW c \in Token!Children, Token!Install(c) PROVE TkToken'
  <2> SUFFICES ASSUME ~crossed', NEW d \in Token!Children PROVE TkOf(d)'
    BY DEF TkToken
  <2>1. Token!Due(d)' = Token!Due(d)
    BY <1>13, TkInstallEffect, TkSameDue DEF Token!Install
  <2>2. UNCHANGED <<czy_dzialam, mainpc, pracujace, crossed>>
    BY <1>13 DEF Token!Install
  <2>3. Token!Child(d)' => Token!Child(d)
    BY <1>13, TkInstallEffect DEF Token!TypeOK
  <2> QED  BY <2>1, <2>2, <2>3
<1>14. ASSUME NEW c \in Token!Children, Token!Work(c) PROVE TkToken'
  <2> SUFFICES ASSUME ~crossed', NEW d \in Token!Children PROVE TkOf(d)'
    BY DEF TkToken
  <2>1. Token!Innermost(c, "SIGUSR1") /\ Token!Returns(c) /\ UNCHANGED sig
    BY <1>14 DEF Token!Work
  <2>2. /\ "SIGUSR1" \in Token!Due(c)
        /\ Token!Due(c)' \subseteq Token!Due(c)
        /\ Token!Due(c) \ {"SIGUSR1"} \subseteq Token!Due(c)'
        /\ d # c => inside'[d] = inside[d]
    BY <2>1, TkReturns DEF Token!Sigs
  <2>3. d # c => Token!Due(d)' = Token!Due(d)
    BY <2>1, <2>2, TkSameDue
  <2>4. UNCHANGED <<cpc, mainpc, pracujace, crossed>> /\ czy_dzialam' = czy_dzialam \cup {c}
    BY <1>14 DEF Token!Work
  <2>5. d \in Token!Children /\ c \in Token!Children
    OBVIOUS
  <2> QED  BY ONLY TkToken, ~crossed', <2>2, <2>3, <2>4, <2>5
           DEF TkToken, TkOf, TkWorks, TkRests, Token!Child
<1>15. ASSUME NEW c \in Token!Children, Token!Rest(c) PROVE TkToken'
  <2> SUFFICES ASSUME ~crossed', NEW d \in Token!Children PROVE TkOf(d)'
    BY DEF TkToken
  <2>1. Token!Innermost(c, "SIGUSR2") /\ Token!Returns(c) /\ UNCHANGED sig
    BY <1>15 DEF Token!Rest
  <2>2. /\ "SIGUSR2" \in Token!Due(c)
        /\ Token!Due(c)' \subseteq Token!Due(c)
        /\ Token!Due(c) \ {"SIGUSR2"} \subseteq Token!Due(c)'
        /\ d # c => inside'[d] = inside[d]
    BY <2>1, TkReturns DEF Token!Sigs
  <2>3. d # c => Token!Due(d)' = Token!Due(d)
    BY <2>1, <2>2, TkSameDue
  <2>4. UNCHANGED <<cpc, mainpc, pracujace, crossed>> /\ czy_dzialam' = czy_dzialam \ {c}
    BY <1>15 DEF Token!Rest
  <2>5. d \in Token!Children /\ c \in Token!Children
    OBVIOUS
  <2> QED  BY ONLY TkToken, ~crossed', <2>2, <2>3, <2>4, <2>5
           DEF TkToken, TkOf, TkWorks, TkRests, Token!Child
<1>16. ASSUME NEW c \in Token!Children, Token!QuitFails(c) PROVE TkToken'
  <2> SUFFICES ASSUME ~crossed', NEW d \in Token!Children PROVE TkOf(d)'
    BY DEF TkToken
  <2>1. Token!Innermost(c, "SIGINT") /\ Token!Returns(c) /\ UNCHANGED sig
    BY <1>16 DEF Token!QuitFails
  <2>2. /\ "SIGINT" \in Token!Due(c)
        /\ Token!Due(c)' \subseteq Token!Due(c)
        /\ Token!Due(c) \ {"SIGINT"} \subseteq Token!Due(c)'
        /\ d # c => inside'[d] = inside[d]
    BY <2>1, TkReturns DEF Token!Sigs
  <2>3. d # c => Token!Due(d)' = Token!Due(d)
    BY <2>1, <2>2, TkSameDue
  <2>4. UNCHANGED <<cpc, mainpc, pracujace, crossed>> /\ czy_dzialam' = czy_dzialam
    BY <1>16 DEF Token!QuitFails
  <2>5. d \in Token!Children /\ c \in Token!Children
    OBVIOUS
  <2> QED  BY ONLY TkToken, ~crossed', <2>2, <2>3, <2>4, <2>5
           DEF TkToken, TkOf, TkWorks, TkRests, Token!Child
<1>17. ASSUME NEW c \in Token!Children, Token!Quit(c) \/ Token!Struck(c) PROVE TkToken'
  <2> SUFFICES ASSUME ~crossed', NEW d \in Token!Children PROVE TkOf(d)'
    BY DEF TkToken
  <2>1. Token!Dies(c) /\ UNCHANGED <<mainpc, pracujace, crossed>>
    BY <1>17 DEF Token!Quit, Token!Struck
  <2>2. /\ d # c => sig'[d] = sig[d] /\ inside'[d] = inside[d]
        /\ cpc' = [cpc EXCEPT ![c] = "gone"] /\ czy_dzialam' = czy_dzialam \ {c}
    BY <2>1, TkDies
  <2>3. d # c => Token!Due(d)' = Token!Due(d)
    BY <2>2, TkSameDue
  <2>4. CASE d = c
    <3>1. ~Token!Child(d)'
      BY <2>2, <2>4 DEF Token!TypeOK
    <3> QED  BY <3>1
  <2>5. CASE d # c
    <3>1. cpc'[d] = cpc[d]
      BY <2>2, <2>5 DEF Token!TypeOK
    <3>2. d \in Token!Children
      OBVIOUS
    <3> QED  BY ONLY TkToken, ~crossed', <2>1, <2>2, <2>3, <2>5, <3>1, <3>2
             DEF TkToken, TkOf, TkWorks, TkRests, Token!Child
  <2> QED  BY <2>4, <2>5
<1>18. ASSUME NEW c \in Token!Children, NEW v \in Token!Sigs, Token!Interrupted(c, v)
       PROVE  TkToken'
  <2> SUFFICES ASSUME ~crossed', NEW d \in Token!Children PROVE TkOf(d)'
    BY DEF TkToken
  <2>1. UNCHANGED <<cpc, czy_dzialam, mainpc, pracujace, crossed>>
    BY <1>18 DEF Token!Interrupted
  <2>2. Token!Due(d)' = Token!Due(d)
    <3>1. Token!Due(c)' = Token!Due(c) /\ (d # c => sig'[d] = sig[d] /\ inside'[d] = inside[d])
      BY <1>18, TkInterruptedEffect
    <3> QED  BY <3>1, TkSameDue
  <2> QED  BY <2>1, <2>2
<1>19. CASE UNCHANGED Token!vars
  BY <1>19 DEF Token!vars, Token!Due
<1> QED
  BY <1>1, <1>2, <1>3, <1>4, <1>5, <1>6, <1>7, <1>8, <1>9, <1>10, <1>11, <1>12, <1>13, <1>14,
        <1>15, <1>16, <1>17, <1>18, <1>19, TkCases

\* The parent of lab2_z3.c waits for the next signal only when the one child it
\* believes at work has been told to work and every other one to rest, whatever
\* order the signals are taken in, for any number of children and signals, as long
\* as no child is sent one of the two signals while the other is on its way to it:
\* waiting, or with its handler begun and cut off by the other's (main's loop).
THEOREM WorkIsWithOne == FairSpec => []WorkWithOne
<1>1. Init => TkInv
  <2> SUFFICES ASSUME Token!Init PROVE TkInv
    BY DEF Init
  <2>1. Token!NewProcess(Token!Sigs) \in Token!SignalStates(Token!Sigs)
    BY DEF Token!NewProcess, Token!SignalStates, Token!Sigs
  <2>2. /\ Token!NewProcess(Token!Sigs).pending = {}
        /\ \A v \in Token!Sigs : Token!NewProcess(Token!Sigs).disp[v] = "default"
    BY DEF Token!NewProcess, Token!Sigs
  <2>3. Token!TypeOK
    <3>1. passes \in 0 .. MaxPasses /\ faults \in 0 .. MaxFaults
      BY SignalsAssumption DEF Token!Init
    <3>2. inside \in [Token!Children -> Seq(Token!Sigs)]
      <4>1. <<>> \in Seq(Token!Sigs)
        OBVIOUS
      <4> QED  BY <4>1 DEF Token!Init
    <3> QED  BY <2>1, <3>1, <3>2, TkNumbers DEF Token!Init, Token!TypeOK
  <2>4. TkHeeds
    BY <2>2 DEF Token!Init, TkHeeds
  <2>5. TkFirst /\ TkToken
    BY DEF Token!Init, TkFirst, TkToken, TkOf, TkRests, TkWorks, Token!Child
  <2> QED  BY <2>3, <2>4, <2>5 DEF TkInv
<1>2. TkInv /\ [Next]_vars => TkInv'
  BY TokenMoves, TkType, TkHeedsStep, TkFirstStep, TkTokenStep DEF TkInv
<1>3. TkInv => WorkWithOne
  BY DEF TkInv, TkToken, TkOf, TkWorks, TkRests, WorkWithOne, Token!WorkWithOne
<1> QED  BY <1>1, <1>2, <1>3, PTL DEF FairSpec

(***************************************************************************)
(* CharCount: main's count is whole (l6/z1/main.c).                        *)
(***************************************************************************)

\* The children main has created, and those it has waited for.
CcLoops ==
    \A c \in Count!Children :
        /\ state[c] = "unborn" <=> ccMain = "fork" /\ c >= i
        /\ ccMain = "wait" /\ c < i => state[c] \in {"absent", "reaped"}
        /\ ccMain \notin {"fork", "wait"} => state[c] \in {"absent", "reaped"}

\* Of every child waited for that was ended by a signal main knows.
CcSignaled ==
    /\ ccMain = "printed" => ~er
    /\ \A c \in Count!Children :
          /\ c \in signaled => state[c] = "aborted" \/ (state[c] = "reaped" /\ er)
          /\ state[c] = "aborted" => c \in signaled

\* What the state of a child says about its block.
CcBlocks ==
    \A c \in Count!Children :
        /\ state[c] = "exited" \/ (state[c] = "reaped" /\ c \notin signaled) => wyn[c] = 3
        /\ state[c] \in {"unborn", "absent", "counts"} => wyn[c] = 0
        /\ state[c] = "writes" => wyn[c] < 3

CcInv == Count!TypeOK /\ CcLoops /\ CcSignaled /\ CcBlocks

\* The steps of the program.
LEMMA CcCases ==
    ASSUME Count!Next
    PROVE  \/ Count!Fork \/ Count!WaitFails \/ Count!Report
           \/ \E c \in Count!Children :
                  Count!Wait(c) \/ Count!Count(c) \/ Count!WritePart(c) \/ Count!Kill(c)
BY DEF Count!Next, Count!MainStep, Count!ChildStep

\* The children have numbers, and the loops run over them.
LEMMA CcNumbers ==
    /\ Counting \in Nat /\ 0 \in Count!Children
    /\ \A c \in Count!Children : c \in Int /\ 0 <= c /\ c < Counting
    /\ \A c \in Count!Children : c + 1 < Counting => c + 1 \in Count!Children
BY CountingAssumption DEF Count!Children

\* The types are preserved.
LEMMA CcType ==
    ASSUME Count!TypeOK, CcLoops, CcBlocks, [Count!Next]_(Count!vars)
    PROVE  Count!TypeOK'
<1> USE CcNumbers DEF Count!TypeOK, Count!Goes, CcLoops, CcBlocks
<1>1. ASSUME Count!Fork PROVE Count!TypeOK'
  BY <1>1 DEF Count!Fork, Count!Turn
<1>2. ASSUME NEW c \in Count!Children, Count!Count(c) PROVE Count!TypeOK'
  BY <1>2 DEF Count!Count
<1>3. ASSUME NEW c \in Count!Children, Count!WritePart(c) PROVE Count!TypeOK'
  BY <1>3 DEF Count!WritePart
<1>4. ASSUME NEW c \in Count!Children, Count!Kill(c) PROVE Count!TypeOK'
  BY <1>4, CountingAssumption DEF Count!Kill
<1>5. ASSUME NEW c \in Count!Children, Count!Wait(c) PROVE Count!TypeOK'
  BY <1>5 DEF Count!Wait, Count!Turn, Count!Zombie, Count!MayReap, Count!Seen
<1>6. ASSUME Count!WaitFails PROVE Count!TypeOK'
  BY <1>6 DEF Count!WaitFails, Count!Turn, Count!MayReap, Count!Seen
<1>7. ASSUME Count!Report PROVE Count!TypeOK'
  BY <1>7 DEF Count!Report
<1>8. CASE UNCHANGED Count!vars
  BY <1>8 DEF Count!vars
<1> QED
  BY <1>1, <1>2, <1>3, <1>4, <1>5, <1>6, <1>7, <1>8, CcCases

\* The turn of a child creates it, or finds it waited for.
LEMMA CcLoopsStep ==
    ASSUME Count!TypeOK, CcLoops, [Count!Next]_(Count!vars)
    PROVE  CcLoops'
<1> USE CcNumbers DEF Count!TypeOK, Count!Goes, CcLoops
<1>1. ASSUME Count!Fork PROVE CcLoops'
  <2>1. state[i] = "unborn" /\ i \in Count!Children
    BY <1>1 DEF Count!Fork
  <2>2. CASE i + 1 < Counting
    BY <1>1, <2>1, <2>2 DEF Count!Fork, Count!Turn
  <2>3. CASE ~(i + 1 < Counting)
    BY <1>1, <2>1, <2>3 DEF Count!Fork, Count!Turn
  <2> QED  BY <2>2, <2>3
<1>2. ASSUME NEW c \in Count!Children, Count!Count(c) PROVE CcLoops'
  BY <1>2 DEF Count!Count
<1>3. ASSUME NEW c \in Count!Children, Count!WritePart(c) PROVE CcLoops'
  BY <1>3 DEF Count!WritePart
<1>4. ASSUME NEW c \in Count!Children, Count!Kill(c) PROVE CcLoops'
  BY <1>4 DEF Count!Kill
<1>5. ASSUME NEW c \in Count!Children, Count!Wait(c) PROVE CcLoops'
  BY <1>5 DEF Count!Wait, Count!Turn, Count!Zombie, Count!MayReap, Count!Seen
<1>6. ASSUME Count!WaitFails PROVE CcLoops'
  BY <1>6 DEF Count!WaitFails, Count!Turn, Count!MayReap, Count!Seen
<1>7. ASSUME Count!Report PROVE CcLoops'
  BY <1>7 DEF Count!Report
<1>8. CASE UNCHANGED Count!vars
  BY <1>8 DEF Count!vars
<1> QED
  BY <1>1, <1>2, <1>3, <1>4, <1>5, <1>6, <1>7, <1>8, CcCases

\* main does not forget a signal.
LEMMA CcSignaledStep ==
    ASSUME Count!TypeOK, CcLoops, CcSignaled, [Count!Next]_(Count!vars)
    PROVE  CcSignaled'
<1> USE CcNumbers DEF Count!TypeOK, Count!Goes, CcSignaled
<1>1. ASSUME Count!Fork PROVE CcSignaled'
  <2>1. state[i] = "unborn" /\ i \in Count!Children
    BY <1>1 DEF Count!Fork, CcLoops
  <2>2. ccMain' # "printed" /\ UNCHANGED <<er, signaled>>
    BY <1>1 DEF Count!Fork, Count!Turn
  <2> QED  BY <1>1, <2>1, <2>2 DEF Count!Fork
<1>2. ASSUME NEW c \in Count!Children, Count!Count(c) PROVE CcSignaled'
  BY <1>2 DEF Count!Count
<1>3. ASSUME NEW c \in Count!Children, Count!WritePart(c) PROVE CcSignaled'
  BY <1>3 DEF Count!WritePart
<1>4. ASSUME NEW c \in Count!Children, Count!Kill(c) PROVE CcSignaled'
  BY <1>4 DEF Count!Kill
<1>5. ASSUME NEW c \in Count!Children, Count!Wait(c) PROVE CcSignaled'
  BY <1>5 DEF Count!Wait, Count!Turn, Count!Zombie, Count!MayReap, Count!Seen
<1>6. ASSUME Count!WaitFails PROVE CcSignaled'
  BY <1>6 DEF Count!WaitFails, Count!Turn, Count!MayReap, Count!Seen
<1>7. ASSUME Count!Report PROVE CcSignaled'
  BY <1>7 DEF Count!Report
<1>8. CASE UNCHANGED Count!vars
  BY <1>8 DEF Count!vars
<1> QED
  BY <1>1, <1>2, <1>3, <1>4, <1>5, <1>6, <1>7, <1>8, CcCases

\* A child that exits has written its whole block.
LEMMA CcBlocksStep ==
    ASSUME Count!TypeOK, CcLoops, CcSignaled, CcBlocks, [Count!Next]_(Count!vars)
    PROVE  CcBlocks'
<1> USE CcNumbers DEF Count!TypeOK, Count!Goes, CcLoops, CcSignaled, CcBlocks
<1>1. ASSUME Count!Fork PROVE CcBlocks'
  <2>1. state[i] = "unborn" /\ i \in Count!Children
    BY <1>1 DEF Count!Fork
  <2>2. UNCHANGED <<wyn, signaled>> /\ i \notin signaled
    BY <1>1, <2>1 DEF Count!Fork
  <2> QED  BY <1>1, <2>1, <2>2 DEF Count!Fork
<1>2. ASSUME NEW c \in Count!Children, Count!Count(c) PROVE CcBlocks'
  BY <1>2 DEF Count!Count
<1>3. ASSUME NEW c \in Count!Children, Count!WritePart(c) PROVE CcBlocks'
  BY <1>3 DEF Count!WritePart
<1>4. ASSUME NEW c \in Count!Children, Count!Kill(c) PROVE CcBlocks'
  BY <1>4 DEF Count!Kill
<1>5. ASSUME NEW c \in Count!Children, Count!Wait(c) PROVE CcBlocks'
  BY <1>5 DEF Count!Wait, Count!Turn, Count!Zombie, Count!MayReap, Count!Seen
<1>6. ASSUME Count!WaitFails PROVE CcBlocks'
  BY <1>6 DEF Count!WaitFails, Count!Turn, Count!MayReap, Count!Seen
<1>7. ASSUME Count!Report PROVE CcBlocks'
  BY <1>7 DEF Count!Report
<1>8. CASE UNCHANGED Count!vars
  BY <1>8 DEF Count!vars
<1> QED
  BY <1>1, <1>2, <1>3, <1>4, <1>5, <1>6, <1>7, <1>8, CcCases

\* What main prints is the whole of a count that nobody works on any more,
\* whichever children abort, are killed or never come to be: each turn of its loop
\* waits for the child of that turn or finds it waited for (main's loop over
\* waitpid).
THEOREM CountsWhole == FairSpec => []CountIsWhole
<1>1. Init => CcInv
  <2> SUFFICES ASSUME Count!Init PROVE CcInv
    BY DEF Init
  <2> USE CcNumbers DEF Count!Init
  <2>1. Count!TypeOK
    <3>1. ccKills \in 0 .. MaxKills
      BY CountingAssumption
    <3>2. wyn \in [Count!Children -> 0 .. 3]
      OBVIOUS
    <3>3. state \in [Count!Children -> {"unborn"}]
      OBVIOUS
    <3>4. ccMain = "fork" /\ i \in Count!Children /\ er \in BOOLEAN /\ signaled = {}
      OBVIOUS
    <3> HIDE DEF Count!Init
    <3> QED  BY <3>1, <3>2, <3>3, <3>4 DEF Count!TypeOK
  <2>2. CcLoops
    BY DEF CcLoops
  <2>3. CcSignaled /\ CcBlocks
    BY DEF CcSignaled, CcBlocks
  <2> QED  BY <2>1, <2>2, <2>3 DEF CcInv
<1>2. CcInv /\ [Next]_vars => CcInv'
  BY CountMoves, CcType, CcLoopsStep, CcSignaledStep, CcBlocksStep DEF CcInv
<1>3. CcInv => CountIsWhole
  <2> SUFFICES ASSUME CcInv PROVE Count!CountIsWhole
    BY DEF CountIsWhole
  <2>1. 0 \in Count!Children
    BY CountingAssumption DEF Count!Children
  <2> QED  BY <2>1 DEF CcInv, CcLoops, CcSignaled, CcBlocks, Count!CountIsWhole, Count!TypeOK
<1> QED  BY <1>1, <1>2, <1>3, PTL DEF FairSpec

(***************************************************************************)
(* ObjectNames: instances of the shared-memory templates (template.c,      *)
(* template_lab.c, template_ds.c).                                         *)
(***************************************************************************)

\* The object that x has made, and not yet unlinked, when it runs alone and is at
\* place.
Owns(place, name) ==
    \/ /\ name = "data"
       /\ \/ place \in {<<"open", "ctrl">>, <<"unlink", "ctrl">>, <<"retry", "ctrl">>,
                        <<"drop", "sem">>, <<"open", "sem">>, <<"work", "sem">>,
                        <<"tidy", "data">>}
          \/ template = "fixed" /\ place = <<"tidy", "sem">>
    \/ /\ name = "ctrl" /\ template = "fixed"
       /\ place \in {<<"drop", "sem">>, <<"open", "sem">>, <<"work", "sem">>,
                     <<"tidy", "sem">>, <<"tidy", "data">>, <<"tidy", "ctrl">>}
    \/ /\ name = "sem"
       /\ \/ place \in {<<"work", "sem">>, <<"tidy", "sem">>}
          \/ template = "template_ds" /\ place = <<"tidy", "data">>

\* Nothing has been made by an instance that has not been started.
OnMade ==
    \A x \in Instances : \A name \in Objects!Names :
        at[x] = Objects!Absent => named[name] # x

\* Where an instance can be.
OnPlaces ==
    \A x \in Instances :
        \/ at[x] \in {Objects!Absent, Objects!Done, Objects!Failed, Objects!Killed}
        \/ at[x] \in {<<"open", "data">>, <<"drop", "sem">>, <<"open", "sem">>,
                      <<"work", "sem">>, <<"tidy", "data">>, <<"tidy", "sem">>}
        \/ /\ template = "fixed"
           /\ at[x] \in {<<"unlink", "data">>, <<"retry", "data">>, <<"open", "ctrl">>,
                         <<"unlink", "ctrl">>, <<"retry", "ctrl">>, <<"tidy", "ctrl">>}

\* With template_ds.c every instance runs alone.
OnAlone ==
    /\ template = "template_ds" => \A x \in Instances : at[x] # Objects!Absent => x \in alone
    /\ \A x \in alone :
          /\ at[x] # Objects!Absent
          /\ Objects!Running(x) => \A y \in Instances : y # x => ~Objects!Running(y)

\* What an instance that runs alone finds, has and leaves.
NamesOf(x) ==
    /\ Objects!Running(x) =>
           /\ \A name \in Objects!Names : named[name] = x <=> Owns(at[x], name)
           /\ at[x] = <<"open", "sem">> => named["sem"] = None
           /\ \A name \in Objects!Names : at[x] = <<"retry", name>> => named[name] = None
           /\ \A name \in Objects!Names : at[x] = <<"unlink", name>> => named[name] # None
    /\ at[x] = Objects!Done => \A name \in Objects!Names : named[name] # x
    /\ at[x] = Objects!Failed =>
           /\ template = "template_ds" /\ named["data"] \notin {None, x}
           /\ at[named["data"]] = Objects!Killed
           /\ \A y \in Instances : Objects!Running(y) => at[y] = <<"open", "data">>
OnNames == \A x \in alone : NamesOf(x)

OnInv == Objects!TypeOK /\ OnMade /\ OnPlaces /\ OnAlone /\ OnNames

\* The steps of the program.
LEMMA OnCases ==
    ASSUME Objects!Next
    PROVE  \E x \in Instances :
               \/ Objects!Start(x) \/ Objects!DropSem(x) \/ Objects!Work(x) \/ Objects!Kill(x)
               \/ \E name \in Objects!Names :
                  Objects!Open(x, name) \/ Objects!UnlinkStale(x, name) \/ Objects!Tidy(x, name)
BY DEF Objects!Next, Objects!Step

\* The types are preserved.
LEMMA OnType ==
    ASSUME Objects!TypeOK, [Objects!Next]_(Objects!vars)
    PROVE  Objects!TypeOK'
<1> USE InstancesAssumption DEF Objects!TypeOK, Objects!Goto, Objects!Names, Objects!Places,
      Objects!Absent, Objects!Done, Objects!Failed, Objects!Killed
<1>1. ASSUME NEW x \in Instances, Objects!Start(x) PROVE Objects!TypeOK'
  BY <1>1 DEF Objects!Start, Objects!Running
<1>2. ASSUME NEW x \in Instances, Objects!DropSem(x) PROVE Objects!TypeOK'
  BY <1>2 DEF Objects!DropSem
<1>3. ASSUME NEW x \in Instances, Objects!Work(x) PROVE Objects!TypeOK'
  BY <1>3 DEF Objects!Work
<1>4. ASSUME NEW x \in Instances, NEW name \in Objects!Names, Objects!Open(x, name)
      PROVE Objects!TypeOK'
  <2>1. Objects!After(name) \in Objects!Places \X Objects!Names
    BY DEF Objects!After
  <2>2. /\ UNCHANGED <<template, alone, killed>>
        /\ named' \in [Objects!Names -> Instances \cup {None}]
    BY <1>4 DEF Objects!Open
  <2>3. at' \in [Instances -> Objects!Places \X Objects!Names]
    BY <1>4, <2>1 DEF Objects!Open
  <2> QED  BY <2>2, <2>3
<1>5. ASSUME NEW x \in Instances, NEW name \in Objects!Names, Objects!UnlinkStale(x, name)
      PROVE Objects!TypeOK'
  BY <1>5 DEF Objects!UnlinkStale
<1>6. ASSUME NEW x \in Instances, NEW name \in Objects!Names, Objects!Tidy(x, name)
      PROVE Objects!TypeOK'
  BY <1>6 DEF Objects!Tidy, Objects!TidyAfter
<1>7. ASSUME NEW x \in Instances, Objects!Kill(x) PROVE Objects!TypeOK'
  BY <1>7 DEF Objects!Kill
<1>8. CASE UNCHANGED Objects!vars
  BY <1>8 DEF Objects!vars
<1> QED
  BY <1>1, <1>2, <1>3, <1>4, <1>5, <1>6, <1>7, <1>8, OnCases

\* To make something an instance has to be started.
LEMMA OnMadeStep ==
    ASSUME Objects!TypeOK, OnMade, [Objects!Next]_(Objects!vars)
    PROVE  OnMade'
<1> USE InstancesAssumption DEF Objects!TypeOK, Objects!Goto, Objects!Names, Objects!Absent,
      Objects!Done, Objects!Failed, Objects!Killed, OnMade
<1>1. ASSUME NEW x \in Instances, Objects!Start(x) PROVE OnMade'
  BY <1>1 DEF Objects!Start, Objects!Running
<1>2. ASSUME NEW x \in Instances, Objects!DropSem(x) PROVE OnMade'
  BY <1>2 DEF Objects!DropSem
<1>3. ASSUME NEW x \in Instances, Objects!Work(x) PROVE OnMade'
  BY <1>3 DEF Objects!Work
<1>4. ASSUME NEW x \in Instances, NEW name \in Objects!Names, Objects!Open(x, name)
      PROVE OnMade'
  BY <1>4 DEF Objects!Open, Objects!After
<1>5. ASSUME NEW x \in Instances, NEW name \in Objects!Names, Objects!UnlinkStale(x, name)
      PROVE OnMade'
  BY <1>5 DEF Objects!UnlinkStale
<1>6. ASSUME NEW x \in Instances, NEW name \in Objects!Names, Objects!Tidy(x, name)
      PROVE OnMade'
  BY <1>6 DEF Objects!Tidy, Objects!TidyAfter
<1>7. ASSUME NEW x \in Instances, Objects!Kill(x) PROVE OnMade'
  BY <1>7 DEF Objects!Kill
<1>8. CASE UNCHANGED Objects!vars
  BY <1>8 DEF Objects!vars
<1> HIDE DEF Objects!TypeOK, OnMade
<1> QED
  BY <1>1, <1>2, <1>3, <1>4, <1>5, <1>6, <1>7, <1>8, OnCases

\* The steps follow one another.
LEMMA OnPlacesStep ==
    ASSUME Objects!TypeOK, OnPlaces, [Objects!Next]_(Objects!vars)
    PROVE  OnPlaces'
<1> USE DEF Objects!TypeOK, Objects!Goto, Objects!Names, Objects!Absent, Objects!Done,
      Objects!Failed, Objects!Killed, OnPlaces
<1>1. ASSUME NEW x \in Instances, Objects!Start(x) PROVE OnPlaces'
  BY <1>1 DEF Objects!Start, Objects!Running
<1>2. ASSUME NEW x \in Instances, Objects!DropSem(x) PROVE OnPlaces'
  BY <1>2 DEF Objects!DropSem
<1>3. ASSUME NEW x \in Instances, Objects!Work(x) PROVE OnPlaces'
  BY <1>3 DEF Objects!Work
<1>4. ASSUME NEW x \in Instances, NEW name \in Objects!Names, Objects!Open(x, name)
      PROVE OnPlaces'
  BY <1>4 DEF Objects!Open, Objects!After
<1>5. ASSUME NEW x \in Instances, NEW name \in Objects!Names, Objects!UnlinkStale(x, name)
      PROVE OnPlaces'
  BY <1>5 DEF Objects!UnlinkStale
<1>6. ASSUME NEW x \in Instances, NEW name \in Objects!Names, Objects!Tidy(x, name)
      PROVE OnPlaces'
  BY <1>6 DEF Objects!Tidy, Objects!TidyAfter
<1>7. ASSUME NEW x \in Instances, Objects!Kill(x) PROVE OnPlaces'
  BY <1>7 DEF Objects!Kill
<1>8. CASE UNCHANGED Objects!vars
  BY <1>8 DEF Objects!vars
<1> QED
  BY <1>1, <1>2, <1>3, <1>4, <1>5, <1>6, <1>7, <1>8, OnCases

\* Instances of template_ds.c that have the same pid do not run together.
LEMMA OnTogether ==
    ASSUME Objects!TypeOK, NEW x \in Instances, Objects!Start(x), template = "template_ds"
    PROVE  \A y \in Instances : ~Objects!Running(y)
<1> DEFINE Before == {y \in Instances : Objects!Running(y)}
<1>1. IsFiniteSet(Before)
  BY InstancesAssumption, FS_Subset
<1>2. Objects!Cardinality(Before) = Cardinality(Before)
  BY DEF Objects!Cardinality, Cardinality
<1>3. Cardinality(Before) < 1
  BY <1>2 DEF Objects!Start
<1> HIDE DEF Before
<1>4. Cardinality(Before) \in Nat
  BY <1>1, FS_CardinalityType
<1>5. Cardinality(Before) = 0
  BY <1>3, <1>4
<1>6. Before = {}
  BY <1>1, <1>5, FS_EmptySet
<1> QED  BY <1>6 DEF Before

\* Who runs alone runs alone.
LEMMA OnAloneStep ==
    ASSUME Objects!TypeOK, OnAlone, [Objects!Next]_(Objects!vars)
    PROVE  OnAlone'
<1> USE DEF Objects!TypeOK, Objects!Running, OnAlone
<1>1. ASSUME NEW x \in Instances, Objects!Start(x) PROVE OnAlone'
  <2>2. /\ at' = [at EXCEPT ![x] = <<"open", "data">>] /\ at[x] = Objects!Absent
        /\ template' = template
    BY <1>1 DEF Objects!Start, Objects!Goto
  <2>3. CASE \E y \in Instances : Objects!Running(y)
    <3>1. template = "fixed"
      BY <1>1, <2>3, OnTogether DEF Objects!Start
    <3>2. alone' = alone \ {y \in Instances : Objects!Running(y)}
      BY <1>1, <2>3 DEF Objects!Start
    <3> QED  BY <2>2, <3>1, <3>2 DEF Objects!Absent, Objects!Done, Objects!Failed,
          Objects!Killed
  <2>4. CASE ~\E y \in Instances : Objects!Running(y)
    <3>1. alone' = alone \cup {x}
      BY <1>1, <2>4 DEF Objects!Start
    <3> QED  BY <2>2, <2>4, <3>1 DEF Objects!Absent, Objects!Done, Objects!Failed,
          Objects!Killed
  <2> QED  BY <2>3, <2>4
<1>2. ASSUME NEW x \in Instances, Objects!Step(x) \/ Objects!Kill(x) PROVE OnAlone'
  <2>1. UNCHANGED <<template, alone>>
    BY <1>2 DEF Objects!Step, Objects!Kill, Objects!DropSem, Objects!Work, Objects!Open,
          Objects!UnlinkStale, Objects!Tidy
  <2>2. Objects!Running(x)
    <3>1. CASE Objects!Kill(x)
      BY <3>1 DEF Objects!Kill
    <3>2. CASE Objects!Step(x)
      <4>1. ASSUME NEW name \in Objects!Names, at[x] \in {<<"open", name>>, <<"retry", name>>}
            PROVE  Objects!Running(x)
        BY <4>1 DEF Objects!Absent, Objects!Done, Objects!Failed, Objects!Killed
      <4>2. ASSUME NEW name \in Objects!Names, at[x] \in {<<"unlink", name>>, <<"tidy", name>>}
            PROVE  Objects!Running(x)
        BY <4>2 DEF Objects!Absent, Objects!Done, Objects!Failed, Objects!Killed
      <4>3. ASSUME at[x] \in {<<"drop", "sem">>, <<"work", "sem">>} PROVE Objects!Running(x)
        BY <4>3 DEF Objects!Absent, Objects!Done, Objects!Failed, Objects!Killed
      <4> HIDE DEF Objects!Running, Objects!TypeOK, OnAlone
      <4> QED  BY <3>2, <4>1, <4>2, <4>3 DEF Objects!Step, Objects!DropSem, Objects!Work,
            Objects!Open, Objects!UnlinkStale, Objects!Tidy
    <3> QED  BY <1>2, <3>1, <3>2
  <2>3. PICK place : at' = [at EXCEPT ![x] = place] /\ place # Objects!Absent
    BY <1>2 DEF Objects!Step, Objects!Kill, Objects!DropSem, Objects!Work, Objects!Open,
          Objects!UnlinkStale, Objects!Tidy, Objects!Goto, Objects!After, Objects!TidyAfter,
          Objects!Names,
          Objects!Absent, Objects!Done, Objects!Failed, Objects!Killed
  <2> QED  BY <2>1, <2>2, <2>3
<1>3. CASE UNCHANGED Objects!vars
  BY <1>3 DEF Objects!vars
<1> QED  BY <1>1, <1>2, <1>3 DEF Objects!Next

\* What somebody made who is not at work any more is there because he was killed.
LEMMA OnLeftOver ==
    ASSUME OnInv, NEW x \in alone, at[x] = <<"open", "data">>, template = "template_ds",
           named["data"] # None
    PROVE  named["data"] \in Instances \ {x} /\ at[named["data"]] = Objects!Killed
<1> DEFINE z == named["data"]
<1>1. x \in Instances /\ z \in Instances /\ "data" \in Objects!Names
  BY DEF OnInv, Objects!TypeOK, Objects!Names
<1>2. Objects!Running(x)
  BY DEF Objects!Running, Objects!Absent, Objects!Done, Objects!Failed, Objects!Killed
<1>3. z # x
  <2>1. z = x <=> Owns(at[x], "data")
    BY <1>1, <1>2 DEF OnInv, OnNames, NamesOf
  <2>2. ~Owns(<<"open", "data">>, "data")
    BY DEF Owns
  <2> QED  BY <2>1, <2>2
<1>4. at[z] # Objects!Absent
  BY <1>1 DEF OnInv, OnMade
<1>5. z \in alone /\ ~Objects!Running(z)
  BY <1>1, <1>2, <1>3, <1>4 DEF OnInv, OnAlone
<1>6. at[z] # Objects!Done /\ at[z] # Objects!Failed
  BY <1>1, <1>5 DEF OnInv, OnNames, NamesOf
<1> QED  BY <1>1, <1>3, <1>4, <1>5, <1>6 DEF Objects!Running

\* Who runs alone has all the names it needs.
LEMMA OnNamesStep ==
    ASSUME OnInv, [Objects!Next]_(Objects!vars)
    PROVE  OnNames'
<1> USE InstancesAssumption DEF Objects!TypeOK, Objects!Goto, Objects!Names, Objects!Absent,
      Objects!Done, Objects!Failed, Objects!Killed, Objects!Running, Owns, OnInv, OnMade,
      OnPlaces, OnAlone, OnNames, NamesOf
<1>1. ASSUME NEW x \in Instances, Objects!Start(x) PROVE OnNames'
  BY <1>1 DEF Objects!Start, Objects!Running
<1>2. ASSUME NEW x \in Instances, Objects!DropSem(x) PROVE OnNames'
  BY <1>2 DEF Objects!DropSem
<1>3. ASSUME NEW x \in Instances, Objects!Work(x) PROVE OnNames'
  BY <1>3 DEF Objects!Work
<1>4. ASSUME NEW x \in Instances, NEW name \in Objects!Names, Objects!Open(x, name)
      PROVE OnNames'
  <2>1. UNCHANGED <<template, alone>>
    BY <1>4 DEF Objects!Open
  <2>2. SUFFICES ASSUME NEW y \in alone PROVE NamesOf(y)'
    BY <2>1
  <2>3. CASE y # x
    <3>1. ~Objects!Running(y) /\ Objects!Running(x) /\ at'[y] = at[y]
      BY <1>4, <2>3 DEF Objects!Open
    <3>2. \A other \in Objects!Names : named'[other] = y => named[other] = y
      BY <1>4, <2>3 DEF Objects!Open
    <3>3. CASE at[y] = Objects!Failed
      <4>1. at[x] = <<"open", "data">> /\ name = "data" /\ named["data"] # None
        BY <1>4, <3>1, <3>3 DEF Objects!Open
      <4>2. named' = named /\ at' = [at EXCEPT ![x] = Objects!Failed]
        BY <1>4, <4>1, <3>3 DEF Objects!Open
      <4>3. at'[named["data"]] = Objects!Killed
        <5>1. named["data"] \in Instances /\ at[named["data"]] = Objects!Killed
          BY <3>3
        <5>2. named["data"] # x
          BY <4>1, <5>1
        <5> QED  BY <4>2, <5>1, <5>2
      <4> QED  BY <2>1, <3>1, <3>3, <4>1, <4>2, <4>3
    <3>4. CASE at[y] # Objects!Failed
      BY <2>1, <3>1, <3>2, <3>4
    <3> QED  BY <3>3, <3>4
  <2>4. CASE y = x /\ named[name] = None
    BY <1>4, <2>4 DEF Objects!Open, Objects!After
  <2>5. CASE y = x /\ named[name] # None
    <3>1. name = "data" /\ at[x] = <<"open", "data">> /\ template = "template_ds" =>
              named["data"] # x /\ at[named["data"]] = Objects!Killed
      BY <2>5, OnLeftOver
    <3> QED  BY <1>4, <2>5, <3>1 DEF Objects!Open, Objects!After
  <2> QED  BY <2>3, <2>4, <2>5
<1>5. ASSUME NEW x \in Instances, NEW name \in Objects!Names, Objects!UnlinkStale(x, name)
      PROVE OnNames'
  BY <1>5 DEF Objects!UnlinkStale
<1>6. ASSUME NEW x \in Instances, NEW name \in Objects!Names, Objects!Tidy(x, name)
      PROVE OnNames'
  <2>1. UNCHANGED <<template, alone>> /\ named' = [named EXCEPT ![name] = None]
    BY <1>6 DEF Objects!Tidy
  <2>2. SUFFICES ASSUME NEW y \in alone PROVE NamesOf(y)'
    BY <2>1
  <2>3. CASE y # x
    <3>1. /\ ~Objects!Running(y)
          /\ Objects!Running(x)
          /\ at'[y] = at[y]
          /\ at[x] # <<"open", "data">>
      BY <1>6, <2>3 DEF Objects!Tidy
    <3>2. at[y] # Objects!Failed
      BY <3>1
    <3> QED  BY <2>1, <3>1, <3>2
  <2>4. CASE y = x /\ name = "sem"
    BY <1>6, <2>4 DEF Objects!Tidy, Objects!TidyAfter
  <2>5. CASE y = x /\ name = "data"
    BY <1>6, <2>5 DEF Objects!Tidy, Objects!TidyAfter
  <2>6. CASE y = x /\ name = "ctrl"
    BY <1>6, <2>6 DEF Objects!Tidy, Objects!TidyAfter
  <2> QED  BY <2>3, <2>4, <2>5, <2>6
<1>7. ASSUME NEW x \in Instances, Objects!Kill(x) PROVE OnNames'
  BY <1>7 DEF Objects!Kill
<1>8. CASE UNCHANGED Objects!vars
  BY <1>8 DEF Objects!vars
<1> HIDE DEF OnInv, OnNames, Objects!TypeOK, NamesOf
<1> QED
  BY <1>1, <1>2, <1>3, <1>4, <1>5, <1>6, <1>7, <1>8, OnCases

\* An instance of a template that runs alone comes to its end and leaves nothing
\* behind, whatever earlier ones have left, for any number of instances; only one
\* of template_ds.c fails, and only where one that was killed has left the segment
\* of their pid (the set-up and the tidying-up of the mains of template.c,
\* template_lab.c and template_ds.c).
THEOREM LoneInstancesEnd == FairSpec => []LoneInstanceEnds
<1>1. Init => OnInv
  <2> SUFFICES ASSUME Objects!Init PROVE OnInv
    BY DEF Init
  <2> USE InstancesAssumption DEF Objects!Init, Objects!Absent, Objects!Done, Objects!Failed,
          Objects!Running
  <2>1. Objects!TypeOK
    BY DEF Objects!TypeOK, Objects!Places, Objects!Names
  <2>2. OnMade /\ OnPlaces /\ OnAlone /\ OnNames
    BY DEF OnMade, OnPlaces, OnAlone, OnNames, NamesOf
  <2> QED  BY <2>1, <2>2 DEF OnInv
<1>2. OnInv /\ [Next]_vars => OnInv'
  BY ObjectsMoves, OnType, OnMadeStep, OnPlacesStep, OnAloneStep, OnNamesStep DEF OnInv
<1>3. OnInv => LoneInstanceEnds
  <2> SUFFICES ASSUME OnInv PROVE Objects!LoneInstanceEnds
    BY DEF LoneInstanceEnds
  <2>1. Objects!TypeOK
    BY DEF OnInv
  <2>2. ASSUME NEW x \in alone
        PROVE  /\ at[x] = Objects!Failed =>
                     /\ template = "template_ds" /\ named["data"] # None
                     /\ at[named["data"]] = Objects!Killed
               /\ at[x] = Objects!Done => \A name \in Objects!Names : named[name] # x
    BY DEF OnInv, OnNames, NamesOf
  <2> QED  BY <2>1, <2>2 DEF Objects!LoneInstanceEnds
<1> QED  BY <1>1, <1>2, <1>3, PTL DEF FairSpec

(***************************************************************************)
(* SignalWriters: lab2_z1.c and lab2_1_2.c.                                *)
(***************************************************************************)

\* A child of lab2_z1.c inherits that SIGUSR1 is ignored.
WrIgnores ==
    /\ writer = "lab2_z1" /\ wrMain \notin {"ignore", "dead"}
          => wrSig[Parent].disp["SIGUSR1"] = "ignore"
    /\ writer = "lab2_z1" =>
          \A c \in Children :
              Writers!Runs(c) => wrMain # "ignore" /\ wrSig[c].disp["SIGUSR1"] = "ignore"

\* A child has written no more blocks than SIGUSR1 have been sent, the one that waits
\* for it excepted, until it makes up for the others, written or failed.
BlocksOf(c) ==
    /\ wrChild[c] # "gone" <=> wrFate[c] \notin {"done", "failed", "struck"}
    /\ wrChild[c] = "unborn" => blocks[c] = 0
    /\ wrChild[c] = "look" => writer = "lab2_z1"
    /\ Writers!Runs(c) /\ "SIGUSR1" \in wrSig[c].pending => blocks[c] + 1 <= sent
    /\ \/ blocks[c] <= sent
       \/ writer = "lab2_z1" /\ wrFate[c] = "done" /\ blocks[c] <= Blocks
    /\ writer = "lab2_z1" /\ wrFate[c] = "done" => blocks[c] + unmade[c] >= Blocks
WrBlocks == \A c \in Children : BlocksOf(c)

WrInv == Writers!TypeOK /\ WrIgnores /\ WrBlocks

\* kill().
LEMMA WrSent ==
    ASSUME NEW p \in Writers!SignalStates(Writers!Sigs), NEW v \in Writers!Sigs
    PROVE  /\ Writers!Sent(p, v) \in Writers!SignalStates(Writers!Sigs)
           /\ Writers!Sent(p, v).disp = p.disp
           /\ Writers!Sent(p, v).pending \in {p.pending, p.pending \cup {v}}
BY DEF Writers!Sent, Writers!SignalStates

\* sigaction().
LEMMA WrDisposed ==
    ASSUME NEW p \in Writers!SignalStates(Writers!Sigs), NEW v \in Writers!Sigs,
           NEW how \in {"ignore", "handler"}
    PROVE  /\ Writers!Disposed(p, v, how) \in Writers!SignalStates(Writers!Sigs)
           /\ Writers!Disposed(p, v, how).disp = [p.disp EXCEPT ![v] = how]
           /\ Writers!Disposed(p, v, how).pending \subseteq p.pending
BY DEF Writers!Disposed, Writers!SignalStates

\* sigprocmask().
LEMMA WrBlocked ==
    ASSUME NEW p \in Writers!SignalStates(Writers!Sigs), NEW w \in SUBSET Writers!Sigs
    PROVE  /\ Writers!Blocked(p, w) \in Writers!SignalStates(Writers!Sigs)
           /\ Writers!Blocked(p, w).disp = p.disp /\ Writers!Blocked(p, w).pending = p.pending
BY DEF Writers!Blocked, Writers!SignalStates

\* fork().
LEMMA WrForked ==
    ASSUME NEW p \in Writers!SignalStates(Writers!Sigs)
    PROVE  /\ Writers!Forked(p) \in Writers!SignalStates(Writers!Sigs)
           /\ Writers!Forked(p).disp = p.disp
           /\ Writers!Forked(p).pending = {}
BY DEF Writers!Forked, Writers!SignalStates

\* A signal is taken.
LEMMA WrTaken ==
    ASSUME NEW p \in Writers!SignalStates(Writers!Sigs), NEW v \in Writers!Sigs
    PROVE  /\ Writers!Taken(p, v) \in Writers!SignalStates(Writers!Sigs)
           /\ Writers!Taken(p, v).disp = p.disp
           /\ Writers!Taken(p, v).pending = p.pending \ {v}
BY DEF Writers!Taken, Writers!SignalStates

\* The steps of the programs.
LEMMA WrCases ==
    ASSUME Writers!Next
    PROVE  \/ Writers!Ignore \/ Writers!AllForked \/ Writers!Send \/ Writers!WaitForAll
           \/ Writers!Interrupt \/ Writers!ParentStruck
           \/ \E c \in Children :
                  \/ Writers!Fork(c) \/ Writers!OpenFile(c) \/ Writers!OpenFails(c)
                  \/ Writers!Block(c) \/ Writers!Look(c) \/ Writers!WriteBlock(c)
                  \/ Writers!WriteFails(c) \/ Writers!Finish(c) \/ Writers!Age(c)
                  \/ Writers!Struck(c)
BY DEF Writers!Next, Writers!ParentStep, Writers!ChildStep

\* The parent is no child.
LEMMA WrProcs ==
    Parent \notin Children /\ Parent \in Writers!Procs /\ Children \subseteq Writers!Procs
BY YoungAssumption DEF Writers!Procs, Children

\* The blocks of a child.
LEMMA WrNumbers ==
    /\ Rounds \in Nat /\ Blocks \in Nat
    /\ \A m \in Int : 0 <= m /\ m <= Blocks => m \in 0 .. Blocks
    /\ \A m \in 0 .. Rounds + Blocks : m \in Int /\ 0 <= m /\ m <= Rounds + Blocks
    /\ \A m \in Int : 0 <= m /\ m <= Rounds + Blocks => m \in 0 .. Rounds + Blocks
    /\ \A m \in 0 .. Rounds : m \in Int /\ 0 <= m /\ m <= Rounds
    /\ \A m \in Int : 0 <= m /\ m <= Rounds => m \in 0 .. Rounds
BY SignalsAssumption

\* The blocks a child of lab2_z1.c has written in the end, and those it could not
\* write.
LEMMA WrMakesUp ==
    ASSUME Writers!TypeOK, NEW c \in Children, Writers!MakeUp(c)
    PROVE  \E m \in 0 .. Rounds + Blocks, l \in 0 .. Blocks :
               /\ blocks' = [blocks EXCEPT ![c] = m] /\ unmade' = [unmade EXCEPT ![c] = l]
               /\ m = blocks[c] \/ m <= Blocks
               /\ m + l >= Blocks
<1>1. PICK m \in blocks[c] .. Writers!MadeUp(blocks[c]) :
        /\ blocks' = [blocks EXCEPT ![c] = m]
        /\ unmade' = [unmade EXCEPT ![c] = Writers!MadeUp(blocks[c]) - m]
  BY DEF Writers!MakeUp
<1>2. blocks[c] \in 0 .. Rounds + Blocks
  BY DEF Writers!TypeOK
<1> DEFINE b == blocks[c]
           w == Writers!MadeUp(b)
<1>3. b \in Int /\ 0 <= b /\ b <= Rounds + Blocks
  BY ONLY <1>2, WrNumbers
<1>4. w \in Int /\ w >= Blocks /\ (w = b \/ (w = Blocks /\ b < Blocks))
  BY ONLY <1>3, WrNumbers DEF Writers!MadeUp
<1>5. m \in Int /\ b <= m /\ m <= w
  BY ONLY <1>1, <1>3, <1>4
<1> HIDE DEF b, w
<1>6. m \in Int /\ 0 <= m /\ m <= Rounds + Blocks /\ (m = b \/ m <= Blocks)
  BY ONLY <1>3, <1>4, <1>5, WrNumbers
<1>7. w - m \in Int /\ 0 <= w - m /\ w - m <= Blocks /\ m + (w - m) >= Blocks
  BY ONLY <1>3, <1>4, <1>5, WrNumbers
<1>8. m \in 0 .. Rounds + Blocks /\ w - m \in 0 .. Blocks
  BY ONLY <1>6, <1>7, WrNumbers
<1>9. /\ blocks' = [blocks EXCEPT ![c] = m] /\ unmade' = [unmade EXCEPT ![c] = w - m]
      /\ m = blocks[c] \/ m <= Blocks
  BY <1>1, <1>6 DEF b, w
<1> QED  BY ONLY <1>7, <1>8, <1>9

\* What the steps do to the signals of the processes.
LEMMA WrSends ==
    ASSUME Writers!TypeOK, NEW v \in Writers!Sigs, wrSig' = Writers!SentToAll(v)
    PROVE  /\ wrSig' \in [Writers!Procs -> Writers!SignalStates(Writers!Sigs)]
           /\ \A p \in Writers!Procs :
                 /\ wrSig'[p].disp = wrSig[p].disp
                 /\ wrSig'[p].pending \in {wrSig[p].pending, wrSig[p].pending \cup {v}}
BY WrSent DEF Writers!TypeOK, Writers!SentToAll

\* What the parent does before it forks.
LEMMA WrIgnoreEffect ==
    ASSUME Writers!TypeOK, Writers!Ignore
    PROVE  /\ wrSig' \in [Writers!Procs -> Writers!SignalStates(Writers!Sigs)]
           /\ wrSig'[Parent].disp["SIGUSR1"] = "ignore"
           /\ \A c \in Children : wrSig'[c] = wrSig[c]
<1> DEFINE q == Writers!Disposed(wrSig[Parent], "SIGUSR1", "ignore")
<1>1. /\ q \in Writers!SignalStates(Writers!Sigs)
      /\ q.disp = [wrSig[Parent].disp EXCEPT !["SIGUSR1"] = "ignore"]
  BY WrProcs, WrDisposed DEF Writers!TypeOK, Writers!Sigs
<1>2. wrSig[Parent].disp \in [Writers!Sigs -> {"default", "ignore", "handler"}]
  BY WrProcs DEF Writers!TypeOK, Writers!SignalStates
<1>3. wrSig' = [wrSig EXCEPT ![Parent] = q]
  BY DEF Writers!Ignore
<1> HIDE DEF q
<1> QED  BY <1>1, <1>2, <1>3, WrProcs DEF Writers!TypeOK, Writers!Sigs

\* A child inherits what the parent does with its signals.
LEMMA WrForkEffect ==
    ASSUME Writers!TypeOK, NEW c \in Children, Writers!Fork(c)
    PROVE  /\ wrSig' \in [Writers!Procs -> Writers!SignalStates(Writers!Sigs)]
           /\ wrSig'[c].disp = wrSig[Parent].disp /\ wrSig'[c].pending = {}
           /\ \A p \in Writers!Procs : p # c => wrSig'[p] = wrSig[p]
<1> DEFINE q == Writers!Forked(wrSig[Parent])
<1>1. q \in Writers!SignalStates(Writers!Sigs) /\ q.disp = wrSig[Parent].disp /\ q.pending = {}
  BY WrProcs, WrForked DEF Writers!TypeOK
<1>2. wrSig' = [wrSig EXCEPT ![c] = q]
  BY DEF Writers!Fork
<1> HIDE DEF q
<1> QED  BY <1>1, <1>2, WrProcs DEF Writers!TypeOK

\* A child of lab2_1_2.c blocks SIGUSR1.
LEMMA WrBlockEffect ==
    ASSUME Writers!TypeOK, NEW c \in Children, Writers!Block(c)
    PROVE  /\ wrSig' \in [Writers!Procs -> Writers!SignalStates(Writers!Sigs)]
           /\ \A p \in Writers!Procs :
                 /\ wrSig'[p].disp = wrSig[p].disp
                 /\ wrSig'[p].pending = wrSig[p].pending
<1> DEFINE q == Writers!Blocked(wrSig[c], Writers!Sigs)
<1>1. /\ q \in Writers!SignalStates(Writers!Sigs)
      /\ q.disp = wrSig[c].disp
      /\ q.pending = wrSig[c].pending
  BY WrProcs, WrBlocked DEF Writers!TypeOK
<1>2. wrSig' = [wrSig EXCEPT ![c] = q]
  BY DEF Writers!Block
<1> HIDE DEF q
<1> QED  BY <1>1, <1>2, WrProcs DEF Writers!TypeOK

\* A child takes SIGUSR1.
LEMMA WrWriteEffect ==
    ASSUME Writers!TypeOK, NEW c \in Children, Writers!TakeUsr1(c)
    PROVE  /\ wrSig' \in [Writers!Procs -> Writers!SignalStates(Writers!Sigs)]
           /\ \A p \in Writers!Procs :
                 /\ wrSig'[p].disp = wrSig[p].disp
                 /\ (p # c => wrSig'[p] = wrSig[p])
           /\ "SIGUSR1" \in wrSig[c].pending /\ "SIGUSR1" \notin wrSig'[c].pending
<1> DEFINE q == Writers!Taken(wrSig[c], "SIGUSR1")
<1>1. /\ q \in Writers!SignalStates(Writers!Sigs) /\ q.disp = wrSig[c].disp
      /\ q.pending = wrSig[c].pending \ {"SIGUSR1"}
  BY WrProcs, WrTaken DEF Writers!TypeOK, Writers!Sigs
<1>2. wrSig' = [wrSig EXCEPT ![c] = q] /\ "SIGUSR1" \in wrSig[c].pending
  BY DEF Writers!TakeUsr1, Writers!Waited
<1> HIDE DEF q
<1> QED  BY <1>1, <1>2, WrProcs DEF Writers!TypeOK

\* The alarm of a child.
LEMMA WrAgeEffect ==
    ASSUME Writers!TypeOK, NEW c \in Children, Writers!Age(c)
    PROVE  /\ wrSig' \in [Writers!Procs -> Writers!SignalStates(Writers!Sigs)]
           /\ \A p \in Writers!Procs :
                 /\ wrSig'[p].disp = wrSig[p].disp
                 /\ "SIGUSR1" \in wrSig'[p].pending <=> "SIGUSR1" \in wrSig[p].pending
<1> DEFINE q == Writers!Sent(wrSig[c], "SIGALRM")
<1>1. /\ q \in Writers!SignalStates(Writers!Sigs) /\ q.disp = wrSig[c].disp
      /\ q.pending \in {wrSig[c].pending, wrSig[c].pending \cup {"SIGALRM"}}
  BY WrProcs, WrSent DEF Writers!TypeOK, Writers!Sigs
<1>2. wrSig' = wrSig \/ wrSig' = [wrSig EXCEPT ![c] = q]
  BY DEF Writers!Age
<1> HIDE DEF q
<1>3. CASE wrSig' = wrSig
  BY <1>3 DEF Writers!TypeOK
<1>4. CASE wrSig' = [wrSig EXCEPT ![c] = q]
  BY <1>1, <1>4, WrProcs DEF Writers!TypeOK
<1> QED  BY <1>2, <1>3, <1>4

\* The types are preserved.
LEMMA WrType ==
    ASSUME Writers!TypeOK, WrBlocks, [Writers!Next]_(Writers!vars)
    PROVE  Writers!TypeOK'
<1> USE SignalsAssumption DEF Writers!TypeOK, Writers!Goto, Writers!Ends
<1>1. ASSUME Writers!Ignore PROVE Writers!TypeOK'
  BY <1>1, WrIgnoreEffect DEF Writers!Ignore
<1>2. ASSUME NEW c \in Children, Writers!Fork(c) PROVE Writers!TypeOK'
  BY <1>2, WrForkEffect DEF Writers!Fork
<1>3. ASSUME Writers!AllForked PROVE Writers!TypeOK'
  BY <1>3 DEF Writers!AllForked
<1>4. ASSUME Writers!Send PROVE Writers!TypeOK'
  <2>1. wrSig' \in [Writers!Procs -> Writers!SignalStates(Writers!Sigs)]
    BY <1>4, WrSends DEF Writers!Send, Writers!Sigs
  <2>2. sent \in Int /\ 0 <= sent /\ sent < Rounds /\ sent' = sent + 1
    BY <1>4, WrNumbers DEF Writers!Send
  <2>3. sent' \in 0 .. Rounds
    BY ONLY <2>2, WrNumbers
  <2> QED  BY <1>4, <2>1, <2>3 DEF Writers!Send
<1>5. ASSUME Writers!WaitForAll PROVE Writers!TypeOK'
  BY <1>5 DEF Writers!WaitForAll
<1>6. ASSUME NEW c \in Children, Writers!OpenFile(c) PROVE Writers!TypeOK'
  BY <1>6 DEF Writers!OpenFile
<1>7. ASSUME NEW c \in Children, Writers!OpenFails(c) PROVE Writers!TypeOK'
  BY <1>7 DEF Writers!OpenFails
<1>8. ASSUME NEW c \in Children, Writers!Block(c) PROVE Writers!TypeOK'
  BY <1>8, WrBlockEffect DEF Writers!Block
<1>9. ASSUME NEW c \in Children, Writers!Look(c) PROVE Writers!TypeOK'
  <2>1. ASSUME Writers!MakeUp(c)
        PROVE  /\ blocks' \in [Children -> 0 .. Rounds + Blocks]
               /\ unmade' \in [Children -> 0 .. Blocks]
    BY <2>1, WrMakesUp
  <2>2. /\ blocks' \in [Children -> 0 .. Rounds + Blocks]
        /\ unmade' \in [Children -> 0 .. Blocks]
    BY <1>9, <2>1 DEF Writers!Look
  <2> QED  BY <1>9, <2>2 DEF Writers!Look
<1>10. ASSUME NEW c \in Children, Writers!WriteBlock(c) PROVE Writers!TypeOK'
  <2>1. /\ wrSig' \in [Writers!Procs -> Writers!SignalStates(Writers!Sigs)]
        /\ "SIGUSR1" \in wrSig[c].pending
    BY <1>10, WrWriteEffect DEF Writers!WriteBlock
  <2>2. blocks[c] + 1 <= sent
    BY <1>10, <2>1, WrNumbers DEF Writers!WriteBlock, Writers!TakeUsr1, WrBlocks, BlocksOf, Writers!Runs
  <2>3. blocks[c] \in Int /\ 0 <= blocks[c] /\ sent \in Int /\ sent <= Rounds
    BY WrNumbers
  <2>4. blocks[c] + 1 \in 0 .. Rounds + Blocks
    BY ONLY <2>2, <2>3, WrNumbers
  <2> QED  BY <1>10, <2>1, <2>4 DEF Writers!WriteBlock, Writers!TakeUsr1
<1>11. ASSUME NEW c \in Children, Writers!Finish(c) PROVE Writers!TypeOK'
  <2>1. ASSUME Writers!MakeUp(c)
        PROVE  /\ blocks' \in [Children -> 0 .. Rounds + Blocks]
               /\ unmade' \in [Children -> 0 .. Blocks]
    BY <2>1, WrMakesUp
  <2>2. /\ blocks' \in [Children -> 0 .. Rounds + Blocks]
        /\ unmade' \in [Children -> 0 .. Blocks]
    BY <1>11, <2>1 DEF Writers!Finish
  <2> QED  BY <1>11, <2>2 DEF Writers!Finish
<1>12. ASSUME NEW c \in Children, Writers!Age(c) PROVE Writers!TypeOK'
  BY <1>12, WrAgeEffect DEF Writers!Age
<1>13. ASSUME Writers!Interrupt PROVE Writers!TypeOK'
  BY <1>13, WrSends DEF Writers!Interrupt, Writers!Sigs
<1>14. ASSUME NEW c \in Children, Writers!Struck(c) PROVE Writers!TypeOK'
  BY <1>14 DEF Writers!Struck
<1>15. ASSUME Writers!ParentStruck PROVE Writers!TypeOK'
  BY <1>15 DEF Writers!ParentStruck
<1>16. CASE UNCHANGED Writers!vars
  BY <1>16 DEF Writers!vars
<1>17. ASSUME NEW c \in Children, Writers!WriteFails(c) PROVE Writers!TypeOK'
  <2>1. wrSig' \in [Writers!Procs -> Writers!SignalStates(Writers!Sigs)]
    BY <1>17, WrWriteEffect DEF Writers!WriteFails
  <2> QED  BY <1>17, <2>1 DEF Writers!WriteFails, Writers!TakeUsr1
<1> QED
  BY <1>1, <1>2, <1>3, <1>4, <1>5, <1>6, <1>7, <1>8, <1>9, <1>10, <1>11, <1>12,
     <1>13, <1>14, <1>15, <1>16, <1>17, WrCases

\* SIGUSR1 stays ignored.
LEMMA WrIgnoresStep ==
    ASSUME Writers!TypeOK, WrIgnores, [Writers!Next]_(Writers!vars)
    PROVE  WrIgnores'
<1> USE WrProcs DEF Writers!TypeOK, Writers!Goto, Writers!Ends, Writers!Runs, WrIgnores
<1>1. ASSUME Writers!Ignore PROVE WrIgnores'
  BY <1>1, WrIgnoreEffect DEF Writers!Ignore
<1>2. ASSUME NEW c \in Children, Writers!Fork(c) PROVE WrIgnores'
  BY <1>2, WrForkEffect DEF Writers!Fork
<1>3. ASSUME Writers!AllForked PROVE WrIgnores'
  BY <1>3 DEF Writers!AllForked
<1>4. ASSUME Writers!Send PROVE WrIgnores'
  BY <1>4, WrSends DEF Writers!Send, Writers!Sigs
<1>5. ASSUME Writers!WaitForAll PROVE WrIgnores'
  BY <1>5 DEF Writers!WaitForAll
<1>6. ASSUME NEW c \in Children, Writers!OpenFile(c) PROVE WrIgnores'
  BY <1>6 DEF Writers!OpenFile
<1>7. ASSUME NEW c \in Children, Writers!OpenFails(c) PROVE WrIgnores'
  BY <1>7 DEF Writers!OpenFails
<1>8. ASSUME NEW c \in Children, Writers!Block(c) PROVE WrIgnores'
  BY <1>8, WrBlockEffect, ZenonT(40) DEF Writers!Block
<1>9. ASSUME NEW c \in Children, Writers!Look(c) PROVE WrIgnores'
  BY <1>9 DEF Writers!Look
<1>10. ASSUME NEW c \in Children, Writers!TakeUsr1(c) PROVE WrIgnores'
  <2>1. \A p \in Writers!Procs : wrSig'[p].disp = wrSig[p].disp
    BY <1>10, WrWriteEffect
  <2> QED  BY <1>10, <2>1 DEF Writers!TakeUsr1
<1>11. ASSUME NEW c \in Children, Writers!Finish(c) PROVE WrIgnores'
  BY <1>11 DEF Writers!Finish
<1>12. ASSUME NEW c \in Children, Writers!Age(c) PROVE WrIgnores'
  BY <1>12, WrAgeEffect DEF Writers!Age
<1>13. ASSUME Writers!Interrupt PROVE WrIgnores'
  BY <1>13, WrSends DEF Writers!Interrupt, Writers!Sigs
<1>14. ASSUME NEW c \in Children, Writers!Struck(c) PROVE WrIgnores'
  BY <1>14 DEF Writers!Struck
<1>15. ASSUME Writers!ParentStruck PROVE WrIgnores'
  BY <1>15 DEF Writers!ParentStruck
<1>16. CASE UNCHANGED Writers!vars
  BY <1>16 DEF Writers!vars
<1> QED
  BY <1>1, <1>2, <1>3, <1>4, <1>5, <1>6, <1>7, <1>8, <1>9, <1>10, <1>11, <1>12,
     <1>13, <1>14, <1>15, <1>16, WrCases DEF Writers!WriteBlock, Writers!WriteFails

\* A block is written for a signal, or made up.
LEMMA WrBlocksStep ==
    ASSUME Writers!TypeOK, WrBlocks, [Writers!Next]_(Writers!vars)
    PROVE  WrBlocks'
<1>0. /\ sent \in Int /\ 0 <= sent /\ Blocks \in Int /\ 0 <= Blocks
      /\ \A d \in Children :
            blocks[d] \in Int /\ 0 <= blocks[d] /\ unmade[d] \in Int /\ 0 <= unmade[d]
  <2>1. /\ sent \in 0 .. Rounds /\ blocks \in [Children -> 0 .. Rounds + Blocks]
        /\ unmade \in [Children -> 0 .. Blocks]
    BY DEF Writers!TypeOK
  <2> QED  BY ONLY <2>1, SignalsAssumption
<1> USE <1>0, WrProcs DEF WrBlocks
<1>1. ASSUME Writers!Ignore PROVE WrBlocks'
  <2> SUFFICES ASSUME NEW d \in Children PROVE BlocksOf(d)'
    OBVIOUS
  <2>0. d \in Children
    OBVIOUS
  <2> QED  BY <1>1, WrIgnoreEffect DEF Writers!TypeOK, Writers!Goto, Writers!Ends,
        Writers!Runs, BlocksOf, Writers!Ignore
<1>2. ASSUME NEW c \in Children, Writers!Fork(c) PROVE WrBlocks'
  <2> SUFFICES ASSUME NEW d \in Children PROVE BlocksOf(d)'
    OBVIOUS
  <2>0. d \in Children /\ c \in Children
    OBVIOUS
  <2>1. CASE d # c
    BY <1>2, <2>1, WrForkEffect DEF Writers!TypeOK, Writers!Goto, Writers!Ends, Writers!Runs,
          BlocksOf, Writers!Fork
  <2>2. CASE d = c
    <3>1. wrSig'[c].pending = {}
      BY <1>2, WrForkEffect
    <3>2. /\ wrFate[c] \notin {"done", "failed", "struck"}
          /\ blocks[c] = 0
          /\ UNCHANGED <<writer, wrFate, blocks, unmade, sent>>
      BY <1>2 DEF Writers!Fork, BlocksOf
    <3>3. wrChild'[c] \in {"open", "block"}
      BY <1>2 DEF Writers!Fork, Writers!Goto, Writers!TypeOK
    <3> QED  BY ONLY <1>0, <2>0, <2>2, <3>1, <3>2, <3>3 DEF BlocksOf, Writers!Runs
  <2> QED  BY <2>1, <2>2
<1>3. ASSUME Writers!AllForked PROVE WrBlocks'
  <2> SUFFICES ASSUME NEW d \in Children PROVE BlocksOf(d)'
    OBVIOUS
  <2>0. d \in Children
    OBVIOUS
  <2> QED  BY <1>3 DEF Writers!TypeOK, Writers!Goto, Writers!Ends, Writers!Runs, BlocksOf,
        Writers!AllForked
<1>4. ASSUME Writers!Send PROVE WrBlocks'
  <2> SUFFICES ASSUME NEW d \in Children PROVE BlocksOf(d)'
    OBVIOUS
  <2>0. d \in Children
    OBVIOUS
  <2>1. wrSig'[d].pending \in {wrSig[d].pending, wrSig[d].pending \cup {"SIGUSR1"}}
    BY <1>4, WrSends DEF Writers!Send, Writers!Sigs
  <2>2. sent' = sent + 1 /\ UNCHANGED <<writer, wrChild, wrFate, blocks, unmade>>
    BY <1>4 DEF Writers!Send
  <2> QED  BY <2>1, <2>2 DEF BlocksOf, Writers!Runs
<1>5. ASSUME Writers!WaitForAll PROVE WrBlocks'
  <2> SUFFICES ASSUME NEW d \in Children PROVE BlocksOf(d)'
    OBVIOUS
  <2>0. d \in Children
    OBVIOUS
  <2> QED  BY <1>5 DEF Writers!TypeOK, Writers!Goto, Writers!Ends, Writers!Runs, BlocksOf,
        Writers!WaitForAll
<1>6. ASSUME NEW c \in Children, Writers!OpenFile(c) PROVE WrBlocks'
  <2> SUFFICES ASSUME NEW d \in Children PROVE BlocksOf(d)'
    OBVIOUS
  <2>0. d \in Children /\ c \in Children
    OBVIOUS
  <2>1. CASE d # c
    BY <1>6, <2>1 DEF Writers!TypeOK, Writers!Goto, Writers!Ends, Writers!Runs, BlocksOf,
          Writers!OpenFile
  <2>2. CASE d = c
    BY <1>6, <2>2 DEF Writers!TypeOK, Writers!Goto, Writers!Ends, Writers!Runs, BlocksOf,
          Writers!OpenFile
  <2> QED  BY <2>1, <2>2
<1>7. ASSUME NEW c \in Children, Writers!OpenFails(c) PROVE WrBlocks'
  <2> SUFFICES ASSUME NEW d \in Children PROVE BlocksOf(d)'
    OBVIOUS
  <2>0. d \in Children /\ c \in Children
    OBVIOUS
  <2>1. CASE d # c
    BY <1>7, <2>1 DEF Writers!TypeOK, Writers!Goto, Writers!Ends, Writers!Runs, BlocksOf,
          Writers!OpenFails
  <2>2. CASE d = c
    BY <1>7, <2>2 DEF Writers!TypeOK, Writers!Goto, Writers!Ends, Writers!Runs, BlocksOf,
          Writers!OpenFails
  <2> QED  BY <2>1, <2>2
<1>8. ASSUME NEW c \in Children, Writers!Block(c) PROVE WrBlocks'
  <2> SUFFICES ASSUME NEW d \in Children PROVE BlocksOf(d)'
    OBVIOUS
  <2>0. d \in Children /\ c \in Children
    OBVIOUS
  <2>1. CASE d # c
    BY <1>8, <2>1, WrBlockEffect DEF Writers!TypeOK, Writers!Goto, Writers!Ends, Writers!Runs,
          BlocksOf, Writers!Block
  <2>2. CASE d = c
    BY <1>8, <2>2, WrBlockEffect DEF Writers!TypeOK, Writers!Goto, Writers!Ends, Writers!Runs,
          BlocksOf, Writers!Block
  <2> QED  BY <2>1, <2>2
<1>9. ASSUME NEW c \in Children, Writers!Look(c) PROVE WrBlocks'
  <2> SUFFICES ASSUME NEW d \in Children PROVE BlocksOf(d)'
    OBVIOUS
  <2>0. d \in Children /\ c \in Children
    OBVIOUS
  <2>1. CASE d # c
    <3>1. /\ UNCHANGED <<writer, wrSig, sent>>
          /\ wrChild'[d] = wrChild[d] /\ wrFate'[d] = wrFate[d]
      BY <1>9, <2>1 DEF Writers!TypeOK, Writers!Goto, Writers!Ends, Writers!Look
    <3>2. blocks'[d] = blocks[d] /\ unmade'[d] = unmade[d]
      <4>1. ASSUME Writers!MakeUp(c) PROVE blocks'[d] = blocks[d] /\ unmade'[d] = unmade[d]
        BY <2>1, <4>1 DEF Writers!MakeUp, Writers!TypeOK
      <4> QED  BY <1>9, <4>1 DEF Writers!Look
    <3> QED  BY <3>1, <3>2 DEF BlocksOf, Writers!Runs
  <2>2. CASE d = c
    <3>1. ASSUME Writers!MakeUp(c)
          PROVE  \E m, l \in Int : /\ blocks'[c] = m /\ unmade'[c] = l /\ m + l >= Blocks
                                   /\ m = blocks[c] \/ m <= Blocks
      BY <3>1, WrMakesUp, WrNumbers DEF Writers!TypeOK
    <3>2. /\ UNCHANGED <<writer, wrSig, sent>>
          /\ wrFate[c] \notin {"done", "failed", "struck"}
          /\ blocks[c] <= sent
      BY <1>9 DEF Writers!Look, BlocksOf
    <3>3. CASE wrFate'[c] # "done"
      <4>1. wrChild'[c] = "wait" /\ UNCHANGED <<wrFate, blocks, unmade>>
        BY <1>9, <3>2, <3>3 DEF Writers!Look, Writers!Goto, Writers!Ends, Writers!TypeOK
      <4>2. BlocksOf(c) /\ Writers!Runs(c)
        BY <1>9 DEF Writers!Look, Writers!Runs
      <4> QED  BY ONLY <1>0, <2>0, <2>2, <3>2, <4>1, <4>2 DEF BlocksOf, Writers!Runs
    <3>4. CASE wrFate'[c] = "done"
      <4>1. wrChild'[c] = "gone" /\ wrFate'[c] = "done"
        BY <1>9, <3>2, <3>4 DEF Writers!Look, Writers!Goto, Writers!Ends, Writers!TypeOK
      <4>2. \/ /\ writer = "lab2_z1"
               /\ \E m, l \in Int : /\ blocks'[c] = m /\ unmade'[c] = l /\ m + l >= Blocks
                                    /\ m = blocks[c] \/ m <= Blocks
            \/ writer # "lab2_z1" /\ blocks'[c] = blocks[c]
        BY <1>9, <3>1, <3>2, <3>4 DEF Writers!Look, Writers!Goto, Writers!TypeOK, BlocksOf
      <4> QED  BY ONLY <1>0, <2>0, <2>2, <3>2, <4>1, <4>2 DEF BlocksOf, Writers!Runs
    <3> QED  BY <3>3, <3>4
  <2> QED  BY <2>1, <2>2
<1>10. ASSUME NEW c \in Children, Writers!WriteBlock(c) \/ Writers!WriteFails(c) PROVE WrBlocks'
  <2> SUFFICES ASSUME NEW d \in Children PROVE BlocksOf(d)'
    OBVIOUS
  <2>0. d \in Children /\ c \in Children
    OBVIOUS
  <2>1. Writers!TakeUsr1(c)
    BY <1>10 DEF Writers!WriteBlock, Writers!WriteFails
  <2>2. CASE d # c
    <3>1. wrSig'[d] = wrSig[d] /\ UNCHANGED <<writer, wrFate, unmade, sent>>
      BY <2>1, <2>2, WrWriteEffect DEF Writers!TakeUsr1
    <3>2. wrChild'[d] = wrChild[d] /\ blocks'[d] = blocks[d]
      BY <1>10, <2>1, <2>2 DEF Writers!WriteBlock, Writers!WriteFails, Writers!TakeUsr1,
            Writers!Goto, Writers!TypeOK
    <3> QED  BY <3>1, <3>2 DEF BlocksOf, Writers!Runs
  <2>3. CASE d = c
    <3>1. "SIGUSR1" \in wrSig[c].pending /\ "SIGUSR1" \notin wrSig'[c].pending
      BY <2>1, WrWriteEffect
    <3>2. /\ wrChild'[c] \in {"look", "wait"}
          /\ wrChild[c] = "wait"
          /\ UNCHANGED <<writer, wrFate, unmade, sent>>
          /\ (wrChild'[c] = "look" => writer = "lab2_z1")
      BY <2>1 DEF Writers!TakeUsr1, Writers!Goto, Writers!TypeOK
    <3>3. blocks'[c] = blocks[c] + 1 \/ blocks'[c] = blocks[c]
      BY <1>10 DEF Writers!WriteBlock, Writers!WriteFails, Writers!TypeOK
    <3>4. wrFate[c] \notin {"done", "failed", "struck"} /\ blocks[c] + 1 <= sent
      BY <3>1, <3>2 DEF BlocksOf, Writers!Runs
    <3> QED  BY ONLY <1>0, <2>0, <2>3, <3>1, <3>2, <3>3, <3>4 DEF BlocksOf, Writers!Runs
  <2> QED  BY <2>2, <2>3
<1>11. ASSUME NEW c \in Children, Writers!Finish(c) PROVE WrBlocks'
  <2> SUFFICES ASSUME NEW d \in Children PROVE BlocksOf(d)'
    OBVIOUS
  <2>0. d \in Children /\ c \in Children
    OBVIOUS
  <2>1. CASE d # c
    <3>1. /\ UNCHANGED <<writer, wrSig, sent>>
          /\ wrChild'[d] = wrChild[d] /\ wrFate'[d] = wrFate[d]
      BY <1>11, <2>1 DEF Writers!TypeOK, Writers!Goto, Writers!Ends, Writers!Finish
    <3>2. blocks'[d] = blocks[d] /\ unmade'[d] = unmade[d]
      <4>1. ASSUME Writers!MakeUp(c) PROVE blocks'[d] = blocks[d] /\ unmade'[d] = unmade[d]
        BY <2>1, <4>1 DEF Writers!MakeUp, Writers!TypeOK
      <4> QED  BY <1>11, <4>1 DEF Writers!Finish
    <3> QED  BY <3>1, <3>2 DEF BlocksOf, Writers!Runs
  <2>2. CASE d = c
    <3>1. ASSUME Writers!MakeUp(c)
          PROVE  \E m, l \in Int : /\ blocks'[c] = m /\ unmade'[c] = l /\ m + l >= Blocks
                                   /\ m = blocks[c] \/ m <= Blocks
      BY <3>1, WrMakesUp, WrNumbers DEF Writers!TypeOK
    <3>2. /\ UNCHANGED <<writer, wrSig, sent>>
          /\ wrFate[c] \notin {"done", "failed", "struck"}
          /\ blocks[c] <= sent
      BY <1>11 DEF Writers!Finish, BlocksOf
    <3>3. CASE wrFate'[c] # "done"
      <4>1. wrChild'[c] = "wait" /\ UNCHANGED <<wrFate, blocks, unmade>>
        BY <1>11, <3>2, <3>3 DEF Writers!Finish, Writers!Goto, Writers!Ends, Writers!TypeOK
      <4>2. BlocksOf(c) /\ Writers!Runs(c)
        BY <1>11 DEF Writers!Finish, Writers!Runs
      <4> QED  BY ONLY <1>0, <2>0, <2>2, <3>2, <4>1, <4>2 DEF BlocksOf, Writers!Runs
    <3>4. CASE wrFate'[c] = "done"
      <4>1. wrChild'[c] = "gone" /\ wrFate'[c] = "done"
        BY <1>11, <3>2, <3>4 DEF Writers!Finish, Writers!Goto, Writers!Ends, Writers!TypeOK
      <4>2. \/ /\ writer = "lab2_z1"
               /\ \E m, l \in Int : /\ blocks'[c] = m /\ unmade'[c] = l /\ m + l >= Blocks
                                    /\ m = blocks[c] \/ m <= Blocks
            \/ writer # "lab2_z1" /\ blocks'[c] = blocks[c]
        BY <1>11, <3>1, <3>2, <3>4 DEF Writers!Finish, Writers!Goto, Writers!TypeOK
      <4> QED  BY ONLY <1>0, <2>0, <2>2, <3>2, <4>1, <4>2 DEF BlocksOf, Writers!Runs
    <3> QED  BY <3>3, <3>4
  <2> QED  BY <2>1, <2>2
<1>12. ASSUME NEW c \in Children, Writers!Age(c) PROVE WrBlocks'
  <2> SUFFICES ASSUME NEW d \in Children PROVE BlocksOf(d)'
    OBVIOUS
  <2>0. d \in Children /\ c \in Children
    OBVIOUS
  <2>1. CASE d # c
    BY <1>12, <2>1, WrAgeEffect DEF Writers!TypeOK, Writers!Goto, Writers!Ends, Writers!Runs,
          BlocksOf, Writers!Age
  <2>2. CASE d = c
    BY <1>12, <2>2, WrAgeEffect DEF Writers!TypeOK, Writers!Goto, Writers!Ends, Writers!Runs,
          BlocksOf, Writers!Age
  <2> QED  BY <2>1, <2>2
<1>13. ASSUME Writers!Interrupt PROVE WrBlocks'
  <2> SUFFICES ASSUME NEW d \in Children PROVE BlocksOf(d)'
    OBVIOUS
  <2>0. d \in Children
    OBVIOUS
  <2>1. wrSig'[d].pending \in {wrSig[d].pending, wrSig[d].pending \cup {"SIGINT"}}
    BY <1>13, WrSends DEF Writers!Interrupt, Writers!Sigs
  <2>2. sent' = sent /\ UNCHANGED <<writer, wrChild, wrFate, blocks, unmade>>
    BY <1>13 DEF Writers!Interrupt
  <2> QED  BY <2>1, <2>2 DEF BlocksOf, Writers!Runs
<1>14. ASSUME NEW c \in Children, Writers!Struck(c) PROVE WrBlocks'
  <2> SUFFICES ASSUME NEW d \in Children PROVE BlocksOf(d)'
    OBVIOUS
  <2>0. d \in Children /\ c \in Children
    OBVIOUS
  <2>1. CASE d # c
    BY <1>14, <2>1 DEF Writers!TypeOK, Writers!Goto, Writers!Ends, Writers!Runs, BlocksOf,
          Writers!Struck
  <2>2. CASE d = c
    BY <1>14, <2>2 DEF Writers!TypeOK, Writers!Goto, Writers!Ends, Writers!Runs, BlocksOf,
          Writers!Struck
  <2> QED  BY <2>1, <2>2
<1>15. ASSUME Writers!ParentStruck PROVE WrBlocks'
  <2> SUFFICES ASSUME NEW d \in Children PROVE BlocksOf(d)'
    OBVIOUS
  <2>0. d \in Children
    OBVIOUS
  <2> QED  BY <1>15 DEF Writers!TypeOK, Writers!Goto, Writers!Ends, Writers!Runs, BlocksOf,
        Writers!ParentStruck
<1>16. CASE UNCHANGED Writers!vars
  BY <1>16 DEF Writers!vars, BlocksOf, Writers!Runs
<1> QED
  BY <1>1, <1>2, <1>3, <1>4, <1>5, <1>6, <1>7, <1>8, <1>9, <1>10, <1>11, <1>12,
     <1>13, <1>14, <1>15, <1>16, WrCases

\* A child never writes more blocks than it was sent signals, or than it was to
\* write; one of lab2_z1.c that ends by itself has written all of its blocks, but
\* for those whose write failed when it made up for the missing ones, and SIGUSR1
\* strikes none of them, for any number of children, signals and blocks: it is
\* ignored before the first fork (childrenwork and main of lab2_z1.c and
\* lab2_1_2.c).
THEOREM WritesAreMade == FairSpec => []WritesMade
<1>1. Init => WrInv
  <2> SUFFICES ASSUME Writers!Init PROVE WrInv
    BY DEF Init
  <2> USE DEF Writers!Init
  <2>1. Writers!NewProcess(Writers!Sigs) \in Writers!SignalStates(Writers!Sigs)
    BY DEF Writers!NewProcess, Writers!SignalStates, Writers!Sigs
  <2>2. Writers!TypeOK
    <3>1. /\ sent = 0 /\ blocks = [c \in Children |-> 0]
          /\ unmade = [c \in Children |-> 0]
      BY DEF Writers!Init
    <3>2. /\ sent \in 0 .. Rounds /\ blocks \in [Children -> 0 .. Rounds + Blocks]
          /\ unmade \in [Children -> 0 .. Blocks]
      BY ONLY <3>1, SignalsAssumption
    <3>3. wrSig \in [Writers!Procs -> Writers!SignalStates(Writers!Sigs)]
      BY <2>1
    <3>4. /\ wrChild \in [Children -> {"unborn"}] /\ wrFate \in [Children -> {"none"}]
          /\ wrMain \in {"ignore", "fork"} /\ aged = {} /\ writer \in {"lab2_z1", "lab2_1_2"}
      OBVIOUS
    <3> HIDE DEF Writers!Init
    <3> QED  BY <3>1, <3>2, <3>3, <3>4 DEF Writers!TypeOK
  <2>3. WrIgnores
    BY DEF WrIgnores, Writers!Runs
  <2>4. WrBlocks
    <3>1. \A c \in Children : wrFate[c] = "none" /\ blocks[c] = 0 /\ wrChild[c] = "unborn"
      OBVIOUS
    <3>2. sent = 0
      OBVIOUS
    <3>3. SUFFICES ASSUME NEW c \in Children PROVE BlocksOf(c)
      BY DEF WrBlocks
    <3>4. wrFate[c] = "none" /\ blocks[c] = 0 /\ wrChild[c] = "unborn"
      BY <3>1
    <3>5. blocks[c] = 0 /\ wrChild[c] = "unborn"
      BY <3>1
    <3>6. wrFate[c] \notin {"done", "failed", "struck"}
      BY ONLY <3>4, Zenon
    <3> QED  BY ONLY <3>2, <3>5, <3>6 DEF BlocksOf, Writers!Runs
  <2> QED  BY <2>2, <2>3, <2>4 DEF WrInv
<1>2. WrInv /\ [Next]_vars => WrInv'
  BY WritersMoves, WrType, WrIgnoresStep, WrBlocksStep DEF WrInv
<1>3. WrInv => WritesMade
  <2> SUFFICES ASSUME WrInv PROVE Writers!WritesMade
    BY DEF WritesMade
  <2>1. ASSUME NEW c \in Children, writer = "lab2_z1", Writers!Runs(c)
        PROVE  "SIGUSR1" \notin Writers!Deadly(wrSig[c])
    BY <2>1 DEF WrInv, WrIgnores, Writers!Deadly
  <2>2. ASSUME NEW c \in Children
        PROVE  /\ blocks[c] <= (IF writer = "lab2_z1" /\ wrFate[c] = "done" /\ sent < Blocks
                                THEN Blocks ELSE sent)
               /\ writer = "lab2_z1" /\ wrFate[c] = "done" => blocks[c] + unmade[c] >= Blocks
    <3>1. sent \in 0 .. Rounds /\ blocks[c] \in 0 .. Rounds + Blocks
      BY DEF WrInv, Writers!TypeOK
    <3>2. sent \in Int /\ blocks[c] \in Int /\ Blocks \in Int
      BY ONLY <3>1, SignalsAssumption
    <3>3. BlocksOf(c)
      BY DEF WrInv, WrBlocks
    <3>4. CASE writer = "lab2_z1" /\ wrFate[c] = "done" /\ sent < Blocks
      BY ONLY <3>2, <3>3, <3>4 DEF BlocksOf
    <3>5. CASE ~(writer = "lab2_z1" /\ wrFate[c] = "done" /\ sent < Blocks)
      <4>1. blocks[c] <= sent
        BY ONLY <3>2, <3>3, <3>5 DEF BlocksOf
      <4> QED  BY ONLY <3>3, <3>5, <4>1 DEF BlocksOf
    <3> QED  BY <3>4, <3>5
  <2> QED  BY <2>1, <2>2 DEF WrInv, Writers!WritesMade
<1> QED  BY <1>1, <1>2, <1>3, PTL DEF FairSpec

(***************************************************************************)
(* Kindergarten: lab2_z2_2.c.                                              *)
(***************************************************************************)

KgClosed == kgMain \in {"report", "over"}
KgLeft == {c \in KG!Children : kgFate[c] \in {"fetched", "struck"}}

\* How a child ended, if it has; before the kindergarten closes nobody stays.
FatesOf(c) ==
    /\ kgChild[c] # "gone" <=> kgFate[c] = "none"
    /\ kgFate[c] = "stayed" => KgClosed
KgFates == \A c \in KG!Children : FatesOf(c)

\* Until then only the alarm of a child that is ill tells it to go, and its
\* SIGCHLD goes to the kindergarten.
AlarmsOf(c) ==
    /\ kgChild[c] = "unborn" => c \notin timer \cup czyodebrane \cup wypisz
    /\ KG!Here(c) =>
           /\ kgSig[c].pending \cap {"SIGTERM", "SIGCHLD"} = {}
           /\ c \in wypisz => c \in czyodebrane
           /\ c \in timer \cup czyodebrane \/ "SIGALRM" \in kgSig[c].pending
                 => kgChild[c] \in {"cough", "leave"}
KgAlarms == ~KgClosed => \A c \in KG!Children : AlarmsOf(c)

\* Of those that have left, one for each SIGCHLD counted and one for that which
\* waits.
KgCount ==
    /\ gone <= Cardinality(KgLeft)
    /\ kgMain \notin {"report", "over", "dead"} /\ "SIGCHLD" \in kgSig[Parent].pending
          => gone + 1 <= Cardinality(KgLeft)

\* From the time the kindergarten waits no signal strikes it.
KgShield ==
    /\ kgMain \in {"ignusr1", "ignterm", "wait", "close", "report"}
          => {"SIGALRM", "SIGCHLD"} \subseteq kgSig[Parent].blocked
    /\ kgMain \in {"ignterm", "wait", "close", "report"} => kgSig[Parent].disp["SIGUSR1"] = "ignore"
    /\ kgMain \in {"wait", "close", "report"} => kgSig[Parent].disp["SIGTERM"] = "ignore"

KgInv == KG!TypeOK /\ KgFates /\ KgAlarms /\ KgShield /\ KgCount

\* kill().
LEMMA KgSent ==
    ASSUME NEW p \in KG!SignalStates(KG!Sigs), NEW v \in KG!Sigs
    PROVE  /\ KG!Sent(p, v) \in KG!SignalStates(KG!Sigs)
           /\ KG!Sent(p, v).disp = p.disp /\ KG!Sent(p, v).blocked = p.blocked
           /\ KG!Sent(p, v).pending \in {p.pending, p.pending \cup {v}}
BY DEF KG!Sent, KG!SignalStates

\* sigaction().
LEMMA KgDisposed ==
    ASSUME NEW p \in KG!SignalStates(KG!Sigs), NEW v \in KG!Sigs,
           NEW how \in {"ignore", "handler"}
    PROVE  /\ KG!Disposed(p, v, how) \in KG!SignalStates(KG!Sigs)
           /\ KG!Disposed(p, v, how).disp = [p.disp EXCEPT ![v] = how]
           /\ KG!Disposed(p, v, how).blocked = p.blocked
           /\ KG!Disposed(p, v, how).pending \subseteq p.pending
BY DEF KG!Disposed, KG!SignalStates

\* sigprocmask().
LEMMA KgBlocked ==
    ASSUME NEW p \in KG!SignalStates(KG!Sigs), NEW w \in SUBSET KG!Sigs
    PROVE  /\ KG!Blocked(p, w) \in KG!SignalStates(KG!Sigs)
           /\ KG!Blocked(p, w).disp = p.disp /\ KG!Blocked(p, w).pending = p.pending
           /\ KG!Blocked(p, w).blocked = p.blocked \cup w
BY DEF KG!Blocked, KG!SignalStates

\* fork().
LEMMA KgForked ==
    ASSUME NEW p \in KG!SignalStates(KG!Sigs)
    PROVE  /\ KG!Forked(p) \in KG!SignalStates(KG!Sigs)
           /\ KG!Forked(p).disp = p.disp /\ KG!Forked(p).pending = {}
BY DEF KG!Forked, KG!SignalStates

\* A signal is taken.
LEMMA KgTaken ==
    ASSUME NEW p \in KG!SignalStates(KG!Sigs), NEW v \in KG!Sigs
    PROVE  /\ KG!Taken(p, v) \in KG!SignalStates(KG!Sigs) /\ KG!Taken(p, v).disp = p.disp
           /\ KG!Taken(p, v).blocked = p.blocked
           /\ KG!Taken(p, v).pending = p.pending \ {v}
BY DEF KG!Taken, KG!SignalStates

\* The steps of the program.
LEMMA KgCases ==
    ASSUME KG!Next
    PROVE  \/ KG!SetAlarm \/ KG!Prepare \/ KG!Close \/ KG!Report \/ KG!KGStruck
           \/ KG!ForkFails \/ KG!Ring(Parent) \/ \E v \in KG!Sigs : KG!Wait(v)
           \/ \E c \in KG!Children :
                  \/ KG!Fork(c) \/ KG!Install(c) \/ KG!Look(c) \/ KG!FallIll(c)
                  \/ KG!Cough(c) \/ KG!Leave(c) \/ KG!ChildStruck(c) \/ KG!Ring(c)
                  \/ \E v \in KG!Sigs : KG!Handle(c, v)
BY DEF KG!Next, KG!KGStep, KG!ChildStep, KG!SignalStep

\* The parent is no child.
LEMMA KgProcs ==
    Parent \notin KG!Children /\ Parent \in KG!Procs /\ KG!Children \subseteq KG!Procs
BY YoungAssumption DEF KG!Procs, KG!Children

\* What the steps do to the signals of the processes.
LEMMA KgSends ==
    ASSUME KG!TypeOK, NEW v \in KG!Sigs, NEW to, kgSig' = KG!SentTo(to, v)
    PROVE  /\ kgSig' \in [KG!Procs -> KG!SignalStates(KG!Sigs)]
           /\ \A p \in KG!Procs :
                 /\ kgSig'[p].pending \in {kgSig[p].pending, kgSig[p].pending \cup {v}}
                 /\ kgSig'[p].disp = kgSig[p].disp /\ kgSig'[p].blocked = kgSig[p].blocked
                 /\ p \notin to => kgSig'[p] = kgSig[p]
BY KgSent DEF KG!TypeOK, KG!SentTo

\* A child starts with no signal waiting for it.
LEMMA KgForkEffect ==
    ASSUME KG!TypeOK, NEW c \in KG!Children, KG!Fork(c)
    PROVE  /\ kgSig' \in [KG!Procs -> KG!SignalStates(KG!Sigs)]
           /\ kgSig'[c].pending = {}
           /\ \A p \in KG!Procs : p # c => kgSig'[p] = kgSig[p]
<1> DEFINE q == KG!Forked(kgSig[Parent])
<1>1. q \in KG!SignalStates(KG!Sigs) /\ q.pending = {}
  BY KgProcs, KgForked DEF KG!TypeOK
<1>2. kgSig' = [kgSig EXCEPT ![c] = q]
  BY DEF KG!Fork
<1> HIDE DEF q
<1> QED  BY <1>1, <1>2, KgProcs DEF KG!TypeOK

\* A step that changes the signals of one process to q.
LEMMA KgOne ==
    ASSUME KG!TypeOK, NEW p \in KG!Procs, NEW q \in KG!SignalStates(KG!Sigs),
           q.pending \subseteq kgSig[p].pending, kgSig' = [kgSig EXCEPT ![p] = q]
    PROVE  /\ kgSig' \in [KG!Procs -> KG!SignalStates(KG!Sigs)]
           /\ kgSig'[p] = q /\ \A r \in KG!Procs : r # p => kgSig'[r] = kgSig[r]
           /\ \A r \in KG!Procs : kgSig'[r].pending \subseteq kgSig[r].pending
BY DEF KG!TypeOK

\* The kindergarten prepares its own signals before it waits.
LEMMA KgPrepareEffect ==
    ASSUME KG!TypeOK, KG!Prepare, KgShield
    PROVE  /\ kgSig' \in [KG!Procs -> KG!SignalStates(KG!Sigs)]
           /\ \A p \in KG!Procs : kgSig'[p].pending \subseteq kgSig[p].pending
           /\ \A c \in KG!Children : kgSig'[c] = kgSig[c]
           /\ KgShield'
<1>1. /\ kgSig[Parent] \in KG!SignalStates(KG!Sigs)
      /\ kgSig[Parent].disp \in [KG!Sigs -> {"default", "ignore", "handler"}]
  BY KgProcs DEF KG!TypeOK, KG!SignalStates
<1>2. CASE kgMain = "block"
  <2>1. {"SIGALRM", "SIGCHLD"} \in SUBSET KG!Sigs
    BY DEF KG!Sigs
  <2>2. PICK q : /\ q = KG!Blocked(kgSig[Parent], {"SIGALRM", "SIGCHLD"})
                 /\ kgSig' = [kgSig EXCEPT ![Parent] = q] /\ kgMain' = "ignusr1"
    BY <1>2 DEF KG!Prepare
  <2>3. /\ q \in KG!SignalStates(KG!Sigs) /\ q.pending = kgSig[Parent].pending
        /\ {"SIGALRM", "SIGCHLD"} \subseteq q.blocked
    BY <1>1, <2>1, <2>2, KgBlocked
  <2> QED  BY <2>2, <2>3, KgOne, KgProcs DEF KgShield
<1>3. CASE kgMain = "ignusr1"
  <2>1. PICK q : /\ q = KG!Disposed(kgSig[Parent], "SIGUSR1", "ignore")
                 /\ kgSig' = [kgSig EXCEPT ![Parent] = q] /\ kgMain' = "ignterm"
    BY <1>3 DEF KG!Prepare
  <2>2. /\ q \in KG!SignalStates(KG!Sigs) /\ q.pending \subseteq kgSig[Parent].pending
        /\ q.blocked = kgSig[Parent].blocked /\ q.disp["SIGUSR1"] = "ignore"
    BY <1>1, <2>1, KgDisposed, ZenonT(40) DEF KG!Sigs
  <2> QED  BY <1>3, <2>1, <2>2, KgOne, KgProcs DEF KgShield
<1>4. CASE kgMain = "ignterm"
  <2>1. PICK q : /\ q = KG!Disposed(kgSig[Parent], "SIGTERM", "ignore")
                 /\ kgSig' = [kgSig EXCEPT ![Parent] = q] /\ kgMain' = "wait"
    BY <1>4 DEF KG!Prepare
  <2>2. /\ q \in KG!SignalStates(KG!Sigs) /\ q.pending \subseteq kgSig[Parent].pending
        /\ q.blocked = kgSig[Parent].blocked /\ q.disp["SIGTERM"] = "ignore"
        /\ q.disp["SIGUSR1"] = kgSig[Parent].disp["SIGUSR1"]
    BY <1>1, <2>1, KgDisposed DEF KG!Sigs
  <2> QED  BY <1>4, <2>1, <2>2, KgOne, KgProcs DEF KgShield
<1> QED  BY <1>2, <1>3, <1>4 DEF KG!Prepare

\* The kindergarten takes a signal it waited for.
LEMMA KgWaitEffect ==
    ASSUME KG!TypeOK, NEW v \in KG!Sigs, KG!Wait(v)
    PROVE  /\ kgSig' \in [KG!Procs -> KG!SignalStates(KG!Sigs)]
           /\ \A p \in KG!Procs : kgSig'[p].pending \subseteq kgSig[p].pending
           /\ \A c \in KG!Children : kgSig'[c] = kgSig[c]
           /\ v \in {"SIGALRM", "SIGCHLD"} /\ v \in kgSig[Parent].pending
           /\ v \notin kgSig'[Parent].pending
           /\ kgSig'[Parent].disp = kgSig[Parent].disp
           /\ kgSig'[Parent].blocked = kgSig[Parent].blocked
<1> DEFINE q == KG!Taken(kgSig[Parent], v)
<1>1. /\ q \in KG!SignalStates(KG!Sigs) /\ q.pending = kgSig[Parent].pending \ {v}
      /\ q.disp = kgSig[Parent].disp /\ q.blocked = kgSig[Parent].blocked
  BY KgProcs, KgTaken DEF KG!TypeOK
<1>2. kgSig' = [kgSig EXCEPT ![Parent] = q]
  BY DEF KG!Wait
<1>3. v \in {"SIGALRM", "SIGCHLD"} /\ v \in kgSig[Parent].pending
  BY DEF KG!Wait, KG!Waited
<1> HIDE DEF q
<1> QED  BY <1>1, <1>2, <1>3, KgOne, KgProcs

\* A child installs its handlers one after the other.
LEMMA KgInstallEffect ==
    ASSUME KG!TypeOK, NEW c \in KG!Children, KG!Install(c)
    PROVE  /\ kgSig' \in [KG!Procs -> KG!SignalStates(KG!Sigs)]
           /\ kgSig'[Parent] = kgSig[Parent]
           /\ \A p \in KG!Procs : kgSig'[p].pending \subseteq kgSig[p].pending
           /\ kgChild[c] \in {"usr1", "term", "alrm"}
           /\ kgChild' = [kgChild EXCEPT ![c] = kgChild'[c]]
           /\ kgChild'[c] \in {"term", "alrm", "look", "fallill"}
<1>1. kgChild[c] \in {"usr1", "term", "alrm"}
  BY DEF KG!Install, KG!Order
<1>2. /\ KG!Order[kgChild[c]][1] \in {"SIGUSR1", "SIGTERM", "SIGALRM"}
      /\ KG!Order[kgChild[c]][2] \in {"term", "alrm", "look"}
  <2>1. /\ KG!Order["usr1"][1] = "SIGUSR1" /\ KG!Order["usr1"][2] = "term"
        /\ KG!Order["term"][1] = "SIGTERM" /\ KG!Order["term"][2] = "alrm"
        /\ KG!Order["alrm"][1] = "SIGALRM" /\ KG!Order["alrm"][2] = "look"
    BY DEF KG!Order
  <2> QED  BY <1>1, <2>1
<1> HIDE DEF KG!Order
<1>3. PICK v \in KG!Sigs : kgSig' = [kgSig EXCEPT ![c] = KG!Disposed(kgSig[c], v, "handler")]
  BY <1>2 DEF KG!Install, KG!Sigs
<1>4. /\ kgChild' = [kgChild EXCEPT ![c] = kgChild'[c]]
      /\ kgChild'[c] \in {"term", "alrm", "look", "fallill"}
  BY <1>2 DEF KG!Install, KG!Goto, KG!TypeOK
<1>5. kgSig[c] \in KG!SignalStates(KG!Sigs)
  BY KgProcs DEF KG!TypeOK
<1> QED  BY <1>1, <1>3, <1>4, <1>5, KgDisposed, KgOne, KgProcs

\* A child falls ill.
LEMMA KgFallIllEffect ==
    ASSUME KG!TypeOK, NEW c \in KG!Children, KG!FallIll(c)
    PROVE  /\ kgSig' \in [KG!Procs -> KG!SignalStates(KG!Sigs)]
           /\ kgSig'[Parent] = kgSig[Parent]
           /\ \A p \in KG!Procs : kgSig'[p].pending \subseteq kgSig[p].pending
<1>1. kgSig' = [kgSig EXCEPT ![c] = KG!Disposed(kgSig[c], "SIGUSR1", "ignore")]
  BY DEF KG!FallIll
<1>2. kgSig[c] \in KG!SignalStates(KG!Sigs) /\ "SIGUSR1" \in KG!Sigs
  BY KgProcs DEF KG!TypeOK, KG!Sigs
<1> QED  BY <1>1, <1>2, KgDisposed, KgOne, KgProcs

\* A handler runs.
LEMMA KgHandleEffect ==
    ASSUME KG!TypeOK, NEW c \in KG!Children, NEW v \in KG!Sigs, KG!Handle(c, v)
    PROVE  /\ kgSig' \in [KG!Procs -> KG!SignalStates(KG!Sigs)]
           /\ kgSig'[Parent] = kgSig[Parent]
           /\ \A p \in KG!Procs : kgSig'[p].pending \subseteq kgSig[p].pending
           /\ v \in kgSig[c].pending
<1>1. kgSig' = [kgSig EXCEPT ![c] = KG!Taken(kgSig[c], v)]
  BY DEF KG!Handle
<1>2. v \in kgSig[c].pending
  BY DEF KG!Handle, KG!Handled, KG!Deliverable
<1>3. kgSig[c] \in KG!SignalStates(KG!Sigs)
  BY KgProcs DEF KG!TypeOK
<1> QED  BY <1>1, <1>2, <1>3, KgTaken, KgOne, KgProcs

\* The end of a child.
LEMMA KgEndsEffect ==
    ASSUME KG!TypeOK, NEW c \in KG!Children, NEW how, KG!Ends(c, how)
    PROVE  /\ kgSig' \in [KG!Procs -> KG!SignalStates(KG!Sigs)]
           /\ \A d \in KG!Children : kgSig'[d] = kgSig[d]
           /\ kgSig'[Parent].disp = kgSig[Parent].disp
           /\ kgSig'[Parent].blocked = kgSig[Parent].blocked
           /\ kgSig'[Parent].pending \in
                 {kgSig[Parent].pending, kgSig[Parent].pending \cup {"SIGCHLD"}}
           /\ kgChild' = [kgChild EXCEPT ![c] = "gone"] /\ kgFate' = [kgFate EXCEPT ![c] = how]
           /\ timer' = timer \ {c}
<1>1. "SIGCHLD" \in KG!Sigs /\ kgSig' = KG!SentTo({Parent}, "SIGCHLD")
  BY DEF KG!Sigs, KG!Ends
<1>2. \A d \in KG!Children : d \notin {Parent}
  BY KgProcs
<1>3. /\ kgSig' \in [KG!Procs -> KG!SignalStates(KG!Sigs)]
      /\ \A d \in KG!Children : kgSig'[d] = kgSig[d]
      /\ kgSig'[Parent].disp = kgSig[Parent].disp
      /\ kgSig'[Parent].blocked = kgSig[Parent].blocked
      /\ kgSig'[Parent].pending \in {kgSig[Parent].pending, kgSig[Parent].pending \cup {"SIGCHLD"}}
  BY <1>1, <1>2, KgSends, KgProcs, ZenonT(40)
<1> QED  BY <1>3 DEF KG!Ends, KG!Goto

\* The kindergarten stays shielded.
LEMMA KgShieldStep ==
    ASSUME KG!TypeOK, KgShield, [KG!Next]_(KG!vars)
    PROVE  KgShield'
<1> USE KgProcs DEF KG!TypeOK, KG!Goto, KgShield
<1>1. ASSUME KG!SetAlarm PROVE KgShield'
  BY <1>1 DEF KG!SetAlarm
<1>2. ASSUME KG!Prepare PROVE KgShield'
  BY <1>2, KgPrepareEffect DEF KG!Prepare
<1>3. ASSUME KG!Close PROVE KgShield'
  BY <1>3, KgSends DEF KG!Close, KG!Sigs
<1>4. ASSUME KG!Report PROVE KgShield'
  BY <1>4 DEF KG!Report
<1>5. ASSUME KG!KGStruck PROVE KgShield'
  BY <1>5 DEF KG!KGStruck
<1>6. ASSUME KG!ForkFails PROVE KgShield'
  BY <1>6 DEF KG!ForkFails
<1>7. ASSUME NEW v \in KG!Sigs, KG!Wait(v) PROVE KgShield'
  BY <1>7, KgWaitEffect DEF KG!Wait
<1>8. ASSUME NEW c \in KG!Children, KG!Fork(c) PROVE KgShield'
  BY <1>8, KgForkEffect DEF KG!Fork
<1>9. ASSUME NEW c \in KG!Children, KG!Install(c) PROVE KgShield'
  BY <1>9, KgInstallEffect DEF KG!Install
<1>10. ASSUME NEW c \in KG!Children, KG!Look(c) PROVE KgShield'
  BY <1>10, KgEndsEffect DEF KG!Look
<1>11. ASSUME NEW c \in KG!Children, KG!FallIll(c) PROVE KgShield'
  BY <1>11, KgFallIllEffect DEF KG!FallIll
<1>12. ASSUME NEW c \in KG!Children, KG!Cough(c) PROVE KgShield'
  BY <1>12, KgSends DEF KG!Cough, KG!Sigs
<1>13. ASSUME NEW c \in KG!Children, KG!Leave(c) PROVE KgShield'
  BY <1>13, KgEndsEffect DEF KG!Leave
<1>14. ASSUME NEW c \in KG!Children, KG!ChildStruck(c) PROVE KgShield'
  BY <1>14, KgEndsEffect DEF KG!ChildStruck
<1>15. ASSUME NEW p \in KG!Procs, KG!Ring(p) PROVE KgShield'
  BY <1>15, KgSends DEF KG!Ring, KG!Sigs
<1>16. ASSUME NEW c \in KG!Children, NEW v \in KG!Sigs, KG!Handle(c, v) PROVE KgShield'
  BY <1>16, KgHandleEffect DEF KG!Handle
<1>17. CASE UNCHANGED KG!vars
  BY <1>17 DEF KG!vars
<1> QED
  BY <1>1, <1>2, <1>3, <1>4, <1>5, <1>6, <1>7, <1>8, <1>9, <1>10, <1>11, <1>12,
     <1>13, <1>14, <1>15, <1>16, <1>17, KgCases

\* After "block" nothing strikes the kindergarten that can before.
LEMMA KgUnstruck ==
    ASSUME KG!TypeOK, KgShield, KG!KGStruck
    PROVE  kgMain # "report"
<1> SUFFICES ASSUME kgMain = "report" PROVE FALSE
  OBVIOUS
<1>1. PICK v \in KG!Sigs :
        v \in KG!Deliverable(kgSig[Parent]) /\ kgSig[Parent].disp[v] = "default"
  BY KgProcs DEF KG!TypeOK, KG!KGStruck, KG!Deadly, KG!Deliverable, KG!SignalStates
<1> QED  BY <1>1 DEF KgShield, KG!Deliverable, KG!Sigs

\* A child ends once.
LEMMA KgEndsFates ==
    ASSUME KG!TypeOK, KgFates, NEW c \in KG!Children,
           NEW how \in {"fetched", "stayed", "struck"},
           KG!Ends(c, how), how = "stayed" => KgClosed, UNCHANGED kgMain
    PROVE  KgFates'
<1>1. kgChild' = [kgChild EXCEPT ![c] = "gone"] /\ kgFate' = [kgFate EXCEPT ![c] = how]
  BY KgEndsEffect
<1> QED  BY <1>1 DEF KG!TypeOK, KgFates, FatesOf, KgClosed

\* Nobody stays before the kindergarten has closed.
LEMMA KgFatesStep ==
    ASSUME KG!TypeOK, KgFates, KgAlarms, KgShield, [KG!Next]_(KG!vars)
    PROVE  KgFates'
<1> USE KgProcs DEF KG!TypeOK, KG!Goto, KgFates, FatesOf, KgClosed, KG!flags
<1>1. ASSUME KG!SetAlarm PROVE KgFates'
  BY <1>1 DEF KG!SetAlarm
<1>2. ASSUME KG!Prepare PROVE KgFates'
  BY <1>2, KgPrepareEffect DEF KG!Prepare
<1>3. ASSUME KG!Close PROVE KgFates'
  BY <1>3, KgSends DEF KG!Close, KG!Sigs
<1>4. ASSUME KG!Report PROVE KgFates'
  BY <1>4 DEF KG!Report
<1>5. ASSUME KG!KGStruck PROVE KgFates'
  <2>1. kgMain # "report"
    <3> HIDE DEF KG!TypeOK
    <3> QED  BY <1>5, KgUnstruck
  <2>2. ~KgClosed /\ UNCHANGED <<kgChild, kgFate>>
    BY <1>5, <2>1 DEF KG!KGStruck, KG!Open
  <2> QED  BY <2>2
<1>6. ASSUME KG!ForkFails PROVE KgFates'
  BY <1>6 DEF KG!ForkFails
<1>7. ASSUME NEW v \in KG!Sigs, KG!Wait(v) PROVE KgFates'
  BY <1>7, KgWaitEffect DEF KG!Wait
<1>8. ASSUME NEW c \in KG!Children, KG!Fork(c) PROVE KgFates'
  BY <1>8, KgForkEffect DEF KG!Fork
<1>9. ASSUME NEW c \in KG!Children, KG!Install(c) PROVE KgFates'
  BY <1>9, KgInstallEffect DEF KG!Install
<1>10. ASSUME NEW c \in KG!Children, KG!Look(c) PROVE KgFates'
  <2>1. CASE c \in wypisz
    <3>1. KgClosed
      BY <1>10, <2>1 DEF KG!Look, KgAlarms, AlarmsOf, KG!Here
    <3>2. KG!Ends(c, "stayed") /\ UNCHANGED kgMain
      BY <1>10, <2>1 DEF KG!Look
    <3> HIDE DEF KG!TypeOK, KgFates, KgClosed
    <3> QED  BY <3>1, <3>2, KgEndsFates
  <2>2. CASE c \notin wypisz
    BY <1>10, <2>2 DEF KG!Look
  <2> QED  BY <2>1, <2>2
<1>11. ASSUME NEW c \in KG!Children, KG!FallIll(c) PROVE KgFates'
  BY <1>11, KgFallIllEffect DEF KG!FallIll
<1>12. ASSUME NEW c \in KG!Children, KG!Cough(c) PROVE KgFates'
  BY <1>12, KgSends DEF KG!Cough, KG!Sigs
<1>13. ASSUME NEW c \in KG!Children, KG!Leave(c) PROVE KgFates'
  <2>1. CASE c \in wypisz
    <3>1. PICK how \in {"fetched", "stayed"} :
              KG!Ends(c, how) /\ (how = "stayed" => c \notin czyodebrane)
      BY <1>13, <2>1 DEF KG!Leave
    <3>2. kgChild[c] = "leave" /\ UNCHANGED kgMain
      BY <1>13 DEF KG!Leave
    <3>3. how = "stayed" => KgClosed
      BY <2>1, <3>1, <3>2 DEF KgAlarms, AlarmsOf, KG!Here
    <3> HIDE DEF KG!TypeOK, KgFates, KgClosed
    <3> QED  BY <3>1, <3>2, <3>3, KgEndsFates
  <2>2. CASE c \notin wypisz
    BY <1>13, <2>2 DEF KG!Leave
  <2> QED  BY <2>1, <2>2
<1>14. ASSUME NEW c \in KG!Children, KG!ChildStruck(c) PROVE KgFates'
  <2>1. KG!Ends(c, "struck") /\ UNCHANGED kgMain
    BY <1>14 DEF KG!ChildStruck
  <2> HIDE DEF KG!TypeOK, KgFates, KgClosed
  <2> QED  BY <2>1, KgEndsFates
<1>15. ASSUME NEW p \in KG!Procs, KG!Ring(p) PROVE KgFates'
  BY <1>15, KgSends DEF KG!Ring, KG!Sigs
<1>16. ASSUME NEW c \in KG!Children, NEW v \in KG!Sigs, KG!Handle(c, v) PROVE KgFates'
  BY <1>16, KgHandleEffect DEF KG!Handle
<1>17. CASE UNCHANGED KG!vars
  BY <1>17 DEF KG!vars
<1> QED
  BY <1>1, <1>2, <1>3, <1>4, <1>5, <1>6, <1>7, <1>8, <1>9, <1>10, <1>11, <1>12,
     <1>13, <1>14, <1>15, <1>16, <1>17, KgCases

\* A child that is told to go is ill.
LEMMA KgAlarmsStep ==
    ASSUME KG!TypeOK, KgAlarms, KgShield, [KG!Next]_(KG!vars)
    PROVE  KgAlarms'
<1> USE KgProcs DEF KG!TypeOK, KG!Goto, KgAlarms, AlarmsOf, KgClosed, KG!Here, KG!flags
<1>1. ASSUME KG!SetAlarm PROVE KgAlarms'
  BY <1>1 DEF KG!SetAlarm
<1>2. ASSUME KG!Prepare PROVE KgAlarms'
  BY <1>2, KgPrepareEffect DEF KG!Prepare
<1>3. ASSUME KG!Close PROVE KgAlarms'
  BY <1>3, KgSends DEF KG!Close, KG!Sigs
<1>4. ASSUME KG!Report PROVE KgAlarms'
  BY <1>4 DEF KG!Report
<1>5. ASSUME KG!KGStruck PROVE KgAlarms'
  <2>1. kgMain # "report"
    <3> HIDE DEF KG!TypeOK
    <3> QED  BY <1>5, KgUnstruck
  <2>2. ~KgClosed /\ UNCHANGED <<kgSig, timer, kgChild, czyodebrane, wypisz>>
    BY <1>5, <2>1 DEF KG!KGStruck, KG!Open
  <2> QED  BY <2>2
<1>6. ASSUME KG!ForkFails PROVE KgAlarms'
  BY <1>6 DEF KG!ForkFails
<1>7. ASSUME NEW v \in KG!Sigs, KG!Wait(v) PROVE KgAlarms'
  BY <1>7, KgWaitEffect DEF KG!Wait
<1>8. ASSUME NEW c \in KG!Children, KG!Fork(c) PROVE KgAlarms'
  <2> SUFFICES ASSUME NEW d \in KG!Children, ~KgClosed, AlarmsOf(d) PROVE AlarmsOf(d)'
    BY <1>8 DEF KG!Fork
  <2>1. d # c => kgSig'[d] = kgSig[d] /\ kgChild'[d] = kgChild[d]
    BY <1>8, KgForkEffect DEF KG!Fork
  <2>2. kgSig'[c].pending = {}
    <3> HIDE DEF KG!TypeOK
    <3> QED  BY <1>8, KgForkEffect
  <2>3. kgChild[c] = "unborn" /\ kgChild'[c] = "usr1"
    BY <1>8 DEF KG!Fork
  <2>4. UNCHANGED <<timer, czyodebrane, wypisz>>
    BY <1>8 DEF KG!Fork
  <2> QED  BY <2>1, <2>2, <2>3, <2>4
<1>9. ASSUME NEW c \in KG!Children, KG!Install(c) PROVE KgAlarms'
  <2> SUFFICES ASSUME NEW d \in KG!Children, ~KgClosed, AlarmsOf(d) PROVE AlarmsOf(d)'
    BY <1>9 DEF KG!Install
  <2>1. /\ kgSig'[d].pending \subseteq kgSig[d].pending
        /\ UNCHANGED <<timer, czyodebrane, wypisz>>
        /\ kgChild[c] \in {"usr1", "term", "alrm"}
        /\ kgChild'[c] \in {"term", "alrm", "look", "fallill"}
        /\ kgChild' = [kgChild EXCEPT ![c] = kgChild'[c]]
    <3> HIDE DEF KG!TypeOK
    <3> QED  BY <1>9, KgInstallEffect, KgProcs DEF KG!Install, KG!flags
  <2> QED  BY <2>1
<1>10. ASSUME NEW c \in KG!Children, KG!Look(c) PROVE KgAlarms'
  BY <1>10, KgEndsEffect DEF KG!Look
<1>11. ASSUME NEW c \in KG!Children, KG!FallIll(c) PROVE KgAlarms'
  BY <1>11, KgFallIllEffect, ZenonT(40) DEF KG!FallIll
<1>12. ASSUME NEW c \in KG!Children, KG!Cough(c) PROVE KgAlarms'
  <2> SUFFICES ASSUME NEW d \in KG!Children, ~KgClosed, AlarmsOf(d) PROVE AlarmsOf(d)'
    BY <1>12 DEF KG!Cough
  <2>1. kgSig'[d].pending \in {kgSig[d].pending, kgSig[d].pending \cup {"SIGUSR1"}}
    <3> HIDE DEF KG!TypeOK
    <3> QED  BY <1>12, KgSends, KgProcs DEF KG!Cough, KG!Sigs
  <2>2. /\ kgChild' = [kgChild EXCEPT ![c] = "leave"] /\ kgChild[c] = "cough"
        /\ UNCHANGED <<timer, czyodebrane, wypisz>>
    BY <1>12 DEF KG!Cough
  <2> QED  BY <2>1, <2>2
<1>13. ASSUME NEW c \in KG!Children, KG!Leave(c) PROVE KgAlarms'
  BY <1>13, KgEndsEffect DEF KG!Leave
<1>14. ASSUME NEW c \in KG!Children, KG!ChildStruck(c) PROVE KgAlarms'
  BY <1>14, KgEndsEffect DEF KG!ChildStruck
<1>15. ASSUME NEW p \in KG!Procs, KG!Ring(p) PROVE KgAlarms'
  <2> SUFFICES ASSUME NEW d \in KG!Children, ~KgClosed, AlarmsOf(d) PROVE AlarmsOf(d)'
    BY <1>15 DEF KG!Ring
  <2>1. /\ kgSig'[d].pending \in {kgSig[d].pending, kgSig[d].pending \cup {"SIGALRM"}}
        /\ d # p => kgSig'[d] = kgSig[d]
    <3>1. kgSig' = KG!SentTo({p}, "SIGALRM") /\ "SIGALRM" \in KG!Sigs /\ d \in KG!Procs
      BY <1>15, KgProcs DEF KG!Ring, KG!Sigs
    <3>2. d # p => d \notin {p}
      OBVIOUS
    <3> HIDE DEF KG!TypeOK
    <3>3. kgSig'[d].pending \in {kgSig[d].pending, kgSig[d].pending \cup {"SIGALRM"}}
      BY <3>1, KgSends
    <3>4. d # p => kgSig'[d] = kgSig[d]
      BY <3>1, <3>2 DEF KG!SentTo
    <3> QED  BY <3>3, <3>4
  <2>2. p \in timer /\ timer' = timer \ {p} /\ UNCHANGED <<kgChild, czyodebrane, wypisz>>
    BY <1>15 DEF KG!Ring
  <2> QED  BY <2>1, <2>2
<1>16. ASSUME NEW c \in KG!Children, NEW v \in KG!Sigs, KG!Handle(c, v) PROVE KgAlarms'
  <2> SUFFICES ASSUME NEW d \in KG!Children, ~KgClosed, AlarmsOf(d) PROVE AlarmsOf(d)'
    BY <1>16 DEF KG!Handle
  <2>1. kgSig'[d].pending \subseteq kgSig[d].pending /\ v \in kgSig[c].pending
    <3> HIDE DEF KG!TypeOK
    <3> QED  BY <1>16, KgHandleEffect, KgProcs
  <2>2. KG!Here(c) /\ UNCHANGED <<kgChild, timer>>
    BY <1>16 DEF KG!Handle
  <2>3. AlarmsOf(c)
    OBVIOUS
  <2>4. v \in {"SIGUSR1", "SIGALRM"}
    BY <2>1, <2>2, <2>3 DEF KG!Sigs
  <2>5. CASE v = "SIGUSR1"
    BY <1>16, <2>1, <2>2, <2>5 DEF KG!Handle
  <2>6. CASE v = "SIGALRM"
    <3>1. czyodebrane' = czyodebrane \cup {c} /\ wypisz' = wypisz \cup {c}
      BY <1>16, <2>6 DEF KG!Handle
    <3> QED  BY <2>1, <2>2, <2>3, <2>6, <3>1
  <2> QED  BY <2>4, <2>5, <2>6
<1>17. CASE UNCHANGED KG!vars
  BY <1>17 DEF KG!vars
<1> QED
  BY <1>1, <1>2, <1>3, <1>4, <1>5, <1>6, <1>7, <1>8, <1>9, <1>10, <1>11, <1>12,
     <1>13, <1>14, <1>15, <1>16, <1>17, KgCases

\* The children that have left: one more with each that ends before the kindergarten
\* has closed.
LEMMA KgLeftFinite ==
    /\ IsFiniteSet(KgLeft) /\ Cardinality(KgLeft) \in Nat /\ Cardinality(KgLeft) <= Young
    /\ Young \in Nat
<1>1. Young \in Nat /\ KG!Children = 0 .. Young - 1
  BY YoungAssumption DEF KG!Children
<1>2. IsFiniteSet(0 .. Young - 1) /\ Cardinality(0 .. Young - 1) = Young
  BY <1>1, FS_Interval
<1>3. KgLeft \subseteq 0 .. Young - 1
  BY <1>1 DEF KgLeft
<1>4. /\ IsFiniteSet(KgLeft)
      /\ Cardinality(KgLeft) <= Cardinality(0 .. Young - 1)
  BY <1>2, <1>3, FS_Subset
<1>5. Cardinality(KgLeft) \in Nat
  BY <1>4, FS_CardinalityType
<1> QED  BY <1>1, <1>2, <1>4, <1>5

\* A child that has left or been struck is one more.
LEMMA KgEndsLeft ==
    ASSUME KG!TypeOK, KgFates, NEW c \in KG!Children, NEW how \in {"fetched", "struck"},
           KG!Ends(c, how), kgChild[c] # "gone"
    PROVE  Cardinality(KgLeft)' = Cardinality(KgLeft) + 1
<1>1. kgFate' = [kgFate EXCEPT ![c] = how]
  BY KgEndsEffect
<1>2. c \notin KgLeft
  BY DEF KgFates, FatesOf, KgLeft
<1>3. KgLeft' = KgLeft \cup {c}
  BY <1>1 DEF KgLeft, KG!TypeOK
<1> HIDE DEF KgLeft
<1> QED  BY <1>2, <1>3, KgLeftFinite, FS_AddElement

\* Those that have left change only with the fates.
LEMMA KgSameLeft ==
    ASSUME UNCHANGED kgFate
    PROVE  KgLeft' = KgLeft
BY DEF KgLeft

\* How children end.
LEMMA KgEndings ==
    ASSUME KgAlarms, NEW c \in KG!Children, KG!Look(c) \/ KG!Leave(c) \/ KG!ChildStruck(c)
    PROVE  /\ UNCHANGED <<kgMain, gone>> /\ kgChild[c] # "gone"
           /\ \/ UNCHANGED <<kgFate, kgSig, timer>>
              \/ \E how \in {"fetched", "struck"} : KG!Ends(c, how)
              \/ KgClosed /\ KG!Ends(c, "stayed")
<1>1. UNCHANGED <<kgMain, gone>> /\ KG!Here(c)
  BY DEF KG!Look, KG!Leave, KG!ChildStruck, KG!Here
<1>2. CASE KG!ChildStruck(c)
  BY <1>1, <1>2 DEF KG!ChildStruck, KG!Here
<1>3. CASE c \notin wypisz /\ ~KG!ChildStruck(c)
  BY <1>1, <1>3 DEF KG!Look, KG!Leave, KG!Here
<1>4. CASE c \in wypisz /\ KG!Look(c)
  BY <1>1, <1>4 DEF KG!Look, KgAlarms, AlarmsOf, KG!Here
<1>5. CASE c \in wypisz /\ KG!Leave(c)
  BY <1>1, <1>5 DEF KG!Leave, KgAlarms, AlarmsOf, KG!Here
<1> QED  BY <1>2, <1>3, <1>4, <1>5

\* Whoever leaves, the count of the kindergarten is not ahead.
LEMMA KgEndsCount ==
    ASSUME KG!TypeOK, KgFates, KgAlarms, KgCount, NEW c \in KG!Children,
           KG!Look(c) \/ KG!Leave(c) \/ KG!ChildStruck(c)
    PROVE  KgCount'
<1>1. gone \in Nat /\ Cardinality(KgLeft) \in Nat
  <2>1. gone \in 0 .. Young
    BY DEF KG!TypeOK
  <2> QED  BY <2>1, KgLeftFinite
<1>2. UNCHANGED <<kgMain, gone>> /\ kgChild[c] # "gone"
  BY KgEndings
<1>3. CASE UNCHANGED <<kgFate, kgSig, timer>>
  BY <1>2, <1>3, KgSameLeft DEF KgCount
<1>4. ASSUME NEW how \in {"fetched", "struck"}, KG!Ends(c, how) PROVE KgCount'
  <2>1. Cardinality(KgLeft)' = Cardinality(KgLeft) + 1
    BY <1>2, <1>4, KgEndsLeft
  <2>2. PICK m \in Nat : m = Cardinality(KgLeft)
    BY <1>1
  <2>3. gone <= m /\ gone \in Nat
    BY <1>1, <2>2 DEF KgCount
  <2>4. gone <= m + 1 /\ gone + 1 <= m + 1
    BY <2>3
  <2>5. Cardinality(KgLeft)' = m + 1
    BY <2>1, <2>2
  <2> QED  BY <1>2, <2>4, <2>5 DEF KgCount
<1>5. CASE KgClosed /\ KG!Ends(c, "stayed")
  <2>1. kgFate' = [kgFate EXCEPT ![c] = "stayed"]
    BY <1>5, KgEndsEffect
  <2>2. kgFate[c] = "none"
    BY <1>2 DEF KgFates, FatesOf
  <2>3. KgLeft' = KgLeft
    BY <2>1, <2>2 DEF KgLeft, KG!TypeOK
  <2> QED  BY <1>2, <1>5, <2>3 DEF KgCount, KgClosed
<1> QED  BY <1>3, <1>4, <1>5, KgEndings

\* What the end of a child leaves as it is.
LEMMA KgEndsType ==
    ASSUME KG!TypeOK, KgAlarms, NEW c \in KG!Children,
           KG!Look(c) \/ KG!Leave(c) \/ KG!ChildStruck(c)
    PROVE  /\ kgSig' \in [KG!Procs -> KG!SignalStates(KG!Sigs)] /\ timer' \subseteq KG!Procs
           /\ UNCHANGED <<kgMain, gone>>
           /\ kgFate' \in [KG!Children -> {"none", "fetched", "stayed", "struck"}]
<1>1. UNCHANGED <<kgMain, gone>>
  BY KgEndings
<1>2. CASE UNCHANGED <<kgFate, kgSig, timer>>
  BY <1>1, <1>2 DEF KG!TypeOK
<1>3. ASSUME NEW how \in {"fetched", "stayed", "struck"}, KG!Ends(c, how)
      PROVE  /\ kgSig' \in [KG!Procs -> KG!SignalStates(KG!Sigs)] /\ timer' \subseteq KG!Procs
             /\ kgFate' \in [KG!Children -> {"none", "fetched", "stayed", "struck"}]
  <2>1. /\ kgSig' \in [KG!Procs -> KG!SignalStates(KG!Sigs)] /\ timer' = timer \ {c}
        /\ kgFate' = [kgFate EXCEPT ![c] = how]
    BY <1>3, KgEndsEffect
  <2> QED  BY <2>1 DEF KG!TypeOK
<1> QED  BY <1>1, <1>2, <1>3, KgEndings

\* No SIGCHLD is counted twice, or too early.
LEMMA KgCountStep ==
    ASSUME KG!TypeOK, KgFates, KgAlarms, KgShield, KgCount, [KG!Next]_(KG!vars)
    PROVE  KgCount'
<1> USE KgProcs, KgLeftFinite, KgSameLeft DEF KgCount, KG!flags
<1>1. ASSUME KG!SetAlarm PROVE KgCount'
  BY <1>1 DEF KG!SetAlarm
<1>2. ASSUME KG!Prepare PROVE KgCount'
  BY <1>2, KgPrepareEffect DEF KG!Prepare
<1>3. ASSUME KG!Close PROVE KgCount'
  BY <1>3, KgSends DEF KG!Close, KG!Sigs
<1>4. ASSUME KG!Report PROVE KgCount'
  BY <1>4 DEF KG!Report
<1>5. ASSUME KG!KGStruck PROVE KgCount'
  BY <1>5 DEF KG!KGStruck
<1>6. ASSUME KG!ForkFails PROVE KgCount'
  BY <1>6 DEF KG!ForkFails
<1>7. ASSUME NEW v \in KG!Sigs, KG!Wait(v) PROVE KgCount'
  <2>1. /\ v \in {"SIGALRM", "SIGCHLD"} /\ v \in kgSig[Parent].pending
        /\ kgSig'[Parent].pending \subseteq kgSig[Parent].pending
        /\ v \notin kgSig'[Parent].pending
    BY <1>7, KgWaitEffect
  <2>2. /\ KgLeft' = KgLeft /\ kgMain = "wait" /\ kgMain' \in {"wait", "close"}
        /\ gone' = KG!Counted(v)
    BY <1>7 DEF KG!Wait
  <2>3. gone \in Nat
    <3>1. gone \in 0 .. Young
      BY DEF KG!TypeOK
    <3> QED  BY ONLY <3>1, KgLeftFinite
  <2> QED  BY <2>1, <2>2, <2>3 DEF KG!Counted
<1>8. ASSUME NEW c \in KG!Children, KG!Fork(c) PROVE KgCount'
  BY <1>8, KgForkEffect DEF KG!Fork
<1>9. ASSUME NEW c \in KG!Children, KG!Install(c) PROVE KgCount'
  BY <1>9, KgInstallEffect DEF KG!Install
<1>10. ASSUME NEW c \in KG!Children, KG!Look(c) PROVE KgCount'
  BY <1>10, KgEndsCount
<1>11. ASSUME NEW c \in KG!Children, KG!FallIll(c) PROVE KgCount'
  BY <1>11, KgFallIllEffect DEF KG!FallIll
<1>12. ASSUME NEW c \in KG!Children, KG!Cough(c) PROVE KgCount'
  BY <1>12, KgSends DEF KG!Cough, KG!Sigs
<1>13. ASSUME NEW c \in KG!Children, KG!Leave(c) PROVE KgCount'
  BY <1>13, KgEndsCount
<1>14. ASSUME NEW c \in KG!Children, KG!ChildStruck(c) PROVE KgCount'
  BY <1>14, KgEndsCount
<1>15. ASSUME NEW p \in KG!Procs, KG!Ring(p) PROVE KgCount'
  BY <1>15, KgSends, ZenonT(40) DEF KG!Ring, KG!Sigs
<1>16. ASSUME NEW c \in KG!Children, NEW v \in KG!Sigs, KG!Handle(c, v) PROVE KgCount'
  BY <1>16, KgHandleEffect DEF KG!Handle
<1>17. CASE UNCHANGED KG!vars
  BY <1>17 DEF KG!vars
<1> QED
  BY <1>1, <1>2, <1>3, <1>4, <1>5, <1>6, <1>7, <1>8, <1>9, <1>10, <1>11, <1>12,
     <1>13, <1>14, <1>15, <1>16, <1>17, KgCases

\* The types are preserved.
LEMMA KgType ==
    ASSUME KG!TypeOK, KgAlarms, KgShield, KgCount, [KG!Next]_(KG!vars)
    PROVE  KG!TypeOK'
<1> USE KgProcs DEF KG!TypeOK, KG!Goto, KG!flags
<1>1. ASSUME KG!SetAlarm PROVE KG!TypeOK'
  BY <1>1 DEF KG!SetAlarm
<1>2. ASSUME KG!Prepare PROVE KG!TypeOK'
  BY <1>2, KgPrepareEffect DEF KG!Prepare
<1>3. ASSUME KG!Close PROVE KG!TypeOK'
  BY <1>3, KgSends DEF KG!Close, KG!Sigs
<1>4. ASSUME KG!Report PROVE KG!TypeOK'
  BY <1>4 DEF KG!Report
<1>5. ASSUME KG!KGStruck PROVE KG!TypeOK'
  BY <1>5 DEF KG!KGStruck
<1>6. ASSUME KG!ForkFails PROVE KG!TypeOK'
  BY <1>6 DEF KG!ForkFails
<1>7. ASSUME NEW v \in KG!Sigs, KG!Wait(v) PROVE KG!TypeOK'
  <2>1. /\ kgSig' \in [KG!Procs -> KG!SignalStates(KG!Sigs)]
        /\ v \in {"SIGALRM", "SIGCHLD"} /\ v \in kgSig[Parent].pending
    <3> HIDE DEF KG!TypeOK
    <3> QED  BY <1>7, KgWaitEffect
  <2>2. gone' = gone \/ (gone' = gone + 1 /\ gone + 1 <= Cardinality(KgLeft))
    BY <1>7, <2>1 DEF KG!Wait, KG!Counted, KgCount
  <2>3. gone' \in 0 .. Young
    <3>1. gone \in 0 .. Young
      OBVIOUS
    <3> QED  BY ONLY <2>2, <3>1, KgLeftFinite
  <2> QED  BY <1>7, <2>1, <2>3 DEF KG!Wait
<1>8. ASSUME NEW c \in KG!Children, KG!Fork(c) PROVE KG!TypeOK'
  BY <1>8, KgForkEffect DEF KG!Fork
<1>9. ASSUME NEW c \in KG!Children, KG!Install(c) PROVE KG!TypeOK'
  BY <1>9, KgInstallEffect DEF KG!Install
<1>10. ASSUME NEW c \in KG!Children, KG!Look(c) PROVE KG!TypeOK'
  <2>1. /\ kgSig' \in [KG!Procs -> KG!SignalStates(KG!Sigs)] /\ timer' \subseteq KG!Procs
        /\ UNCHANGED <<kgMain, gone>>
        /\ kgFate' \in [KG!Children -> {"none", "fetched", "stayed", "struck"}]
    <3> HIDE DEF KG!TypeOK
    <3> QED  BY <1>10, KgEndsType
  <2> QED  BY <1>10, <2>1 DEF KG!Look, KG!Ends
<1>11. ASSUME NEW c \in KG!Children, KG!FallIll(c) PROVE KG!TypeOK'
  BY <1>11, KgFallIllEffect DEF KG!FallIll
<1>12. ASSUME NEW c \in KG!Children, KG!Cough(c) PROVE KG!TypeOK'
  BY <1>12, KgSends DEF KG!Cough, KG!Sigs
<1>13. ASSUME NEW c \in KG!Children, KG!Leave(c) PROVE KG!TypeOK'
  <2>1. /\ kgSig' \in [KG!Procs -> KG!SignalStates(KG!Sigs)] /\ timer' \subseteq KG!Procs
        /\ UNCHANGED <<kgMain, gone>>
        /\ kgFate' \in [KG!Children -> {"none", "fetched", "stayed", "struck"}]
    <3> HIDE DEF KG!TypeOK
    <3> QED  BY <1>13, KgEndsType
  <2> QED  BY <1>13, <2>1 DEF KG!Leave, KG!Ends
<1>14. ASSUME NEW c \in KG!Children, KG!ChildStruck(c) PROVE KG!TypeOK'
  <2>1. /\ kgSig' \in [KG!Procs -> KG!SignalStates(KG!Sigs)] /\ timer' \subseteq KG!Procs
        /\ UNCHANGED <<kgMain, gone>>
        /\ kgFate' \in [KG!Children -> {"none", "fetched", "stayed", "struck"}]
    <3> HIDE DEF KG!TypeOK
    <3> QED  BY <1>14, KgEndsType
  <2> QED  BY <1>14, <2>1 DEF KG!ChildStruck, KG!Ends
<1>15. ASSUME NEW p \in KG!Procs, KG!Ring(p) PROVE KG!TypeOK'
  BY <1>15, KgSends DEF KG!Ring, KG!Sigs
<1>16. ASSUME NEW c \in KG!Children, NEW v \in KG!Sigs, KG!Handle(c, v) PROVE KG!TypeOK'
  BY <1>16, KgHandleEffect DEF KG!Handle
<1>17. CASE UNCHANGED KG!vars
  BY <1>17 DEF KG!vars
<1> QED
  BY <1>1, <1>2, <1>3, <1>4, <1>5, <1>6, <1>7, <1>8, <1>9, <1>10, <1>11, <1>12,
     <1>13, <1>14, <1>15, <1>16, <1>17, KgCases

\* The number of children that stayed is never printed too low: none that leaves is
\* counted twice, none before it has left, and none stays before the kindergarten
\* has closed, for any number of children (main's last loop of lab2_z2_2.c).
THEOREM KindergartenCounts == FairSpec => []NeverUndercounts
<1>1. Init => KgInv
  <2> SUFFICES ASSUME KG!Init PROVE KgInv
    BY DEF Init
  <2> USE DEF KG!Init
  <2>1. KG!NewProcess(KG!Sigs) \in KG!SignalStates(KG!Sigs)
    BY DEF KG!NewProcess, KG!SignalStates, KG!Sigs
  <2>2. /\ kgSig \in [KG!Procs -> KG!SignalStates(KG!Sigs)]
        /\ \A p \in KG!Procs : kgSig[p].pending = {}
    BY <2>1 DEF KG!NewProcess
  <2>3. KgFates /\ KgAlarms /\ KgShield
    BY DEF KgFates, FatesOf, KgAlarms, AlarmsOf, KG!Here, KgShield
  <2>4. gone = 0 /\ gone \in 0 .. Young
    BY YoungAssumption
  <2>5. KG!TypeOK
    BY <2>2, <2>4 DEF KG!TypeOK
  <2>6. KgCount
    BY <2>2, <2>4, KgLeftFinite, KgProcs DEF KgCount
  <2> QED  BY <2>3, <2>5, <2>6 DEF KgInv
<1>2. KgInv /\ [Next]_vars => KgInv'
  BY KGMoves, KgType, KgFatesStep, KgAlarmsStep, KgShieldStep, KgCountStep DEF KgInv
<1>3. KgInv => NeverUndercounts
  <2> SUFFICES ASSUME KgInv PROVE KG!NeverUndercounts
    BY DEF NeverUndercounts
  <2>1. KG!Cardinality(KgLeft) = Cardinality(KgLeft)
    BY DEF KG!Cardinality, Cardinality
  <2>2. gone <= KG!Cardinality({c \in KG!Children : kgFate[c] \in {"fetched", "struck"}})
    BY <2>1 DEF KgInv, KgCount, KgLeft
  <2> QED  BY <2>2 DEF KgInv, KgFates, FatesOf, KgClosed, KG!NeverUndercounts
<1> QED  BY <1>1, <1>2, <1>3, PTL DEF FairSpec

(***************************************************************************)
(* GraphFifo: producer.c and consumer.c.                                   *)
(***************************************************************************)
Fifos == Producers \cup {Old}
Others(x) == IF x \in Producers THEN Consumers ELSE Producers

\* What there is to read, and what has been read, are pieces of graphs.
GfTypes ==
    /\ Graph!TypeOK
    /\ written \in [Producers -> Nat]
    /\ fifo \in [Fifos -> Seq(Graph!Pieces)]
    /\ got \in [Consumers -> Seq(Graph!Pieces)]
    /\ printed \in [Consumers -> Seq(Graph!Pieces)]

\* Who has a FIFO, and who has none yet.
GfPlaces ==
    \A x \in Graph!Procs :
        /\ x \in Producers => pc[x] # "read"
        /\ x \in Consumers => pc[x] # "write"
        /\ pc[x] \in {"unlink", "mkfifo", "open"} => fd[x] = None
        /\ pc[x] \in {"opening", "write", "read"} => fd[x] # None

\* Nothing happens in a FIFO before both sides have come to it.
Busy(x) ==
    \/ x \in met \/ pc[x] \in {"write", "read"}
    \/ x \in Producers /\ written[x] > 0
    \/ x \in Consumers /\ (got[x] # <<>> \/ printed[x] # <<>>)
GfMet ==
    \A x \in Graph!Procs :
        Busy(x) => fd[x] # None /\ \E y \in Others(x) : fd[y] = fd[x]

\* A piece that can be found has been written, and into the FIFO where it is.
Has(c, piece) == Graph!Holds(piece, got[c]) \/ Graph!Holds(piece, printed[c])
Sent(piece) == piece.at <= written[piece.from]
GfPieces ==
    \A piece \in Graph!Pieces :
        /\ \A f \in Fifos : Graph!Holds(piece, fifo[f]) => Sent(piece) /\ fd[piece.from] = f
        /\ \A c \in Consumers : Has(c, piece) => Sent(piece)

\* What a consumer has nobody else has, and no FIFO holds it.
GfOnce ==
    \A piece \in Graph!Pieces : \A c \in Consumers :
        Has(c, piece) =>
            /\ \A f \in Fifos : ~Graph!Holds(piece, fifo[f])
            /\ \A d \in Consumers \ {c} : ~Has(d, piece)

\* A consumer that has one producer to itself has read a beginning of what that
\* producer has written, and the FIFO holds the rest.
Begun(p) == [j \in 1 .. written[p] |-> Graph!Piece(p, j)]
GfPair ==
    \A c \in Consumers : \A p \in Producers :
        Graph!Mates(c) = {p} =>
            /\ c \in Graph!Users(fd[c]) => got[c] \o fifo[fd[c]] = Begun(p)
            /\ printed[c] # <<>> => printed[c] = SubSeq(Graph!Graph(p), 1, Vertices + 1)

GfInv == GfTypes /\ GfPlaces /\ GfMet /\ GfPieces /\ GfOnce /\ GfPair

\* The steps of the program.
LEMMA GfCases ==
    ASSUME Graph!Next
    PROVE  \/ \E p \in Producers :
                  \/ Graph!Unlink(p) \/ Graph!MkFifo(p) \/ Graph!WriteLine(p)
                  \/ Graph!Sigpipe(p) \/ Graph!Close(p)
           \/ \E c \in Consumers : \/ Graph!ReadLines(c) \/ Graph!ShowGraph(c)
                                 \/ Graph!BadSize(c) \/ Graph!Eof(c)
           \/ \E x \in Graph!Procs :
                  Graph!Open(x) \/ Graph!OpenFails(x) \/ Graph!Opened(x) \/ Graph!Kill(x)
BY DEF Graph!Next, Graph!ProducerStep, Graph!ConsumerStep, Graph!Procs

\* Producers are no consumers, and a FIFO that has been made has a name.
LEMMA GfNames ==
    /\ Graph!Procs = Producers \cup Consumers
    /\ \A p \in Producers : p \notin Consumers
    /\ Old \in Fifos /\ None \notin Fifos /\ Producers \subseteq Fifos
    /\ Vertices \in Nat /\ MaxOver \in Nat
BY GraphAssumption DEF Fifos, Graph!Procs

\* What a producer is to write: at least a piece per line, the first with the number
\* of vertices.
LEMMA GfText ==
    ASSUME text \in [Producers -> Graph!Texts], NEW p \in Producers
    PROVE  /\ Len(text[p]) \in Nat
           /\ Vertices + 1 <= Len(text[p]) /\ Len(text[p]) <= Vertices + 1 + MaxOver
           /\ \A j \in 1 .. Len(text[p]) : text[p][j] \in 0 .. Vertices
           /\ text[p][1] = Vertices
<1>1. text[p] \in Graph!Texts
  OBVIOUS
<1>2. PICK m \in Vertices + 1 .. Vertices + 1 + MaxOver : text[p] \in [1 .. m -> 0 .. Vertices]
  BY <1>1 DEF Graph!Texts
<1>3. text[p][1] = Vertices
  BY <1>1 DEF Graph!Texts
<1>4. m \in Nat /\ Vertices + 1 <= m /\ m <= Vertices + 1 + MaxOver
  BY <1>2, GfNames
<1>5. Len(text[p]) = m
  BY <1>2, <1>4
<1> QED  BY <1>2, <1>3, <1>4, <1>5

\* It stays what it is.
LEMMA GfTextStays ==
    ASSUME [Graph!Next]_(Graph!vars)
    PROVE  text' = text
BY GfCases DEF Graph!Unlink, Graph!MkFifo, Graph!WriteLine, Graph!Sigpipe, Graph!Close,
   Graph!ReadLines, Graph!ShowGraph, Graph!BadSize, Graph!Eof, Graph!Open, Graph!OpenFails,
   Graph!Opened, Graph!Kill, Graph!vars

\* Whatever a process leaves, only what nobody else uses is lost.
LEMMA GfLeaves ==
    ASSUME GfTypes, GfPlaces, NEW x \in Graph!Procs, NEW place, x \in Graph!Users(fd[x]),
           Graph!Leaves(x, place)
    PROVE  /\ pc' = [pc EXCEPT ![x] = place]
           /\ fifo' \in [Fifos -> Seq(Graph!Pieces)]
           /\ got' \in [Consumers -> Seq(Graph!Pieces)]
           /\ \A f \in Fifos : \/ fifo'[f] = fifo[f]
                               \/ fifo'[f] = <<>> /\ Graph!Users(f) = {x}
           /\ \A c \in Consumers : /\ got'[c] \in {got[c], <<>>}
                                   /\ c # x => got'[c] = got[c]
<1> USE GfNames DEF GfTypes, GfPlaces, Graph!TypeOK
<1>1. fd[x] \in Fifos
  BY DEF Graph!Users, Fifos
<1>2. <<>> \in Seq(Graph!Pieces)
  OBVIOUS
<1>3. pc' = [pc EXCEPT ![x] = place]
  BY DEF Graph!Leaves, Graph!Goto
<1>4. fifo' = [fifo EXCEPT ![fd[x]] = IF Graph!Users(fd[x]) = {x} THEN <<>> ELSE @]
  BY DEF Graph!Leaves
<1>5. got' = [c \in Consumers |-> IF c = x THEN <<>> ELSE got[c]]
  BY DEF Graph!Leaves
<1> QED
  BY <1>1, <1>2, <1>3, <1>4, <1>5

\* In most steps nothing is written or read; something may be lost.
GfLoses ==
    /\ UNCHANGED <<fd, written, printed>>
    /\ fifo' \in [Fifos -> Seq(Graph!Pieces)] /\ got' \in [Consumers -> Seq(Graph!Pieces)]
    /\ \A f \in Fifos : fifo'[f] \in {fifo[f], <<>>}
    /\ \A c \in Consumers :
           /\ got'[c] \in {got[c], <<>>}
           /\ c \in Graph!Users(fd[c])' =>
                  c \in Graph!Users(fd[c]) /\ got'[c] = got[c] /\ fifo'[fd[c]] = fifo[fd[c]]

\* They are these.
LEMMA GfQuiet ==
    ASSUME GfTypes, GfPlaces, [Graph!Next]_(Graph!vars)
    PROVE  \/ GfLoses
           \/ \E x \in Graph!Procs : Graph!Open(x)
           \/ \E p \in Producers : Graph!WriteLine(p)
           \/ \E c \in Consumers : Graph!ReadLines(c) \/ Graph!ShowGraph(c)
<1> USE GfNames
<1>1. ASSUME UNCHANGED <<fd, written, printed, fifo, got>>,
             \A c \in Consumers : c \in Graph!Users(fd[c])' => c \in Graph!Users(fd[c])
      PROVE  GfLoses
  BY <1>1 DEF GfTypes, GfLoses
<1>2. ASSUME NEW x \in Graph!Procs, NEW place, x \in Graph!Users(fd[x]),
             Graph!Leaves(x, place), UNCHANGED <<fd, written, printed>>,
             place \notin {"opening", "write", "read"}
      PROVE  GfLoses
  <2>1. \A c \in Consumers : c \in Graph!Users(fd[c])' => c # x /\ c \in Graph!Users(fd[c])
    BY <1>2, GfLeaves DEF Graph!Users, GfTypes, Graph!TypeOK
  <2>2. \A c \in Consumers : c \in Graph!Users(fd[c]) => fd[c] \in Fifos
    BY DEF Graph!Users, GfTypes, Graph!TypeOK, GfPlaces, Fifos
  <2> QED
    BY <1>2, <2>1, <2>2, GfLeaves DEF GfLoses
<1>3. ASSUME NEW p \in Producers, Graph!Unlink(p) PROVE GfLoses
  BY <1>1, <1>3 DEF Graph!Unlink, Graph!Goto, Graph!Users, GfTypes, Graph!TypeOK
<1>4. ASSUME NEW p \in Producers, Graph!MkFifo(p) PROVE GfLoses
  BY <1>1, <1>4 DEF Graph!MkFifo, Graph!Goto, Graph!Users, GfTypes, Graph!TypeOK
<1>5. ASSUME NEW x \in Graph!Procs, Graph!OpenFails(x) PROVE GfLoses
  BY <1>1, <1>5 DEF Graph!OpenFails, Graph!Goto, Graph!Users, GfTypes, Graph!TypeOK
<1>6. ASSUME NEW x \in Graph!Procs, Graph!Opened(x) PROVE GfLoses
  BY <1>1, <1>6 DEF Graph!Opened, Graph!Goto, Graph!Users, GfTypes, Graph!TypeOK
<1>7. ASSUME NEW p \in Producers, Graph!Sigpipe(p) \/ Graph!Close(p) PROVE GfLoses
  BY <1>2, <1>7 DEF Graph!Sigpipe, Graph!Close, Graph!Users
<1>8. ASSUME NEW c \in Consumers, Graph!BadSize(c) \/ Graph!Eof(c) PROVE GfLoses
  BY <1>2, <1>8 DEF Graph!BadSize, Graph!Eof, Graph!Users
<1>9. ASSUME NEW x \in Graph!Procs, Graph!Kill(x) PROVE GfLoses
  <2>1. CASE x \in Graph!Users(fd[x])
    BY <1>2, <1>9, <2>1 DEF Graph!Kill
  <2>2. CASE x \notin Graph!Users(fd[x])
    BY <1>1, <1>9, <2>2 DEF Graph!Kill, Graph!Goto, Graph!Users, GfTypes, Graph!TypeOK
  <2> QED  BY <2>1, <2>2
<1>10. CASE UNCHANGED Graph!vars
  BY <1>1, <1>10 DEF Graph!vars, Graph!Users
<1> QED
  BY <1>3, <1>4, <1>5, <1>6, <1>7, <1>8, <1>9, <1>10, GfCases

\* What the four other steps do: a process opens the FIFO of the path,
LEMMA GfOpens ==
    ASSUME GfTypes, NEW x \in Graph!Procs, Graph!Open(x)
    PROVE  /\ pc[x] = "open" /\ linked \in Fifos
           /\ fd' = [fd EXCEPT ![x] = linked] /\ pc' = [pc EXCEPT ![x] = "opening"]
           /\ met' = met \cup Graph!Partners(x, linked)
                         \cup (IF Graph!Partners(x, linked) = {} THEN {} ELSE {x})
           /\ UNCHANGED <<linked, fifo, written, got, printed, kills>>
BY DEF Graph!Open, Graph!Goto, GfTypes, Graph!TypeOK, Fifos

\* a producer writes a piece that has not been seen before,
LEMMA GfWrites ==
    ASSUME GfTypes, GfPlaces, NEW p \in Producers, Graph!WriteLine(p)
    PROVE  /\ fd[p] \in Fifos /\ written[p] \in Nat /\ written[p] < Len(text[p])
           /\ Graph!Piece(p, written[p] + 1) \in Graph!Pieces
           /\ fifo' = [fifo EXCEPT ![fd[p]] = Append(@, Graph!Piece(p, written[p] + 1))]
           /\ fifo' \in [Fifos -> Seq(Graph!Pieces)]
           /\ written' = [written EXCEPT ![p] = @ + 1]
           /\ UNCHANGED <<linked, pc, fd, met, got, printed, kills>>
<1> USE GfNames
<1>1. fd[p] \in Fifos
  BY DEF Graph!WriteLine, GfTypes, GfPlaces, Graph!TypeOK, Fifos
<1>2. written[p] \in Nat /\ written[p] < Len(text[p])
  BY DEF Graph!WriteLine, GfTypes
<1>3. Graph!Piece(p, written[p] + 1) \in Graph!Pieces
  <2>1. Len(text[p]) \in Nat /\ Len(text[p]) <= Vertices + 1 + MaxOver
    BY GfText DEF GfTypes, Graph!TypeOK
  <2>2. written[p] + 1 \in 1 .. Vertices + 1 + MaxOver
    BY <1>2, <2>1
  <2> QED  BY <2>2 DEF Graph!Piece, Graph!Pieces
<1>4. fifo' = [fifo EXCEPT ![fd[p]] = Append(@, Graph!Piece(p, written[p] + 1))]
  BY DEF Graph!WriteLine
<1>5. fifo' \in [Fifos -> Seq(Graph!Pieces)]
  BY <1>1, <1>3, <1>4 DEF GfTypes
<1> QED  BY <1>1, <1>2, <1>3, <1>4, <1>5 DEF Graph!WriteLine

\* a consumer reads all there is,
LEMMA GfReads ==
    ASSUME GfTypes, GfPlaces, NEW c \in Consumers, Graph!ReadLines(c)
    PROVE  /\ fd[c] \in Fifos
           /\ got' = [got EXCEPT ![c] = got[c] \o fifo[fd[c]]]
           /\ got' \in [Consumers -> Seq(Graph!Pieces)]
           /\ fifo' = [fifo EXCEPT ![fd[c]] = <<>>]
           /\ fifo' \in [Fifos -> Seq(Graph!Pieces)]
           /\ UNCHANGED <<linked, pc, fd, met, written, printed, kills>>
<1> USE GfNames
<1>1. fd[c] \in Fifos
  BY DEF Graph!ReadLines, GfTypes, GfPlaces, Graph!TypeOK, Fifos
<1>2. got[c] \o fifo[fd[c]] \in Seq(Graph!Pieces)
  BY <1>1 DEF GfTypes
<1>3. <<>> \in Seq(Graph!Pieces)
  OBVIOUS
<1> QED  BY <1>1, <1>2, <1>3 DEF Graph!ReadLines, GfTypes

\* or prints the beginning of what it has read.
LEMMA GfShows ==
    ASSUME GfTypes, GfPlaces, GfPieces, NEW c \in Consumers, Graph!ShowGraph(c)
    PROVE  /\ c \in Graph!Users(fd[c]) /\ Graph!Leaves(c, "done")
           /\ Graph!Size(got[c][1]) \in 0 .. Vertices
           /\ Len(got[c]) > Graph!Size(got[c][1])
           /\ printed' = [printed EXCEPT ![c] = SubSeq(got[c], 1, 1 + Graph!Size(got[c][1]))]
           /\ printed' \in [Consumers -> Seq(Graph!Pieces)]
           /\ UNCHANGED <<linked, fd, met, written, kills>>
<1> USE GfNames
<1>1. got[c] \in Seq(Graph!Pieces) /\ got[c] # <<>>
  BY DEF GfTypes, Graph!ShowGraph, Graph!Complete
<1>2. got[c][1] \in Graph!Pieces
  BY <1>1
<1>3. Graph!Size(got[c][1]) \in 0 .. Vertices
  <2> DEFINE piece == got[c][1]
  <2>1. piece \in Graph!Pieces /\ Has(c, piece)
    BY <1>1, <1>2 DEF Has, Graph!Holds
  <2>2. piece.from \in Producers /\ piece.at \in 1 .. Vertices + 1 + MaxOver
    BY <2>1 DEF Graph!Pieces
  <2>3. piece.at <= written[piece.from]
    BY <2>1 DEF GfPieces, Sent
  <2>4. /\ written[piece.from] \in 0 .. Len(text[piece.from])
        /\ text \in [Producers -> Graph!Texts]
    BY <2>2 DEF GfTypes, Graph!TypeOK
  <2>5. /\ Len(text[piece.from]) \in Nat
        /\ \A j \in 1 .. Len(text[piece.from]) : text[piece.from][j] \in 0 .. Vertices
    BY <2>2, <2>4, GfText
  <2>6. piece.at \in 1 .. Len(text[piece.from])
    BY <2>2, <2>3, <2>4, <2>5
  <2> QED  BY <2>5, <2>6 DEF Graph!Size
<1>4. Len(got[c]) > Graph!Size(got[c][1])
  BY DEF Graph!ShowGraph, Graph!Complete
<1>5. SubSeq(got[c], 1, 1 + Graph!Size(got[c][1])) \in Seq(Graph!Pieces)
  BY <1>1, <1>3, <1>4, SubSeqProperties
<1> QED
  BY <1>3, <1>4, <1>5 DEF Graph!ShowGraph, Graph!Users, GfTypes

\* The types are preserved.
LEMMA GfType ==
    ASSUME GfTypes, GfPlaces, GfPieces, [Graph!Next]_(Graph!vars)
    PROVE  GfTypes'
<1> USE GfNames
<1>1. /\ linked' \in Producers \cup {Old, None} /\ met' \subseteq Graph!Procs
      /\ kills' \in 0 .. MaxKills
      /\ pc' \in [Graph!Procs -> {"unlink", "mkfifo", "open", "giveup", "opening", "write",
                                  "tidy", "read", "absent", "done", "failed"}]
  <2> USE CountingAssumption DEF GfTypes, Graph!TypeOK, Graph!Goto
  <2>1. ASSUME NEW p \in Producers, Graph!Unlink(p) PROVE <1>1
    BY <2>1 DEF Graph!Unlink
  <2>2. ASSUME NEW p \in Producers, Graph!MkFifo(p) PROVE <1>1
    BY <2>2 DEF Graph!MkFifo
  <2>3. ASSUME NEW p \in Producers, Graph!WriteLine(p) PROVE <1>1
    BY <2>3 DEF Graph!WriteLine
  <2>4. ASSUME NEW p \in Producers, Graph!Sigpipe(p) \/ Graph!Close(p) PROVE <1>1
    BY <2>4 DEF Graph!Sigpipe, Graph!Close, Graph!Leaves
  <2>5. ASSUME NEW c \in Consumers, Graph!ReadLines(c) PROVE <1>1
    BY <2>5 DEF Graph!ReadLines
  <2>6. ASSUME NEW c \in Consumers, Graph!ShowGraph(c) \/ Graph!BadSize(c) \/ Graph!Eof(c) PROVE <1>1
    BY <2>6 DEF Graph!ShowGraph, Graph!BadSize, Graph!Eof, Graph!Leaves
  <2>7. ASSUME NEW x \in Graph!Procs, Graph!Open(x) PROVE <1>1
    BY <2>7 DEF Graph!Open, Graph!Partners, Graph!Users
  <2>8. ASSUME NEW x \in Graph!Procs, Graph!OpenFails(x) PROVE <1>1
    BY <2>8 DEF Graph!OpenFails
  <2>9. ASSUME NEW x \in Graph!Procs, Graph!Opened(x) PROVE <1>1
    BY <2>9 DEF Graph!Opened
  <2>10. ASSUME NEW x \in Graph!Procs, Graph!Kill(x) PROVE <1>1
    <3>1. pc' = [pc EXCEPT ![x] = "failed"]
      BY <2>10 DEF Graph!Kill, Graph!Leaves
    <3>2. UNCHANGED linked /\ met' = met \ {x} /\ kills < MaxKills /\ kills' = kills + 1
      BY <2>10 DEF Graph!Kill
    <3> QED  BY <3>1, <3>2
  <2>11. CASE UNCHANGED Graph!vars
    BY <2>11 DEF Graph!vars
  <2> QED
    BY <2>1, <2>2, <2>3, <2>4, <2>5, <2>6, <2>7, <2>8, <2>9, <2>10, <2>11, GfCases
<1>2. /\ fd' \in [Graph!Procs -> Producers \cup {Old, None}]
      /\ written' \in [Producers -> Nat] /\ text' = text
      /\ \A p \in Producers : written'[p] \in 0 .. Len(text[p])
      /\ fifo' \in [Fifos -> Seq(Graph!Pieces)]
      /\ got' \in [Consumers -> Seq(Graph!Pieces)]
      /\ printed' \in [Consumers -> Seq(Graph!Pieces)]
  <2> USE GfTextStays DEF GfTypes, Graph!TypeOK
  <2>1. CASE GfLoses
    BY <2>1 DEF GfLoses
  <2>2. ASSUME NEW x \in Graph!Procs, Graph!Open(x) PROVE <1>2
    <3>1. linked \in Producers \cup {Old, None}
      OBVIOUS
    <3> QED  BY <2>2, <3>1 DEF Graph!Open
  <2>3. ASSUME NEW p \in Producers, Graph!WriteLine(p) PROVE <1>2
    <3>1. /\ written' \in [Producers -> Nat]
          /\ \A q \in Producers : written'[q] \in 0 .. Len(text[q])
      <4>1. /\ written' = [written EXCEPT ![p] = @ + 1] /\ written[p] \in Nat
            /\ written[p] < Len(text[p])
        BY <2>3, GfWrites
      <4>2. Len(text[p]) \in Nat
        BY GfText
      <4> QED  BY <4>1, <4>2
    <3>2. fifo' \in [Fifos -> Seq(Graph!Pieces)] /\ UNCHANGED <<fd, got, printed>>
      BY <2>3, GfWrites
    <3> QED  BY <3>1, <3>2
  <2>4. ASSUME NEW c \in Consumers, Graph!ReadLines(c) PROVE <1>2
    BY <2>4, GfReads
  <2>5. ASSUME NEW c \in Consumers, Graph!ShowGraph(c) PROVE <1>2
    BY <2>5, GfShows, GfLeaves
  <2> HIDE DEF GfTypes, Graph!TypeOK
  <2> QED  BY <2>1, <2>2, <2>3, <2>4, <2>5, GfQuiet
<1>3. /\ \A f \in DOMAIN fifo' : \A j \in DOMAIN fifo'[f] : fifo'[f][j] \in Graph!Pieces
      /\ \A c \in Consumers : \A j \in DOMAIN got'[c] : got'[c][j] \in Graph!Pieces
  BY <1>2
<1> QED
  BY <1>1, <1>2, <1>3 DEF GfTypes, Graph!TypeOK

\* A process has opened its FIFO, or has not.
LEMMA GfPlacesStep ==
    ASSUME GfTypes, GfPlaces, [Graph!Next]_(Graph!vars)
    PROVE  GfPlaces'
<1> USE GfNames DEF GfTypes, Graph!TypeOK, Graph!Goto, GfPlaces
<1>1. ASSUME NEW p \in Producers, Graph!Unlink(p) PROVE GfPlaces'
  BY <1>1 DEF Graph!Unlink
<1>2. ASSUME NEW p \in Producers, Graph!MkFifo(p) PROVE GfPlaces'
  BY <1>2 DEF Graph!MkFifo
<1>3. ASSUME NEW p \in Producers, Graph!WriteLine(p) PROVE GfPlaces'
  BY <1>3 DEF Graph!WriteLine
<1>4. ASSUME NEW p \in Producers, Graph!Sigpipe(p) \/ Graph!Close(p) PROVE GfPlaces'
  BY <1>4 DEF Graph!Sigpipe, Graph!Close, Graph!Leaves
<1>5. ASSUME NEW c \in Consumers, Graph!ReadLines(c) PROVE GfPlaces'
  BY <1>5 DEF Graph!ReadLines
<1>6. ASSUME NEW c \in Consumers, Graph!ShowGraph(c) \/ Graph!BadSize(c) \/ Graph!Eof(c)
      PROVE  GfPlaces'
  BY <1>6 DEF Graph!ShowGraph, Graph!BadSize, Graph!Eof, Graph!Leaves
<1>7. ASSUME NEW x \in Graph!Procs, Graph!Open(x) PROVE GfPlaces'
  BY <1>7 DEF Graph!Open
<1>8. ASSUME NEW x \in Graph!Procs, Graph!OpenFails(x) PROVE GfPlaces'
  BY <1>8 DEF Graph!OpenFails
<1>9. ASSUME NEW x \in Graph!Procs, Graph!Opened(x) PROVE GfPlaces'
  BY <1>9 DEF Graph!Opened
<1>10. ASSUME NEW x \in Graph!Procs, Graph!Kill(x) PROVE GfPlaces'
  BY <1>10 DEF Graph!Kill, Graph!Leaves
<1>11. CASE UNCHANGED Graph!vars
  BY <1>11 DEF Graph!vars
<1> QED
  BY <1>1, <1>2, <1>3, <1>4, <1>5, <1>6, <1>7, <1>8, <1>9, <1>10, <1>11, GfCases

\* Nobody becomes busy but in open().
LEMMA GfBusy ==
    ASSUME GfTypes, GfPlaces, [Graph!Next]_(Graph!vars), NEW x \in Graph!Procs, Busy(x)',
           \A y \in Graph!Procs : ~Graph!Open(y)
    PROVE  Busy(x) /\ UNCHANGED fd
<1> USE GfNames DEF Graph!Goto, Busy
<1>1. ASSUME NEW p \in Producers, Graph!Unlink(p) PROVE Busy(x) /\ UNCHANGED fd
  BY <1>1 DEF Graph!Unlink, GfTypes, Graph!TypeOK
<1>2. ASSUME NEW p \in Producers, Graph!MkFifo(p) PROVE Busy(x) /\ UNCHANGED fd
  BY <1>2 DEF Graph!MkFifo, GfTypes, Graph!TypeOK
<1>3. ASSUME NEW p \in Producers, Graph!WriteLine(p) PROVE Busy(x) /\ UNCHANGED fd
  BY <1>3 DEF Graph!WriteLine, GfTypes, Graph!TypeOK
<1>4. ASSUME NEW p \in Producers, Graph!Sigpipe(p) \/ Graph!Close(p)
      PROVE  Busy(x) /\ UNCHANGED fd
  BY <1>4 DEF Graph!Sigpipe, Graph!Close, Graph!Leaves, GfTypes, Graph!TypeOK
<1>5. ASSUME NEW c \in Consumers, Graph!ReadLines(c) PROVE Busy(x) /\ UNCHANGED fd
  BY <1>5 DEF Graph!ReadLines, GfTypes, Graph!TypeOK
<1>6. ASSUME NEW c \in Consumers, Graph!ShowGraph(c) PROVE Busy(x) /\ UNCHANGED fd
  BY <1>6 DEF Graph!ShowGraph, Graph!Leaves, GfTypes, Graph!TypeOK
<1>7. ASSUME NEW c \in Consumers, Graph!BadSize(c) \/ Graph!Eof(c)
      PROVE  Busy(x) /\ UNCHANGED fd
  BY <1>7 DEF Graph!BadSize, Graph!Eof, Graph!Leaves, GfTypes, Graph!TypeOK
<1>8. ASSUME NEW y \in Graph!Procs, Graph!OpenFails(y) PROVE Busy(x) /\ UNCHANGED fd
  BY <1>8 DEF Graph!OpenFails, GfTypes, Graph!TypeOK
<1>9. ASSUME NEW y \in Graph!Procs, Graph!Opened(y) PROVE Busy(x) /\ UNCHANGED fd
  BY <1>9 DEF Graph!Opened, GfTypes, Graph!TypeOK
<1>10. ASSUME NEW y \in Graph!Procs, Graph!Kill(y) PROVE Busy(x) /\ UNCHANGED fd
  BY <1>10 DEF Graph!Kill, Graph!Leaves, GfTypes, Graph!TypeOK
<1>11. CASE UNCHANGED Graph!vars
  BY <1>11 DEF Graph!vars
<1> QED
  BY <1>1, <1>2, <1>3, <1>4, <1>5, <1>6, <1>7, <1>8, <1>9, <1>10, <1>11, GfCases

\* In open() whoever becomes busy has met somebody, and everybody stays where he
\* is.
LEMMA GfMetStep ==
    ASSUME GfTypes, GfPlaces, GfMet, [Graph!Next]_(Graph!vars)
    PROVE  GfMet'
<1> USE GfNames
<1>1. CASE \A y \in Graph!Procs : ~Graph!Open(y)
  BY <1>1, GfBusy DEF GfMet, Others
<1>2. ASSUME NEW z \in Graph!Procs, Graph!Open(z) PROVE GfMet'
  <2>1. /\ pc[z] = "open" /\ linked \in Fifos /\ pc' = [pc EXCEPT ![z] = "opening"]
        /\ fd' = [fd EXCEPT ![z] = linked] /\ UNCHANGED <<written, got, printed>>
        /\ met' = met \cup Graph!Partners(z, linked)
                      \cup (IF Graph!Partners(z, linked) = {} THEN {} ELSE {z})
    BY <1>2, GfOpens
  <2>2. fd[z] = None /\ fd \in [Graph!Procs -> Fifos \cup {None}]
    BY <2>1 DEF GfPlaces, GfTypes, Graph!TypeOK, Fifos
  <2>3. \A y \in Graph!Partners(z, linked) : y \in Others(z) /\ fd[y] = linked /\ y # z
    BY DEF Graph!Partners, Graph!Users, Others
  <2>4. \A y \in Graph!Procs : y \in Others(z) => z \in Others(y)
    BY DEF Others
  <2> SUFFICES ASSUME NEW x \in Graph!Procs, Busy(x)'
               PROVE  fd'[x] # None /\ \E y \in Others(x) : fd'[y] = fd'[x]
    BY DEF GfMet, Others
  <2>5. CASE Busy(x)
    <3>1. PICK y \in Others(x) : fd[y] = fd[x]
      BY <2>5 DEF GfMet
    <3>2. x # z /\ y # z /\ y \in Graph!Procs
      BY <2>2, <2>5, <3>1 DEF GfMet, Others
    <3> QED  BY <2>1, <2>2, <2>5, <3>1, <3>2 DEF GfMet
  <2>6. CASE ~Busy(x)
    <3>1. x \in met' /\ x \notin met
      BY <2>1, <2>6 DEF Busy, GfTypes, Graph!TypeOK
    <3>2. CASE x \in Graph!Partners(z, linked)
      <4>1. x # z /\ fd'[x] = linked /\ fd'[z] = linked /\ z \in Others(x)
        BY <2>1, <2>2, <2>3, <2>4, <3>2
      <4> QED  BY <2>1, <4>1
    <3>3. CASE x = z /\ Graph!Partners(z, linked) # {}
      <4>1. PICK y : y \in Graph!Partners(z, linked)
        BY <3>3
      <4>2. y \in Graph!Procs /\ y \in Others(z) /\ fd[y] = linked /\ y # z
        BY <2>3, <4>1 DEF Graph!Partners, Graph!Users
      <4>3. fd'[y] = linked /\ fd'[z] = linked
        BY <2>1, <2>2, <4>2
      <4> QED  BY <2>1, <3>3, <4>2, <4>3
    <3> QED  BY <2>1, <3>1, <3>2, <3>3
  <2> QED  BY <2>5, <2>6
<1> QED  BY <1>1, <1>2

\* What a sequence of pieces holds.
LEMMA GfHolds ==
    /\ \A piece : ~Graph!Holds(piece, <<>>)
    /\ \A s, t \in Seq(Graph!Pieces) : \A piece :
           Graph!Holds(piece, s \o t) <=> Graph!Holds(piece, s) \/ Graph!Holds(piece, t)
    /\ \A s \in Seq(Graph!Pieces) : \A e \in Graph!Pieces : \A piece :
           Graph!Holds(piece, Append(s, e)) <=> Graph!Holds(piece, s) \/ piece = e
    /\ \A s \in Seq(Graph!Pieces) : \A k \in 0 .. Len(s) : \A piece :
           Graph!Holds(piece, SubSeq(s, 1, k)) => Graph!Holds(piece, s)
<1>1. \A piece : ~Graph!Holds(piece, <<>>)
  BY DEF Graph!Holds
<1>2. ASSUME NEW s \in Seq(Graph!Pieces), NEW t \in Seq(Graph!Pieces), NEW piece
      PROVE  Graph!Holds(piece, s \o t) <=> Graph!Holds(piece, s) \/ Graph!Holds(piece, t)
  <2>1. /\ DOMAIN (s \o t) = 1 .. Len(s) + Len(t)
        /\ \A j \in 1 .. Len(s) : (s \o t)[j] = s[j]
        /\ \A j \in 1 .. Len(t) : (s \o t)[Len(s) + j] = t[j]
    OBVIOUS
  <2>2. /\ DOMAIN s = 1 .. Len(s) /\ DOMAIN t = 1 .. Len(t)
        /\ Len(s) \in Nat /\ Len(t) \in Nat
    OBVIOUS
  <2>3. ASSUME Graph!Holds(piece, s \o t) PROVE Graph!Holds(piece, s) \/ Graph!Holds(piece, t)
    <3>1. PICK j \in 1 .. Len(s) + Len(t) : (s \o t)[j] = piece
      BY <2>1, <2>3 DEF Graph!Holds
    <3>2. CASE j <= Len(s)
      BY <2>1, <2>2, <3>1, <3>2 DEF Graph!Holds
    <3>3. CASE j > Len(s)
      <4>1. j - Len(s) \in 1 .. Len(t) /\ Len(s) + (j - Len(s)) = j
        BY <2>2, <3>3
      <4> QED  BY <2>1, <2>2, <3>1, <4>1 DEF Graph!Holds
    <3> QED  BY <2>2, <3>2, <3>3
  <2>4. ASSUME Graph!Holds(piece, s) PROVE Graph!Holds(piece, s \o t)
    BY <2>1, <2>2, <2>4 DEF Graph!Holds
  <2>5. ASSUME Graph!Holds(piece, t) PROVE Graph!Holds(piece, s \o t)
    <3>1. PICK j \in 1 .. Len(t) : t[j] = piece
      BY <2>2, <2>5 DEF Graph!Holds
    <3>2. Len(s) + j \in 1 .. Len(s) + Len(t) /\ (s \o t)[Len(s) + j] = piece
      BY <2>1, <2>2, <3>1
    <3> QED  BY <2>1, <3>2 DEF Graph!Holds
  <2> QED  BY <2>3, <2>4, <2>5
<1>3. ASSUME NEW s \in Seq(Graph!Pieces), NEW e \in Graph!Pieces, NEW piece
      PROVE  Graph!Holds(piece, Append(s, e)) <=> Graph!Holds(piece, s) \/ piece = e
  <2>1. /\ DOMAIN Append(s, e) = 1 .. Len(s) + 1 /\ DOMAIN s = 1 .. Len(s) /\ Len(s) \in Nat
        /\ \A j \in 1 .. Len(s) : Append(s, e)[j] = s[j]
        /\ Append(s, e)[Len(s) + 1] = e
    OBVIOUS
  <2> QED  BY <2>1 DEF Graph!Holds
<1>4. ASSUME NEW s \in Seq(Graph!Pieces), NEW k \in 0 .. Len(s), NEW piece,
             Graph!Holds(piece, SubSeq(s, 1, k))
      PROVE  Graph!Holds(piece, s)
  <2>1. /\ DOMAIN SubSeq(s, 1, k) = 1 .. k /\ DOMAIN s = 1 .. Len(s)
        /\ \A j \in 1 .. k : SubSeq(s, 1, k)[j] = s[j]
    OBVIOUS
  <2> QED  BY <1>4, <2>1 DEF Graph!Holds
<1> QED  BY <1>1, <1>2, <1>3, <1>4

\* Where a piece can be found: one that is written is new, one that is read moves,
\* and none comes from nowhere.
LEMMA GfMoves ==
    ASSUME GfTypes, GfPlaces, GfPieces, GfOnce, [Graph!Next]_(Graph!vars),
           NEW piece \in Graph!Pieces
    PROVE  /\ Sent(piece) => Sent(piece)'
           /\ \/ /\ \A f \in Fifos : Graph!Holds(piece, fifo[f])' => Graph!Holds(piece, fifo[f])
                 /\ \A c \in Consumers : Has(c, piece)' => Has(c, piece)
              \/ /\ ~Sent(piece) /\ Sent(piece)'
                 /\ fd[piece.from] \in Fifos /\ fd' = fd
                 /\ \A f \in Fifos : Graph!Holds(piece, fifo[f])' => f = fd[piece.from]
                 /\ \A c \in Consumers : Has(c, piece)' => Has(c, piece)
              \/ /\ \A f \in Fifos : ~Graph!Holds(piece, fifo[f])'
                 /\ \E f \in Fifos : Graph!Holds(piece, fifo[f])
                 /\ \E c \in Consumers : \A d \in Consumers : Has(d, piece)' => d = c
<1> USE GfNames, GfHolds
<1>1. piece.from \in Producers /\ piece.at \in Nat
  BY DEF Graph!Pieces
<1>2. CASE GfLoses
  BY <1>2 DEF GfLoses, Sent, Has
<1>3. ASSUME NEW x \in Graph!Procs, Graph!Open(x)
      PROVE  /\ Sent(piece) => Sent(piece)'
             /\ \A f \in Fifos : Graph!Holds(piece, fifo[f])' => Graph!Holds(piece, fifo[f])
             /\ \A c \in Consumers : Has(c, piece)' => Has(c, piece)
  BY <1>3, GfOpens DEF Sent, Has
<1>4. ASSUME NEW p \in Producers, Graph!WriteLine(p)
      PROVE  /\ Sent(piece) => Sent(piece)'
             /\ \A c \in Consumers : Has(c, piece)' => Has(c, piece)
             /\ \/ \A f \in Fifos : Graph!Holds(piece, fifo[f])' => Graph!Holds(piece, fifo[f])
                \/ /\ ~Sent(piece) /\ Sent(piece)'
                   /\ fd[piece.from] \in Fifos /\ fd' = fd
                   /\ \A f \in Fifos : Graph!Holds(piece, fifo[f])' => f = fd[piece.from]
  <2>1. /\ fd[p] \in Fifos /\ written[p] \in Nat
        /\ Graph!Piece(p, written[p] + 1) \in Graph!Pieces
        /\ fifo' = [fifo EXCEPT ![fd[p]] = Append(@, Graph!Piece(p, written[p] + 1))]
        /\ written' = [written EXCEPT ![p] = @ + 1]
        /\ UNCHANGED <<fd, got, printed>>
    BY <1>4, GfWrites
  <2>2. PICK new \in Graph!Pieces : new = Graph!Piece(p, written[p] + 1)
    BY <2>1
  <2>3. new.from = p /\ new.at = written[p] + 1
    BY <2>2 DEF Graph!Piece
  <2>4. Sent(piece) => Sent(piece)'
    BY <1>1, <2>1 DEF Sent, GfTypes, Graph!TypeOK
  <2>5. ~Sent(new) /\ Sent(new)'
    BY <2>1, <2>3 DEF Sent, GfTypes, Graph!TypeOK
  <2>6. \A f \in Fifos : f # fd[p] => fifo'[f] = fifo[f]
    BY <2>1 DEF GfTypes
  <2>7. fifo'[fd[p]] = Append(fifo[fd[p]], new)
    BY <2>1, <2>2 DEF GfTypes
  <2>8. \A f \in Fifos :
            Graph!Holds(piece, fifo[f])' =>
                Graph!Holds(piece, fifo[f]) \/ (piece = new /\ f = fd[p])
    <3> SUFFICES ASSUME NEW f \in Fifos, Graph!Holds(piece, fifo'[f])
                 PROVE  Graph!Holds(piece, fifo[f]) \/ (piece = new /\ f = fd[p])
      BY DEF Graph!Holds
    <3>1. fifo[f] \in Seq(Graph!Pieces)
      BY DEF GfTypes
    <3>2. fifo[fd[p]] \in Seq(Graph!Pieces)
      BY <2>1 DEF GfTypes
    <3>3. Graph!Holds(piece, Append(fifo[fd[p]], new)) =>
              Graph!Holds(piece, fifo[fd[p]]) \/ piece = new
      BY <2>2, <3>2
    <3>4. CASE f = fd[p]
      BY <2>7, <3>3, <3>4
    <3>5. CASE f # fd[p]
      BY <2>6, <3>5
    <3> QED  BY <3>4, <3>5
  <2>9. \A f \in Fifos : ~Graph!Holds(new, fifo[f])
    BY <2>5 DEF GfPieces
  <2>10. \A c \in Consumers : Has(c, piece)' => Has(c, piece)
    BY <2>1 DEF Has
  <2> QED  BY <2>1, <2>3, <2>4, <2>5, <2>8, <2>9, <2>10
<1>5. ASSUME NEW c \in Consumers, Graph!ReadLines(c)
      PROVE  /\ Sent(piece) => Sent(piece)'
             /\ \A f \in Fifos : Graph!Holds(piece, fifo[f])' => Graph!Holds(piece, fifo[f])
             /\ \/ \A d \in Consumers : Has(d, piece)' => Has(d, piece)
                \/ /\ \A f \in Fifos : ~Graph!Holds(piece, fifo[f])'
                   /\ \E f \in Fifos : Graph!Holds(piece, fifo[f])
                   /\ \A d \in Consumers : Has(d, piece)' => d = c
  <2>1. /\ fd[c] \in Fifos
        /\ got' = [got EXCEPT ![c] = got[c] \o fifo[fd[c]]]
        /\ fifo' = [fifo EXCEPT ![fd[c]] = <<>>]
        /\ UNCHANGED <<fd, written, printed>>
    BY <1>5, GfReads
  <2>2. Sent(piece) => Sent(piece)'
    BY <2>1 DEF Sent
  <2>3. \A f \in Fifos : f # fd[c] => fifo'[f] = fifo[f]
    BY <2>1 DEF GfTypes
  <2>4. fifo'[fd[c]] = <<>> /\ ~Graph!Holds(piece, fifo'[fd[c]])
    BY <2>1 DEF GfTypes
  <2>5. \A f \in Fifos : Graph!Holds(piece, fifo'[f]) => f # fd[c] /\ Graph!Holds(piece, fifo[f])
    BY <2>3, <2>4
  <2>6. \A d \in Consumers : d # c => got'[d] = got[d]
    BY <2>1 DEF GfTypes
  <2>7. got'[c] = got[c] \o fifo[fd[c]]
    BY <2>1 DEF GfTypes
  <2>8. got[c] \in Seq(Graph!Pieces) /\ fifo[fd[c]] \in Seq(Graph!Pieces)
    BY <2>1 DEF GfTypes
  <2>9. Graph!Holds(piece, got'[c]) =>
            Graph!Holds(piece, got[c]) \/ Graph!Holds(piece, fifo[fd[c]])
    BY <2>7, <2>8
  <2>10. CASE Graph!Holds(piece, fifo[fd[c]])
    <3>1. \A d \in Consumers : ~Has(d, piece)
      BY <2>1, <2>10 DEF GfOnce
    <3>2. \A f \in Fifos : Graph!Holds(piece, fifo[f]) => f = fd[c]
      BY <2>1, <2>10 DEF GfPieces
    <3>3. \A f \in Fifos : ~Graph!Holds(piece, fifo'[f])
      BY <2>5, <3>2
    <3>4. \A d \in Consumers : Has(d, piece)' => d = c
      <4> SUFFICES ASSUME NEW d \in Consumers, d # c PROVE ~Has(d, piece)'
        OBVIOUS
      <4>1. got'[d] = got[d] /\ printed'[d] = printed[d]
        BY <2>1, <2>6
      <4>2. ~Has(d, piece)
        BY <3>1
      <4> QED  BY <4>1, <4>2 DEF Has, Graph!Holds
    <3> QED  BY <2>1, <2>2, <2>5, <2>10, <3>3, <3>4 DEF Graph!Holds
  <2>11. CASE ~Graph!Holds(piece, fifo[fd[c]])
    <3>1. ASSUME NEW d \in Consumers, Has(d, piece)' PROVE Has(d, piece)
      <4>1. Graph!Holds(piece, got'[d]) \/ Graph!Holds(piece, printed'[d])
        BY <3>1 DEF Has, Graph!Holds
      <4>2. CASE d = c
        BY <2>1, <2>9, <2>11, <4>1, <4>2 DEF Has
      <4>3. CASE d # c
        BY <2>1, <2>6, <4>1, <4>3 DEF Has
      <4> QED  BY <4>2, <4>3
    <3> QED  BY <2>1, <2>2, <2>5, <3>1 DEF Graph!Holds
  <2> QED  BY <2>10, <2>11
<1>6. ASSUME NEW c \in Consumers, Graph!ShowGraph(c)
      PROVE  /\ Sent(piece) => Sent(piece)'
             /\ \A f \in Fifos : Graph!Holds(piece, fifo[f])' => Graph!Holds(piece, fifo[f])
             /\ \A d \in Consumers : Has(d, piece)' => Has(d, piece)
  <2>1. /\ Graph!Size(got[c][1]) \in 0 .. Vertices
        /\ Len(got[c]) > Graph!Size(got[c][1])
        /\ printed' = [printed EXCEPT ![c] = SubSeq(got[c], 1, 1 + Graph!Size(got[c][1]))]
        /\ UNCHANGED <<fd, written>>
        /\ \A f \in Fifos : fifo'[f] \in {fifo[f], <<>>}
        /\ \A d \in Consumers : got'[d] \in {got[d], <<>>}
    BY <1>6, GfShows, GfLeaves
  <2>2. got[c] \in Seq(Graph!Pieces) /\ 1 + Graph!Size(got[c][1]) \in 0 .. Len(got[c])
    BY <2>1 DEF GfTypes
  <2>3. Graph!Holds(piece, printed'[c]) => Graph!Holds(piece, got[c])
    BY <2>1, <2>2 DEF GfTypes
  <2>4. \A d \in Consumers : d # c => printed'[d] = printed[d]
    BY <2>1 DEF GfTypes
  <2>5. \A d \in Consumers : Graph!Holds(piece, got'[d]) => Graph!Holds(piece, got[d])
    BY <2>1
  <2>6. \A f \in Fifos : Graph!Holds(piece, fifo'[f]) => Graph!Holds(piece, fifo[f])
    BY <2>1
  <2> QED  BY <2>1, <2>3, <2>4, <2>5, <2>6 DEF Has, Sent, Graph!Holds
<1> QED  BY <1>2, <1>3, <1>4, <1>5, <1>6, GfQuiet DEF GfLoses

\* A piece is where its writer has opened the FIFO, or with one consumer.
LEMMA GfPiecesStep ==
    ASSUME GfTypes, GfPlaces, GfPieces, GfOnce, [Graph!Next]_(Graph!vars)
    PROVE  GfPieces' /\ GfOnce'
<1>1. \A x \in Graph!Procs : fd[x] # None => fd'[x] = fd[x]
  <2>1. ASSUME NEW x \in Graph!Procs, Graph!Open(x) PROVE <1>1
    BY <2>1, GfOpens DEF GfPlaces, GfTypes, Graph!TypeOK
  <2> QED  BY <2>1, GfQuiet, GfWrites, GfReads, GfShows DEF GfLoses
<1> SUFFICES ASSUME NEW piece \in Graph!Pieces
             PROVE  /\ \A f \in Fifos : Graph!Holds(piece, fifo[f])' =>
                           Sent(piece)' /\ fd'[piece.from] = f
                    /\ \A c \in Consumers : Has(c, piece)' =>
                           /\ Sent(piece)'
                           /\ \A f \in Fifos : ~Graph!Holds(piece, fifo[f])'
                           /\ \A d \in Consumers \ {c} : ~Has(d, piece)'
  BY DEF GfPieces, GfOnce
<1>2. piece.from \in Graph!Procs
  BY GfNames DEF Graph!Pieces
<1> QED
  BY <1>1, <1>2, GfMoves, GfNames DEF GfPieces, GfOnce

\* A FIFO in which no producer has begun to write is empty.
LEMMA GfEmpty ==
    ASSUME GfTypes, GfPieces, NEW f \in Fifos,
           \A p \in Producers : fd[p] = f => written[p] = 0
    PROVE  fifo[f] = <<>>
<1> SUFFICES ASSUME fifo[f] # <<>> PROVE FALSE
  OBVIOUS
<1>1. fifo[f] \in Seq(Graph!Pieces)
  BY DEF GfTypes
<1>2. 1 \in DOMAIN fifo[f] /\ fifo[f][1] \in Graph!Pieces
  BY <1>1
<1>3. Sent(fifo[f][1]) /\ fd[fifo[f][1].from] = f
  BY <1>2 DEF GfPieces, Graph!Holds
<1>4. /\ fifo[f][1].from \in Producers
      /\ fifo[f][1].at \in 1 .. Vertices + 1 + MaxOver
  BY <1>2 DEF Graph!Pieces
<1> QED  BY <1>3, <1>4, GfNames DEF Sent

\* When the second of two has come to a FIFO, nothing has happened there.
LEMMA GfMeet ==
    ASSUME GfTypes, GfPlaces, GfMet, GfPieces, NEW z \in Graph!Procs, Graph!Open(z),
           NEW c \in Consumers, NEW p \in Producers, Graph!Mates(c)' = {p}, z \in {c, p}
    PROVE  got'[c] = <<>> /\ fifo'[fd'[c]] = <<>> /\ printed'[c] = <<>> /\ written'[p] = 0
<1> USE GfNames
<1>1. /\ pc[z] = "open" /\ linked \in Fifos /\ fd[z] = None
      /\ fd' = [fd EXCEPT ![z] = linked] /\ UNCHANGED <<fifo, written, got, printed>>
  BY GfOpens DEF GfPlaces
<1>2. fd'[z] = linked /\ \A x \in Graph!Procs : x # z => fd'[x] = fd[x]
  BY <1>1 DEF GfTypes, Graph!TypeOK
<1>3. \A x \in Graph!Procs : x # c /\ fd'[x] = fd'[c] => x = p
  BY DEF Graph!Mates
<1>4. fd'[p] = fd'[c] /\ p # c
  BY DEF Graph!Mates
<1>5. fd'[c] = linked /\ fd'[p] = linked
  BY <1>2, <1>4
<1>6. ~Busy(c)
  <2>1. CASE z = c
    BY <1>1, <2>1 DEF GfMet
  <2>2. CASE z = p
    <3>1. ASSUME NEW y \in Others(c), fd[y] = fd[c] PROVE FALSE
      BY <1>1, <1>2, <1>3, <1>5, <2>2, <3>1 DEF Others
    <3> QED  BY <3>1 DEF GfMet
  <2> QED  BY <2>1, <2>2
<1>7. ~Busy(p)
  <2>1. CASE z = p
    BY <1>1, <2>1 DEF GfMet
  <2>2. CASE z = c
    <3>1. ASSUME NEW y \in Others(p), fd[y] = fd[p] PROVE FALSE
      BY <1>1, <1>2, <1>3, <1>5, <2>2, <3>1 DEF Others
    <3> QED  BY <3>1 DEF GfMet
  <2> QED  BY <2>1, <2>2
<1>8. got[c] = <<>> /\ printed[c] = <<>> /\ written[p] = 0
  BY <1>6, <1>7 DEF Busy, GfTypes, Graph!TypeOK
<1>9. \A q \in Producers : fd[q] = linked => written[q] = 0
  BY <1>1, <1>2, <1>3, <1>5, <1>8
<1>10. fifo[linked] = <<>>
  BY <1>1, <1>9, GfEmpty
<1> QED  BY <1>1, <1>5, <1>8, <1>10

\* What it writes in the end, as a sequence.
LEMMA GfGraph ==
    ASSUME text \in [Producers -> Graph!Texts], NEW p \in Producers
    PROVE  /\ Graph!Graph(p) \in Seq(Graph!Pieces) /\ Len(Graph!Graph(p)) = Len(text[p])
           /\ Len(text[p]) \in Nat /\ Len(text[p]) >= Vertices + 1
           /\ \A j \in 1 .. Len(text[p]) : Graph!Graph(p)[j] = Graph!Piece(p, j)
           /\ \A j \in 1 .. Vertices + 1 : Graph!Graph(p)[j] = Graph!Piece(p, j)
<1>1. /\ Len(text[p]) \in Nat /\ Len(text[p]) <= Vertices + 1 + MaxOver
      /\ Len(text[p]) >= Vertices + 1
  BY GfText, GfNames
<1>2. \A j \in 1 .. Len(text[p]) : Graph!Piece(p, j) \in Graph!Pieces
  BY <1>1, GfNames DEF Graph!Piece, Graph!Pieces
<1> QED  BY <1>1, <1>2, GfNames DEF Graph!Graph

\* What a producer has begun, as a sequence.
LEMMA GfBegun ==
    ASSUME GfTypes, NEW p \in Producers
    PROVE  /\ Begun(p) \in Seq(Graph!Pieces) /\ Len(Begun(p)) = written[p]
           /\ written[p] = 0 => Begun(p) = <<>>
           /\ written[p] \in 0 .. Len(text[p]) /\ Len(text[p]) \in Nat
           /\ \A j \in 1 .. written[p] : Begun(p)[j] = Graph!Piece(p, j)
<1>1. /\ written[p] \in 0 .. Len(text[p]) /\ Len(text[p]) \in Nat
      /\ Len(text[p]) <= Vertices + 1 + MaxOver
  BY GfText DEF GfTypes, Graph!TypeOK
<1>2. \A j \in 1 .. written[p] : Graph!Piece(p, j) \in Graph!Pieces
  BY <1>1, GfNames DEF Graph!Piece, Graph!Pieces
<1> QED  BY <1>1, <1>2, GfNames DEF Begun

\* A piece goes to the end of what is still to be read.
LEMMA GfAppend ==
    ASSUME NEW s \in Seq(Graph!Pieces), NEW t \in Seq(Graph!Pieces), NEW e \in Graph!Pieces
    PROVE  s \o Append(t, e) = Append(s \o t, e)
<1>1. s \o t \in Seq(Graph!Pieces) /\ <<e>> \in Seq(Graph!Pieces)
  BY ConcatProperties
<1>2. Append(t, e) = t \o <<e>> /\ Append(s \o t, e) = (s \o t) \o <<e>>
  BY <1>1, AppendIsConcat
<1> QED  BY <1>1, <1>2, ConcatAssociative

\* What has been read is the beginning of it all.
LEMMA GfBeginning ==
    ASSUME NEW s \in Seq(Graph!Pieces), NEW t \in Seq(Graph!Pieces)
    PROVE  /\ Len(s) <= Len(s \o t)
           /\ \A j \in 1 .. Len(s) : (s \o t)[j] = s[j]
OBVIOUS

\* What has been read and what is still to be read are always what has been
\* written, as long as two are alone with each other.
LEMMA GfPairStep ==
    ASSUME GfTypes, GfPlaces, GfMet, GfPieces, GfPair, [Graph!Next]_(Graph!vars)
    PROVE  GfPair'
<1> USE GfNames
<1>0. ASSUME NEW p \in Producers PROVE Graph!Graph(p)' = Graph!Graph(p)
  BY GfTextStays DEF Graph!Graph, Graph!Piece
<1> SUFFICES ASSUME NEW c \in Consumers, NEW p \in Producers, Graph!Mates(c)' = {p}
             PROVE  /\ c \in Graph!Users(fd[c])' => got'[c] \o fifo'[fd'[c]] = Begun(p)'
                    /\ printed'[c] # <<>> => printed'[c] = SubSeq(Graph!Graph(p), 1, Vertices + 1)
  BY <1>0 DEF GfPair
<1>1. CASE GfLoses
  <2>1. Graph!Mates(c) = {p} /\ Begun(p)' = Begun(p) /\ fd' = fd
    BY <1>1 DEF GfLoses, Graph!Mates, Begun, Graph!Piece
  <2>2. /\ c \in Graph!Users(fd[c]) => got[c] \o fifo[fd[c]] = Begun(p)
        /\ printed[c] # <<>> => printed[c] = SubSeq(Graph!Graph(p), 1, Vertices + 1)
    BY <2>1 DEF GfPair
  <2>3. /\ printed' = printed
        /\ c \in Graph!Users(fd[c])' =>
              c \in Graph!Users(fd[c]) /\ got'[c] = got[c] /\ fifo'[fd[c]] = fifo[fd[c]]
    BY <1>1 DEF GfLoses
  <2> QED  BY <2>1, <2>2, <2>3
<1>2. ASSUME NEW z \in Graph!Procs, Graph!Open(z)
      PROVE  /\ c \in Graph!Users(fd[c])' => got'[c] \o fifo'[fd'[c]] = Begun(p)'
             /\ printed'[c] # <<>> => printed'[c] = SubSeq(Graph!Graph(p), 1, Vertices + 1)
  <2>1. CASE z \in {c, p}
    <3>1. got'[c] = <<>> /\ fifo'[fd'[c]] = <<>> /\ printed'[c] = <<>> /\ written'[p] = 0
      BY <1>2, <2>1, GfMeet
    <3>2. Begun(p)' = <<>>
      BY <3>1 DEF Begun
    <3> QED  BY <3>1, <3>2
  <2>2. CASE z \notin {c, p}
    <3>1. /\ fd[z] = None /\ fd' = [fd EXCEPT ![z] = linked] /\ linked \in Fifos
          /\ pc' = [pc EXCEPT ![z] = "opening"]
          /\ UNCHANGED <<fifo, written, got, printed>>
      BY <1>2, GfOpens DEF GfPlaces
    <3>2. \A x \in Graph!Procs : x # z => fd'[x] = fd[x] /\ pc'[x] = pc[x]
      BY <3>1 DEF GfTypes, Graph!TypeOK
    <3>3. fd'[c] = fd[c] /\ Begun(p)' = Begun(p)
      BY <2>2, <3>1, <3>2 DEF Begun, Graph!Piece
    <3>4. CASE c \in Graph!Users(fd[c])
      <4>1. fd[c] # None
        BY <3>4 DEF Graph!Users, GfPlaces
      <4>2. Graph!Mates(c) = {p}
        BY <2>2, <3>1, <3>2, <4>1 DEF Graph!Mates
      <4> QED  BY <3>1, <3>3, <3>4, <4>2 DEF GfPair
    <3>5. CASE c \notin Graph!Users(fd[c])
      <4>1. c \notin Graph!Users(fd[c])'
        BY <2>2, <3>2, <3>3, <3>5 DEF Graph!Users
      <4>2. printed[c] # <<>> => fd[c] # None
        BY DEF GfMet, Busy
      <4>3. printed[c] # <<>> => Graph!Mates(c) = {p}
        BY <2>2, <3>1, <3>2, <4>2 DEF Graph!Mates
      <4> QED  BY <3>1, <4>1, <4>3 DEF GfPair
    <3> QED  BY <3>4, <3>5
  <2> QED  BY <2>1, <2>2
<1>3. ASSUME fd' = fd PROVE Graph!Mates(c) = {p}
  BY <1>3 DEF Graph!Mates
<1>4. ASSUME NEW q \in Producers, Graph!WriteLine(q)
      PROVE  /\ c \in Graph!Users(fd[c])' => got'[c] \o fifo'[fd'[c]] = Begun(p)'
             /\ printed'[c] # <<>> => printed'[c] = SubSeq(Graph!Graph(p), 1, Vertices + 1)
  <2>1. /\ fd[q] \in Fifos /\ written[q] \in Nat
        /\ Graph!Piece(q, written[q] + 1) \in Graph!Pieces
        /\ fifo' = [fifo EXCEPT ![fd[q]] = Append(@, Graph!Piece(q, written[q] + 1))]
        /\ written' = [written EXCEPT ![q] = @ + 1]
        /\ UNCHANGED <<pc, fd, got, printed>>
    BY <1>4, GfWrites
  <2>2. Graph!Mates(c) = {p}
    BY <1>3, <2>1
  <2>3. printed'[c] # <<>> => printed'[c] = SubSeq(Graph!Graph(p), 1, Vertices + 1)
    BY <2>1, <2>2 DEF GfPair
  <2>4. ASSUME c \in Graph!Users(fd[c])' PROVE got'[c] \o fifo'[fd'[c]] = Begun(p)'
    <3>1. c \in Graph!Users(fd[c]) /\ fd[c] \in Fifos
      BY <2>1, <2>4 DEF Graph!Users, GfPlaces, GfTypes, Graph!TypeOK, Fifos
    <3>2. got[c] \o fifo[fd[c]] = Begun(p)
      BY <2>2, <3>1 DEF GfPair
    <3>3. CASE q = p
      <4>1. fd[p] = fd[c]
        BY <2>2 DEF Graph!Mates
      <4>2. fifo'[fd[c]] = Append(fifo[fd[c]], Graph!Piece(p, written[p] + 1))
        BY <2>1, <3>1, <3>3, <4>1 DEF GfTypes
      <4>3. got[c] \in Seq(Graph!Pieces) /\ fifo[fd[c]] \in Seq(Graph!Pieces)
        BY <3>1 DEF GfTypes
      <4>4. got[c] \o Append(fifo[fd[c]], Graph!Piece(p, written[p] + 1))
                = Append(got[c] \o fifo[fd[c]], Graph!Piece(p, written[p] + 1))
        BY <2>1, <3>3, <4>3, GfAppend
      <4>5. written'[p] = written[p] + 1
        BY <2>1, <3>3 DEF GfTypes, Graph!TypeOK
      <4>6. Begun(p)' = [j \in 1 .. written[p] + 1 |-> Graph!Piece(p, j)]
        BY <4>5 DEF Begun, Graph!Piece
      <4>7. Append(Begun(p), Graph!Piece(p, written[p] + 1))
                = [j \in 1 .. written[p] + 1 |-> Graph!Piece(p, j)]
        BY <2>1, <3>3, GfBegun
      <4> QED  BY <2>1, <3>2, <4>2, <4>4, <4>6, <4>7
    <3>4. CASE q # p
      <4>1. fd[q] # fd[c]
        BY <2>2, <3>4 DEF Graph!Mates
      <4>2. fifo'[fd[c]] = fifo[fd[c]] /\ written'[p] = written[p]
        BY <2>1, <3>1, <3>4, <4>1 DEF GfTypes, Graph!TypeOK
      <4>3. Begun(p)' = Begun(p)
        BY <4>2 DEF Begun, Graph!Piece
      <4> QED  BY <2>1, <3>2, <4>2, <4>3
    <3> QED  BY <3>3, <3>4
  <2> QED  BY <2>3, <2>4
<1>5. ASSUME NEW d \in Consumers, Graph!ReadLines(d)
      PROVE  /\ c \in Graph!Users(fd[c])' => got'[c] \o fifo'[fd'[c]] = Begun(p)'
             /\ printed'[c] # <<>> => printed'[c] = SubSeq(Graph!Graph(p), 1, Vertices + 1)
  <2>1. /\ fd[d] \in Fifos
        /\ got' = [got EXCEPT ![d] = got[d] \o fifo[fd[d]]]
        /\ fifo' = [fifo EXCEPT ![fd[d]] = <<>>]
        /\ UNCHANGED <<pc, fd, written, printed>>
    BY <1>5, GfReads
  <2>2. Graph!Mates(c) = {p}
    BY <1>3, <2>1
  <2>3. printed'[c] # <<>> => printed'[c] = SubSeq(Graph!Graph(p), 1, Vertices + 1)
    BY <2>1, <2>2 DEF GfPair
  <2>4. ASSUME c \in Graph!Users(fd[c])' PROVE got'[c] \o fifo'[fd'[c]] = Begun(p)'
    <3>1. c \in Graph!Users(fd[c]) /\ fd[c] \in Fifos
      BY <2>1, <2>4 DEF Graph!Users, GfPlaces, GfTypes, Graph!TypeOK, Fifos
    <3>2. got[c] \o fifo[fd[c]] = Begun(p) /\ Begun(p)' = Begun(p)
      BY <2>1, <2>2, <3>1 DEF GfPair, Begun, Graph!Piece
    <3>3. CASE d = c
      <4>1. got'[c] = Begun(p) /\ fifo'[fd[c]] = <<>>
        BY <2>1, <3>2, <3>3 DEF GfTypes
      <4>2. Begun(p) \o <<>> = Begun(p)
        BY GfBegun, ConcatEmptySeq
      <4> QED  BY <2>1, <3>2, <4>1, <4>2
    <3>4. CASE d # c
      <4>1. fd[d] # fd[c]
        BY <2>2, <3>4 DEF Graph!Mates
      <4>2. fifo'[fd[c]] = fifo[fd[c]] /\ got'[c] = got[c]
        BY <2>1, <3>1, <3>4, <4>1 DEF GfTypes
      <4> QED  BY <2>1, <3>2, <4>2
    <3> QED  BY <3>3, <3>4
  <2> QED  BY <2>3, <2>4
<1>6. ASSUME NEW d \in Consumers, Graph!ShowGraph(d)
      PROVE  /\ c \in Graph!Users(fd[c])' => got'[c] \o fifo'[fd'[c]] = Begun(p)'
             /\ printed'[c] # <<>> => printed'[c] = SubSeq(Graph!Graph(p), 1, Vertices + 1)
  <2>1. /\ d \in Graph!Users(fd[d]) /\ Graph!Leaves(d, "done")
        /\ printed' = [printed EXCEPT ![d] = SubSeq(got[d], 1, 1 + Graph!Size(got[d][1]))]
        /\ UNCHANGED <<fd, written>>
    BY <1>6, GfShows
  <2>2. Graph!Mates(c) = {p} /\ Begun(p)' = Begun(p)
    BY <1>3, <2>1 DEF Begun, Graph!Piece
  <2>3. CASE d = c
    <3>1. c \notin Graph!Users(fd[c])'
      BY <2>1, <2>3, GfLeaves DEF Graph!Users, GfTypes, Graph!TypeOK
    <3>2. /\ got[c] \in Seq(Graph!Pieces) /\ got[c] # <<>> /\ Len(got[c]) > Graph!Size(got[c][1])
      BY <1>6, <2>3 DEF Graph!ShowGraph, Graph!Complete, GfTypes
    <3>3. fd[c] \in Fifos
      BY <2>1, <2>3 DEF Graph!Users, GfPlaces, GfTypes, Graph!TypeOK, Fifos
    <3>4. got[c] \o fifo[fd[c]] = Begun(p) /\ fifo[fd[c]] \in Seq(Graph!Pieces)
      BY <2>1, <2>2, <2>3, <3>3 DEF GfPair, GfTypes
    <3>5. Len(got[c]) <= written[p] /\ \A j \in 1 .. Len(got[c]) : got[c][j] = Begun(p)[j]
      <4>1. /\ Len(got[c]) <= Len(got[c] \o fifo[fd[c]])
            /\ \A j \in 1 .. Len(got[c]) : (got[c] \o fifo[fd[c]])[j] = got[c][j]
        <5>1. got[c] \in Seq(Graph!Pieces) /\ fifo[fd[c]] \in Seq(Graph!Pieces)
          BY <3>2, <3>4
        <5> QED  BY <5>1, GfBeginning
      <4> QED  BY <3>4, <4>1, GfBegun
    <3>6. \A j \in 1 .. Len(got[c]) : got[c][j] = Graph!Piece(p, j)
      BY <3>2, <3>5, GfBegun
    <3>7. Graph!Size(got[c][1]) = Vertices
      <4>1. got[c][1] = Graph!Piece(p, 1)
        BY <3>2, <3>6
      <4>2. text[p][1] = Vertices
        BY GfText DEF GfTypes, Graph!TypeOK
      <4> QED  BY <4>1, <4>2 DEF Graph!Size, Graph!Piece
    <3>8. Len(got[c]) >= Vertices + 1 /\ Len(got[c]) \in Nat
      BY <3>2, <3>7, LenProperties
    <3>9. SubSeq(got[c], 1, 1 + Vertices) = SubSeq(Graph!Graph(p), 1, Vertices + 1)
      <4>1. /\ Len(Graph!Graph(p)) = Len(text[p]) /\ Len(text[p]) \in Nat
            /\ Len(text[p]) >= Vertices + 1
            /\ \A j \in 1 .. Vertices + 1 : Graph!Graph(p)[j] = Graph!Piece(p, j)
        BY GfGraph DEF GfTypes, Graph!TypeOK
      <4>2. \A j \in 1 .. Vertices + 1 : got[c][j] = Graph!Piece(p, j)
        BY <3>6, <3>8
      <4>3. SubSeq(got[c], 1, 1 + Vertices) = [j \in 1 .. Vertices + 1 |-> Graph!Piece(p, j)]
        BY <3>2, <3>8, <4>2
      <4>4. SubSeq(Graph!Graph(p), 1, Vertices + 1) = [j \in 1 .. Vertices + 1 |-> Graph!Piece(p, j)]
        BY <4>1
      <4> QED  BY <4>3, <4>4
    <3>10. printed'[c] = SubSeq(got[c], 1, 1 + Vertices)
      BY <2>1, <2>3, <3>7 DEF GfTypes
    <3> QED  BY <3>1, <3>9, <3>10
  <2>4. CASE d # c
    <3>1. fd[d] # fd[c]
      BY <2>2, <2>4 DEF Graph!Mates
    <3>2. printed'[c] = printed[c] /\ got'[c] = got[c]
      BY <2>1, <2>4, GfLeaves DEF GfTypes
    <3>3. pc'[c] = pc[c]
      <4>1. pc' = [pc EXCEPT ![d] = "done"]
        BY <2>1, GfLeaves
      <4> QED  BY <2>4, <4>1 DEF GfTypes, Graph!TypeOK
    <3>4. ASSUME c \in Graph!Users(fd[c])' PROVE got'[c] \o fifo'[fd'[c]] = Begun(p)'
      <4>1. c \in Graph!Users(fd[c]) /\ fd[c] \in Fifos
        BY <2>1, <3>3, <3>4 DEF Graph!Users, GfPlaces, GfTypes, Graph!TypeOK, Fifos
      <4>2. fifo'[fd[c]] = fifo[fd[c]]
        BY <2>1, <2>4, <4>1, GfLeaves
      <4> QED  BY <2>1, <2>2, <3>2, <4>1, <4>2 DEF GfPair
    <3> QED  BY <2>2, <3>2, <3>4 DEF GfPair
  <2> QED  BY <2>3, <2>4
<1> QED  BY <1>1, <1>2, <1>4, <1>5, <1>6, GfQuiet

\* However many producers and consumers there are, whoever kills them: a consumer
\* that has a producer to itself prints the beginning of what that producer wrote,
\* as many pieces as its graph has lines, or nothing; that is the whole graph
\* exactly if no line is longer than the consumer's buffer; and no piece is printed
\* twice (the open() that waits for the other side, the fgets() of consumer.c and
\* the writes of producer.c).
THEOREM GraphsComeWhole == FairSpec => []WholeGraph
<1>1. Init => GfInv
  <2> SUFFICES ASSUME Graph!Init PROVE GfInv
    BY DEF Init
  <2> USE GfNames DEF Graph!Init
  <2>1. GfTypes
    <3>1. <<>> \in Seq(Graph!Pieces)
      OBVIOUS
    <3>2. /\ linked \in Producers \cup {Old, None} /\ met \subseteq Graph!Procs
          /\ kills \in 0 .. MaxKills /\ fd \in [Graph!Procs -> Producers \cup {Old, None}]
      BY CountingAssumption
    <3>3. pc \in [Graph!Procs -> {"unlink", "mkfifo", "open", "giveup", "opening", "write",
                                  "tidy", "read", "absent", "done", "failed"}]
      OBVIOUS
    <3>4. /\ fifo \in [Fifos -> Seq(Graph!Pieces)] /\ got \in [Consumers -> Seq(Graph!Pieces)]
          /\ printed \in [Consumers -> Seq(Graph!Pieces)]
      BY <3>1 DEF Fifos
    <3>6. written \in [Producers -> Nat] /\ text \in [Producers -> Graph!Texts]
      OBVIOUS
    <3>7. ASSUME NEW p \in Producers PROVE written[p] \in 0 .. Len(text[p])
      BY <3>6, GfText
    <3> HIDE DEF Graph!Init
    <3>5. /\ \A f \in DOMAIN fifo : \A j \in DOMAIN fifo[f] : fifo[f][j] \in Graph!Pieces
          /\ \A c \in Consumers : \A j \in DOMAIN got[c] : got[c][j] \in Graph!Pieces
      BY <3>4
    <3> QED  BY <3>2, <3>3, <3>4, <3>5, <3>6, <3>7 DEF GfTypes, Graph!TypeOK
  <2>2. GfPlaces
    BY DEF GfPlaces
  <2>3. \A x \in Graph!Procs : ~Busy(x)
    BY DEF Busy
  <2>4. /\ \A c \in Consumers : got[c] = <<>> /\ printed[c] = <<>>
        /\ \A f \in Fifos : fifo[f] = <<>>
        /\ \A c \in Consumers : c \notin Graph!Users(fd[c])
    BY DEF Fifos, Graph!Users
  <2> HIDE DEF Graph!Init
  <2>5. GfPieces /\ GfOnce /\ GfPair
    <3>1. \A piece : /\ \A f \in Fifos : ~Graph!Holds(piece, fifo[f])
                    /\ \A c \in Consumers : ~Has(c, piece)
      BY <2>4, GfHolds DEF Has
    <3> QED  BY <2>4, <3>1 DEF GfPieces, GfOnce, GfPair
  <2> QED  BY <2>1, <2>2, <2>3, <2>5 DEF GfInv, GfMet
<1>2. GfInv /\ [Next]_vars => GfInv'
  BY GraphMoves, GfType, GfPlacesStep, GfMetStep, GfPiecesStep, GfPairStep DEF GfInv
<1>3. GfInv => WholeGraph
  <2> SUFFICES ASSUME GfInv PROVE Graph!WholeGraph
    BY DEF WholeGraph
  <2>1. ASSUME NEW c \in Consumers, printed[c] # <<>>, Graph!Cardinality(Graph!Mates(c)) = 1
        PROVE  \E p \in Producers :
                   /\ Graph!Mates(c) = {p}
                   /\ printed[c] = SubSeq(Graph!Graph(p), 1, Vertices + 1)
                   /\ printed[c] = Graph!Graph(p) <=> Graph!Fits(p)
    <3>1. PICK p \in Producers : fd[p] = fd[c]
      BY <2>1, GfNames DEF GfInv, GfMet, Busy, Others
    <3>2. p \in Graph!Mates(c)
      BY <3>1, GfNames DEF Graph!Mates
    <3>3. IsFiniteSet(Graph!Mates(c))
      <4>1. IsFiniteSet(Graph!Procs)
        BY GraphAssumption, FS_Union DEF Graph!Procs
      <4> QED  BY <4>1, FS_Subset DEF Graph!Mates
    <3>4. Graph!Cardinality(Graph!Mates(c)) = Cardinality(Graph!Mates(c))
      BY DEF Graph!Cardinality, Cardinality
    <3>5. Graph!Mates(c) = {p}
      BY <2>1, <3>2, <3>3, <3>4, FS_Singleton
    <3>6. printed[c] = SubSeq(Graph!Graph(p), 1, Vertices + 1)
      BY <2>1, <3>5 DEF GfInv, GfPair
    <3>7. printed[c] = Graph!Graph(p) <=> Graph!Fits(p)
      <4>1. /\ Graph!Graph(p) \in Seq(Graph!Pieces) /\ Len(Graph!Graph(p)) = Len(text[p])
            /\ Len(text[p]) \in Nat /\ Len(text[p]) >= Vertices + 1
        BY GfGraph DEF GfInv, GfTypes, Graph!TypeOK
      <4>2. Len(printed[c]) = Vertices + 1
        BY <3>6, <4>1, GfNames
      <4>3. ASSUME Graph!Fits(p) PROVE printed[c] = Graph!Graph(p)
        BY <3>6, <4>1, <4>3, GfNames DEF Graph!Fits
      <4> QED  BY <4>1, <4>2, <4>3 DEF Graph!Fits
    <3> QED  BY <3>5, <3>6, <3>7
  <2>2. \A c, d \in Consumers : \A piece \in Graph!Pieces :
            c # d => ~(Graph!Holds(piece, printed[c]) /\ Graph!Holds(piece, printed[d]))
    BY DEF GfInv, GfOnce, Has
  <2> QED  BY <2>1, <2>2 DEF Graph!WholeGraph, GfInv, GfTypes
<1> QED  BY <1>1, <1>2, <1>3, PTL DEF FairSpec

(***************************************************************************)
(* Slices: that the parts fit together, for every size of the file and     *)
(* every number of children.  All of it comes down to one fact about the   *)
(* quotient: it is the only j with d * j <= a < d * (j + 1).               *)
(***************************************************************************)

\* Multiplication is monotonic.
LEMMA TimesMonotone ==
    ASSUME NEW d \in Nat, NEW p \in Nat, NEW q \in Nat, p <= q
    PROVE  d * p <= d * q
<1>1. PICK r \in Nat : q = p + r
  <2>1. q - p \in Nat /\ q = p + (q - p)
    OBVIOUS
  <2> QED BY <2>1
<1>2. d * q = d * p + d * r /\ d * r \in Nat /\ d * p \in Nat
  BY <1>1
<1> QED BY <1>2

\* What C's division of natural numbers gives.
LEMMA Quotient ==
    ASSUME NEW a \in Nat, NEW d \in Nat, d > 0
    PROVE  /\ a \div d \in Nat
           /\ d * (a \div d) <= a
           /\ a < d * ((a \div d) + 1)
<1>1. a \div d \in Int /\ a % d \in 0 .. d - 1 /\ a = d * (a \div d) + (a % d)
  BY SMTT(30)
<1>2. a \div d \in Nat
  BY <1>1, SMTT(30)
<1>3. d * ((a \div d) + 1) = d * (a \div d) + d
  BY <1>2
<1> QED BY <1>1, <1>2, <1>3

\* And nothing else is between these bounds.
LEMMA OnlyQuotient ==
    ASSUME NEW a \in Nat, NEW d \in Nat, d > 0, NEW j \in Nat
    PROVE  (d * j <= a /\ a < d * (j + 1)) <=> j = a \div d
<1> DEFINE q == a \div d
<1>1. q \in Nat /\ d * q <= a /\ a < d * (q + 1)
  BY Quotient
<1> HIDE DEF q
<1>2. ASSUME d * j <= a, a < d * (j + 1) PROVE j = q
  <2>1. CASE j < q
    <3>1. d * (j + 1) <= d * q
      BY <2>1, <1>1, TimesMonotone
    <3> QED BY <3>1, <1>1, <1>2
  <2>2. CASE q < j
    <3>1. d * (q + 1) <= d * j
      BY <2>2, <1>1, TimesMonotone
    <3> QED BY <3>1, <1>1, <1>2
  <2> QED BY <2>1, <2>2, <1>1
<1>3. (d * j <= a /\ a < d * (j + 1)) <=> j = q
  BY <1>1, <1>2
<1> QED BY <1>3 DEF q

\* template.c: the byte b is in the part of child j exactly if j is the
\* quotient of (b + 1) * children - 1 by the size.
LEMMA InSlice ==
    ASSUME NEW bytes \in Nat, NEW sharers \in Nat \ {0},
           NEW b \in 0 .. bytes - 1, NEW j \in Nat
    PROVE  Cut!Within(b, Cut!Start(bytes, sharers, j), Cut!End(bytes, sharers, j))
              <=> j = ((b + 1) * sharers - 1) \div bytes
<1> DEFINE a == (b + 1) * sharers - 1
           low == bytes * j
           high == bytes * (j + 1)
<1>1. a \in Nat /\ (b + 1) * sharers = a + 1
  <2>1. sharers * 1 <= sharers * (b + 1)
    BY TimesMonotone
  <2> QED BY <2>1
<1>2. low \in Nat /\ high \in Nat
  OBVIOUS
<1>3. /\ low \div sharers \in Nat
      /\ sharers * (low \div sharers) <= low
      /\ low < sharers * ((low \div sharers) + 1)
  BY <1>2, Quotient
<1>4. /\ high \div sharers \in Nat
      /\ sharers * (high \div sharers) <= high
      /\ high < sharers * ((high \div sharers) + 1)
  BY <1>2, Quotient
<1> HIDE DEF low, high
<1>5. low \div sharers <= b <=> low <= a
  <2>1. ASSUME low \div sharers <= b PROVE low <= a
    <3>1. sharers * ((low \div sharers) + 1) <= sharers * (b + 1)
      BY <2>1, <1>3, TimesMonotone
    <3> QED BY <3>1, <1>1, <1>2, <1>3
  <2>2. ASSUME low \div sharers > b PROVE low > a
    <3>1. sharers * (b + 1) <= sharers * (low \div sharers)
      BY <2>2, <1>3, TimesMonotone
    <3> QED BY <3>1, <1>1, <1>2, <1>3
  <2> QED BY <2>1, <2>2, <1>1, <1>2, <1>3
<1>6. b < high \div sharers <=> a < high
  <2>1. ASSUME b < high \div sharers PROVE a < high
    <3>1. sharers * (b + 1) <= sharers * (high \div sharers)
      BY <2>1, <1>4, TimesMonotone
    <3> QED BY <3>1, <1>1, <1>2, <1>4
  <2>2. ASSUME high \div sharers <= b PROVE high <= a
    <3>1. sharers * ((high \div sharers) + 1) <= sharers * (b + 1)
      BY <2>2, <1>4, TimesMonotone
    <3> QED BY <3>1, <1>1, <1>2, <1>4
  <2> QED BY <2>1, <2>2, <1>1, <1>2, <1>4
<1>7. (low <= a /\ a < high) <=> j = a \div bytes
  BY <1>1, OnlyQuotient DEF low, high
<1> QED BY <1>5, <1>6, <1>7 DEF Cut!Within, Cut!Start, Cut!End, low, high

\* Every byte is in the part of one child, and no part ends behind the file.
LEMMA SlicesFit ==
    ASSUME NEW bytes \in Nat, NEW sharers \in Nat \ {0}
    PROVE  Cut!SliceExact(bytes, sharers) /\ Cut!SliceInside(bytes, sharers)
<1>1. Cut!SliceExact(bytes, sharers)
  <2> SUFFICES ASSUME NEW b \in 0 .. bytes - 1
               PROVE  \E k \in 0 .. sharers - 1 :
                          \A j \in 0 .. sharers - 1 :
                              Cut!Within(b, Cut!Start(bytes, sharers, j),
                                            Cut!End(bytes, sharers, j)) <=> j = k
    BY DEF Cut!SliceExact
  <2> DEFINE a == (b + 1) * sharers - 1
  <2>1. a \in Nat /\ a < bytes * sharers
    <3>1. sharers * 1 <= sharers * (b + 1) /\ sharers * (b + 1) <= sharers * bytes
      BY TimesMonotone
    <3> QED BY <3>1
  <2>2. a \div bytes \in Nat /\ bytes * (a \div bytes) <= a
    BY <2>1, Quotient
  <2>3. a \div bytes < sharers
    <3>1. CASE sharers <= a \div bytes
      <4>1. bytes * sharers <= bytes * (a \div bytes)
        BY <3>1, <2>2, TimesMonotone
      <4> QED BY <4>1, <2>1, <2>2
    <3> QED BY <3>1, <2>2
  <2>4. \A j \in 0 .. sharers - 1 :
            Cut!Within(b, Cut!Start(bytes, sharers, j), Cut!End(bytes, sharers, j))
                <=> j = a \div bytes
    BY InSlice
  <2>5. a \div bytes \in 0 .. sharers - 1
    BY <2>2, <2>3
  <2> WITNESS a \div bytes \in 0 .. sharers - 1
  <2> QED BY <2>4
<1>2. Cut!SliceInside(bytes, sharers)
  <2> SUFFICES ASSUME NEW k \in 0 .. sharers - 1
               PROVE  0 <= Cut!Start(bytes, sharers, k) /\ Cut!End(bytes, sharers, k) <= bytes
    BY DEF Cut!SliceInside
  <2> DEFINE high == bytes * (k + 1)
  <2>1. high \in Nat /\ high <= bytes * sharers
    BY TimesMonotone
  <2>2. high \div sharers \in Nat /\ sharers * (high \div sharers) <= high
    BY <2>1, Quotient
  <2>3. high \div sharers <= bytes
    <3>1. CASE bytes + 1 <= high \div sharers
      <4>1. sharers * (bytes + 1) <= sharers * (high \div sharers)
        BY <3>1, <2>2, TimesMonotone
      <4> QED BY <4>1, <2>1, <2>2
    <3> QED BY <3>1, <2>2
  <2>4. bytes * k \in Nat /\ (bytes * k) \div sharers \in Nat
    BY Quotient
  <2> QED BY <2>3, <2>4 DEF Cut!Start, Cut!End
<1> QED BY <1>1, <1>2

\* template_ds.c: the blocks of all children together reach the end.
LEMMA BlocksReach ==
    ASSUME NEW bytes \in Nat, NEW sharers \in Nat \ {0}
    PROVE  /\ Cut!BlockSize(bytes, sharers) \in Nat
           /\ bytes <= sharers * Cut!BlockSize(bytes, sharers)
<1>1. bytes + sharers - 1 \in Nat
  OBVIOUS
<1> QED BY <1>1, Quotient DEF Cut!BlockSize

\* Every byte is in the block of one child, and no block ends behind the file.
LEMMA BlocksFit ==
    ASSUME NEW bytes \in Nat, NEW sharers \in Nat \ {0}
    PROVE  Cut!BlockExact(bytes, sharers) /\ Cut!BlockInside(bytes, sharers)
<1> DEFINE B == Cut!BlockSize(bytes, sharers)
<1>1. B \in Nat /\ bytes <= sharers * B
  BY BlocksReach
<1>2. ASSUME NEW k \in Nat
      PROVE  /\ Cut!BlockStart(bytes, sharers, k) = k * B /\ k * B \in Nat
             /\ Cut!BlockEnd(bytes, sharers, k) = IF (k + 1) * B > bytes THEN bytes ELSE (k + 1) * B
  BY <1>1 DEF Cut!BlockStart, Cut!BlockEnd
<1> HIDE DEF B
<1>3. Cut!BlockExact(bytes, sharers)
  <2> SUFFICES ASSUME NEW b \in 0 .. bytes - 1
               PROVE  \E k \in 0 .. sharers - 1 :
                          \A j \in 0 .. sharers - 1 :
                              Cut!Within(b, Cut!BlockStart(bytes, sharers, j),
                                            Cut!BlockEnd(bytes, sharers, j)) <=> j = k
    BY DEF Cut!BlockExact
  <2>1. B > 0 /\ b < sharers * B
    BY <1>1
  <2>2. b \div B \in Nat /\ B * (b \div B) <= b
    BY <2>1, <1>1, Quotient
  <2>3. b \div B < sharers
    <3>1. CASE sharers <= b \div B
      <4>1. B * sharers <= B * (b \div B)
        BY <3>1, <1>1, <2>2, TimesMonotone
      <4> QED BY <4>1, <1>1, <2>1, <2>2
    <3> QED BY <3>1, <2>2
  <2>4. ASSUME NEW j \in 0 .. sharers - 1
        PROVE  Cut!Within(b, Cut!BlockStart(bytes, sharers, j), Cut!BlockEnd(bytes, sharers, j))
                   <=> j = b \div B
    <3>1. (B * j <= b /\ b < B * (j + 1)) <=> j = b \div B
      BY <2>1, <1>1, OnlyQuotient
    <3>2. B * j = j * B /\ B * (j + 1) = (j + 1) * B /\ (j + 1) * B \in Nat
      BY <1>1
    <3> QED BY <3>1, <3>2, <1>2 DEF Cut!Within
  <2>5. b \div B \in 0 .. sharers - 1
    BY <2>2, <2>3
  <2> WITNESS b \div B \in 0 .. sharers - 1
  <2> QED BY <2>4
<1>4. Cut!BlockInside(bytes, sharers)
  <2> SUFFICES ASSUME NEW k \in 0 .. sharers - 1
               PROVE  /\ 0 <= Cut!BlockStart(bytes, sharers, k)
                      /\ Cut!BlockEnd(bytes, sharers, k) <= bytes
    BY DEF Cut!BlockInside
  <2>1. (k + 1) * B \in Nat
    BY <1>1
  <2> QED BY <1>2, <2>1
<1> QED BY <1>3, <1>4

\* l6/z1: the results of the four children.
LEMMA ResultsFit == Cut!ResultsApart(4)
BY DEF Cut!ResultsApart, Cut!ResultStart, Cut!ResultLength, Cut!IntSize, Cut!PageSize

\* Whatever the size of a file and the number of children, template.c and
\* template_ds.c cut it into parts that are disjoint, cover it and stay inside
\* it, and the results of l6/z1 keep apart.
THEOREM PartsFit ==
    \A bytes \in Nat, sharers \in Nat \ {0} : Cut!AllExact(bytes, sharers)
BY SlicesFit, BlocksFit, ResultsFit DEF Cut!AllExact

\* The input of the division is chosen in the first state and never changed.
InputOK == size \in Nat /\ parts \in Nat \ {0}

\* However large the file and however many children share it, template.c and
\* template_ds.c cut it into parts that are disjoint, cover it and stay inside.
THEOREM EveryFileCutExactly == FairSpec => []SlicesExact
<1>1. Init => InputOK
  BY DEF Init, InputOK
<1>2. InputOK /\ [Next]_vars => InputOK'
  <2> SUFFICES ASSUME InputOK, [Next]_vars PROVE UNCHANGED input
    BY DEF InputOK, input
  <2>1. CASE UNCHANGED vars
    BY <2>1 DEF vars
  <2>2. CASE Next
    BY <2>2 DEF Next, Lead, Misfortune, Keyboard, Process, Meanwhile,
        Runs, RunToken, RunKG, RunWriters, RunGraph, RunCount, RunNames
  <2> QED BY <2>1, <2>2
<1>3. InputOK => SlicesExact
  BY PartsFit DEF InputOK, SlicesExact
<1> QED BY <1>1, <1>2, <1>3, PTL DEF FairSpec
=============================================================================
