------------------------------- MODULE DogRace -------------------------------
(***************************************************************************)
(* src/l3/l3_3psy.c: m dogs race along n fields.  A dog sleeps, takes      *)
(* itself off its field and puts itself on another, each under the field's *)
(* own mutex; a move beyond the last field bounces back.  On the last      *)
(* field it gets its place under a mutex of its own.  main prints all      *)
(* fields holding all their mutexes; when every dog has finished or SIGINT *)
(* has called the race off, it cancels and joins the dogs one by one.      *)
(*                                                                         *)
(* Taking a mutex loads what it protects and giving it back stores it:     *)
(* nobody reads or writes in between without the mutex, main's polls of    *)
(* stop excepted.                                                          *)
(***************************************************************************)
EXTENDS Integers, FiniteSets

CONSTANTS
    m,          \* the number of dogs
    n,          \* the number of fields
    MaxRuch     \* the longest move, 5 in the code

\* The program insists on m > 2 and n > 20; all it needs is this.
ASSUME TrackAssumption == MaxRuch \in Nat \ {0} /\ n \in Nat /\ n > MaxRuch
ASSUME DogsAssumption == m \in Nat \ {0}

Dogs == 0 .. m - 1
Pola == 0 .. n - 1
Main == -1
Nobody == -2

VARIABLES
    tab,        \* dogs on each field
    muteksy,    \* who holds the field's mutex
    meta, metaMtx,  \* dogs at the finish, and who holds the mutex for it
    pc,         \* where a dog is
    pos,        \* its field
    doing,      \* "put" itself on its field, "stay" there, "take" itself off
    reg,        \* what it loaded when it took its mutex
    ktory,      \* its place, 0 before the finish
    cancelled,  \* dogs main has cancelled
    stop,       \* main's flag
    sig,        \* SIGINT: "none", "pending", "taken"
    mainpc,     \* where main is
    i,          \* main's loop variable
    shown       \* dogs main has printed in this round

vars == <<tab, muteksy, meta, metaMtx, pc, pos, doing, reg, ktory, cancelled, stop, sig,
          mainpc, i, shown>>
finish == <<meta, metaMtx, ktory>>
mains == <<cancelled, stop, sig, mainpc, i, shown>>

Goto(d, place) == pc' = [pc EXCEPT ![d] = place]
Gone(d) == pc[d] \in {"finished", "cancelled"}
-----------------------------------------------------------------------------
\* Where a move of ruch leads from field p.
Moved(p, ruch) ==
    IF ruch + p < n THEN p + ruch ELSE n - (ruch - (n - p - 1) + 1)

Init ==
    /\ tab = [f \in Pola |-> 0] /\ muteksy = [f \in Pola |-> Nobody]
    /\ meta = 0 /\ metaMtx = Nobody
    /\ pc = [d \in Dogs |-> "unborn"]
    /\ pos = [d \in Dogs |-> 0]
    /\ doing = [d \in Dogs |-> "put"]
    /\ reg = [d \in Dogs |-> 0]
    /\ ktory = [d \in Dogs |-> 0]
    /\ cancelled = {}
    /\ stop = FALSE /\ sig = "none"
    /\ mainpc = "create" /\ i = 0 /\ shown = 0

\* The dog says it has started.
Start(d) ==
    /\ pc[d] = "start"
    /\ Goto(d, "lock")
    /\ UNCHANGED <<tab, muteksy, finish, pos, doing, reg, mains>>

\* The dog wakes up and leaves for its field's mutex.
WakeUp(d) ==
    /\ pc[d] = "sleep" /\ d \notin cancelled
    /\ Goto(d, "lock")
    /\ doing' = [doing EXCEPT ![d] = "take"]
    /\ UNCHANGED <<tab, muteksy, finish, pos, reg, mains>>

LockField(d) ==
    /\ pc[d] = "lock"
    /\ muteksy[pos[d]] = Nobody
    /\ muteksy' = [muteksy EXCEPT ![pos[d]] = d]
    /\ reg' = [reg EXCEPT ![d] = tab[pos[d]]]
    /\ Goto(d, "section")
    /\ UNCHANGED <<tab, finish, pos, doing, mains>>

\* tab[pos]-- and unlock; the move drawn before takes effect only now.
TakeOff(d) ==
    /\ pc[d] = "section" /\ doing[d] = "take"
    /\ tab' = [tab EXCEPT ![pos[d]] = reg[d] - 1]
    /\ muteksy' = [muteksy EXCEPT ![pos[d]] = Nobody]
    /\ \E ruch \in 1 .. MaxRuch : pos' = [pos EXCEPT ![d] = Moved(@, ruch)]
    /\ doing' = [doing EXCEPT ![d] = "put"]
    /\ Goto(d, "lock")
    /\ UNCHANGED <<finish, reg, mains>>

PutOn(d) ==
    /\ pc[d] = "section" /\ doing[d] = "put"
    /\ tab' = [tab EXCEPT ![pos[d]] = reg[d] + 1]
    /\ muteksy' = [muteksy EXCEPT ![pos[d]] = Nobody]
    /\ doing' = [doing EXCEPT ![d] = "stay"]
    /\ Goto(d, "report")
    /\ UNCHANGED <<finish, pos, reg, mains>>

\* printf, then to the finish or back to sleep; a dog that has only entered
\* the track is on field 0 and goes to sleep as well.
Report(d) ==
    /\ pc[d] = "report"
    /\ Goto(d, IF pos[d] = n - 1 THEN "lockmeta" ELSE "sleep")
    /\ UNCHANGED <<tab, muteksy, finish, pos, doing, reg, mains>>

LockMeta(d) ==
    /\ pc[d] = "lockmeta"
    /\ metaMtx = Nobody
    /\ metaMtx' = d
    /\ reg' = [reg EXCEPT ![d] = meta]
    /\ Goto(d, "atmeta")
    /\ UNCHANGED <<tab, muteksy, meta, ktory, pos, doing, mains>>

Finish(d) ==
    /\ pc[d] = "atmeta"
    /\ meta' = reg[d] + 1
    /\ ktory' = [ktory EXCEPT ![d] = meta']
    /\ metaMtx' = Nobody
    /\ Goto(d, "finished")
    /\ UNCHANGED <<tab, muteksy, pos, doing, reg, mains>>

\* Cancellation acts where a dog sleeps and may act where it prints.
BeCancelled(d) ==
    /\ d \in cancelled
    /\ pc[d] \in {"start", "sleep", "report"}
    /\ Goto(d, "cancelled")
    /\ UNCHANGED <<tab, muteksy, finish, pos, doing, reg, mains>>
-----------------------------------------------------------------------------
\* main's own steps leave the dogs alone.
dogs == <<tab, meta, metaMtx, pos, doing, reg, ktory>>
To(place, next) == mainpc' = place /\ i' = next

Create(d) ==
    /\ mainpc = "create" /\ i = d
    /\ Goto(d, "start")
    /\ IF d = m - 1 THEN To("poll", 0) ELSE To("create", i + 1)
    /\ UNCHANGED <<dogs, muteksy, cancelled, stop, sig, shown>>

Poll ==
    /\ mainpc = "poll"
    /\ To(IF stop THEN "cancel" ELSE "checkmeta", 0)
    /\ UNCHANGED <<dogs, muteksy, pc, cancelled, stop, sig, shown>>

\* After its sleep main asks, under the mutex, whether all have finished.
CheckMeta ==
    /\ mainpc = "checkmeta"
    /\ metaMtx = Nobody
    /\ To(IF meta = m THEN "cancel" ELSE "lockall", 0)
    /\ UNCHANGED <<dogs, muteksy, pc, cancelled, stop, sig, shown>>

LastField_OneLess(f) == f >= n - 2             \* mutation
LastField(f) == f = n - 1
LockAll ==
    /\ mainpc = "lockall"
    /\ muteksy[i] = Nobody
    /\ muteksy' = [muteksy EXCEPT ![i] = Main]
    /\ IF LastField(i) THEN To("print", 0) ELSE To("lockall", i + 1)
    /\ shown' = 0
    /\ UNCHANGED <<dogs, pc, cancelled, stop, sig>>

PrintTrack ==
    /\ mainpc = "print"
    /\ shown' = shown + tab[i]
    /\ IF i = n - 1 THEN To("unlockall", 0) ELSE To("print", i + 1)
    /\ UNCHANGED <<dogs, muteksy, pc, cancelled, stop, sig>>

UnlockAll_OneShort ==                          \* mutation
    /\ mainpc = "unlockall"
    /\ muteksy' = [muteksy EXCEPT ![i] = Nobody]
    /\ IF i = n - 2 THEN To("poll", 0) ELSE To("unlockall", i + 1)
    /\ UNCHANGED <<dogs, pc, cancelled, stop, sig, shown>>
UnlockAll ==
    /\ mainpc = "unlockall"
    /\ muteksy' = [muteksy EXCEPT ![i] = Nobody]
    /\ IF i = n - 1 THEN To("poll", 0) ELSE To("unlockall", i + 1)
    /\ UNCHANGED <<dogs, pc, cancelled, stop, sig, shown>>

Cancel ==
    /\ mainpc = "cancel"
    /\ cancelled' = cancelled \cup {i}
    /\ To("join", i)
    /\ UNCHANGED <<dogs, muteksy, pc, stop, sig, shown>>

Join ==
    /\ mainpc = "join"
    /\ Gone(i)
    /\ IF i = m - 1 THEN To("ended", 0) ELSE To("cancel", i + 1)
    /\ UNCHANGED <<dogs, muteksy, pc, cancelled, stop, sig, shown>>

\* Somebody presses Ctrl-C; the signal thread sets stop, without a mutex.
SendInt ==
    /\ sig = "none" /\ mainpc # "ended"
    /\ sig' = "pending"
    /\ UNCHANGED <<dogs, muteksy, pc, cancelled, stop, mainpc, i, shown>>
Sigwait ==
    /\ sig = "pending" /\ mainpc \notin {"create", "ended"}
    /\ sig' = "taken"
    /\ stop' = TRUE
    /\ UNCHANGED <<dogs, muteksy, pc, cancelled, mainpc, i, shown>>

DogStep(d) ==
    \/ Start(d) \/ WakeUp(d) \/ LockField(d) \/ TakeOff(d) \/ PutOn(d) \/ Report(d)
    \/ LockMeta(d) \/ Finish(d) \/ BeCancelled(d)
MainStep ==
    \/ \E d \in Dogs : Create(d)
    \/ Poll \/ CheckMeta \/ LockAll \/ PrintTrack \/ UnlockAll \/ Cancel \/ Join

Next == (\E d \in Dogs : DogStep(d)) \/ MainStep \/ SendInt \/ Sigwait
-----------------------------------------------------------------------------
\* The values the variables can take.
TypeOK ==
    /\ tab \in [Pola -> Nat]
    /\ muteksy \in [Pola -> Dogs \cup {Main, Nobody}]
    /\ meta \in 0 .. m /\ metaMtx \in Dogs \cup {Nobody}
    /\ pc \in [Dogs -> {"unborn", "start", "lock", "section", "report", "sleep",
                         "lockmeta", "atmeta", "finished", "cancelled"}]
    /\ pos \in [Dogs -> Pola]
    /\ doing \in [Dogs -> {"put", "stay", "take"}]
    /\ reg \in [Dogs -> Nat]
    /\ ktory \in [Dogs -> 0 .. m]
    /\ cancelled \subseteq Dogs
    /\ stop \in BOOLEAN /\ sig \in {"none", "pending", "taken"}
    /\ mainpc \in {"create", "poll", "checkmeta", "lockall", "print", "unlockall",
                   "cancel", "join", "ended"}
    /\ i \in 0 .. n + m /\ shown \in Nat

\* Every field counts the dogs standing on it, those cancelled there
\* included; what main prints is one picture of the track, with every dog
\* that is not between two fields; and the places at the finish are given
\* once each, in order (the sections of worker_thread, main's print loop).
\* The types are part of it.
OnTrack == {d \in Dogs : doing[d] # "put"}
FieldsExact == \A f \in Pola : tab[f] = Cardinality({d \in OnTrack : pos[d] = f})
PictureWhole == (mainpc = "unlockall" /\ i = 0) => shown = Cardinality(OnTrack)
PlacesGiven ==
    LET finished == {d \in Dogs : pc[d] = "finished"}
    IN  {ktory[d] : d \in finished} = 1 .. meta /\ Cardinality(finished) = meta
TrackExact == TypeOK /\ FieldsExact /\ PictureWhole /\ PlacesGiven

\* SIGINT calls the race off, and a race all dogs have finished ends by
\* itself: cancelled dogs leave no mutex behind, neither for main nor for
\* the dogs it joins later (the cancel-and-join loop).
RaceEnds ==
    (sig = "pending" \/ \A d \in Dogs : pc[d] = "finished") ~> (mainpc = "ended")
=============================================================================
