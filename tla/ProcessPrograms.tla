-------------------------- MODULE ProcessPrograms --------------------------
(***************************************************************************)
(* The smaller programs of several processes, in one instance: WorkToken,  *)
(* Kindergarten, SignalWriters, GraphFifo, CharCount and ObjectNames, with *)
(* the cutting of data into Slices.  They share nothing; the first state   *)
(* chooses which of them runs, and only that one ever takes a step.  The   *)
(* cutting takes none: the first state is its input.                       *)
(***************************************************************************)
EXTENDS Integers, FiniteSets

CONSTANTS
    Programs,                            \* those that may be chosen
    Parent, None, Old,
    MaxPasses, MaxFaults,                \* WorkToken
    Rounds, Blocks,                      \* SignalWriters
    Vertices, MaxOver, Starts,           \* GraphFifo
    MaxKills,                            \* GraphFifo, CharCount, ObjectNames
    MaxTogether,                         \* ObjectNames
    MaxSize, MaxParts,                   \* Slices
    Young,                               \* the children in each of the signal programs
    Producers, Consumers,                \* of graphs
    Counting,                            \* the children that count characters
    Instances                            \* of a shared-memory template

ASSUME ProgramsAssumption ==
    Programs \subseteq {"token", "kindergarten", "writers", "graph", "count", "names", "slices"}
ASSUME YoungAssumption == Young \in Nat \ {0} /\ Parent \notin Nat
ASSUME SignalsAssumption ==
    MaxPasses \in Nat /\ MaxFaults \in Nat /\ Rounds \in Nat /\ Blocks \in Nat
ASSUME GraphAssumption ==
    /\ IsFiniteSet(Producers) /\ IsFiniteSet(Consumers)
    /\ Producers \cap Consumers = {}
    /\ Old \notin Producers /\ None \notin Producers \cup {Old}
    /\ {} \in Starts /\ Vertices \in Nat \ {0} /\ MaxOver \in Nat
ASSUME CountingAssumption == Counting \in Nat \ {0} /\ MaxKills \in Nat
ASSUME InstancesAssumption ==
    IsFiniteSet(Instances) /\ Instances \subseteq Nat /\ None \notin Instances /\ MaxKills \in Nat

\* The processes of the programs have numbers.
Children == 0 .. Young - 1
Counters == 0 .. Counting - 1
Processes == Children \cup Producers \cup Consumers \cup Counters \cup Instances

VARIABLES
    program,      \* the one that runs
    sig, cpc, inside, czy_dzialam, mainpc, pracujace, crossed, passes, faults,
    kgSig, timer, kgChild, kgFate, okaszlane, czyodebrane, wypisz, kgMain, gone,
    writer, wrSig, wrChild, wrFate, aged, blocks, unmade, wrMain, sent,
    linked, pc, fd, met, text, fifo, written, got, printed, kills,
    state, wyn, signaled, ccMain, i, er, ccKills,
    template, named, at, alone, killed,
    size, parts   \* of a file, of the children that share it

token == <<sig, cpc, inside, czy_dzialam, mainpc, pracujace, crossed, passes, faults>>
kindergarten == <<kgSig, timer, kgChild, kgFate, okaszlane, czyodebrane, wypisz, kgMain, gone>>
writers == <<writer, wrSig, wrChild, wrFate, aged, blocks, unmade, wrMain, sent>>
graph == <<linked, pc, fd, met, text, fifo, written, got, printed, kills>>
count == <<state, wyn, signaled, ccMain, i, er, ccKills>>
names == <<template, named, at, alone, killed>>
input == <<size, parts>>
vars == <<program, token, kindergarten, writers, graph, count, names, input>>

Token == INSTANCE WorkToken WITH n <- Young
KG == INSTANCE Kindergarten WITH
    n <- Young, KG <- Parent, sig <- kgSig, cpc <- kgChild, fate <- kgFate, mainpc <- kgMain
Writers == INSTANCE SignalWriters WITH
    s <- Blocks, prog <- writer, sig <- wrSig, cpc <- wrChild,
    fate <- wrFate, mainpc <- wrMain
Graph == INSTANCE GraphFifo WITH n <- Vertices
Count == INSTANCE CharCount WITH n <- Counting, mainpc <- ccMain, kills <- ccKills
Objects == INSTANCE ObjectNames WITH prog <- template, kills <- killed
Cut == INSTANCE Slices
-----------------------------------------------------------------------------
\* What the programs that do not run start with is of no interest.
Init ==
    /\ program \in Programs
    /\ size \in 0 .. MaxSize /\ parts \in 1 .. MaxParts
    /\ program # "slices" => size = 0 /\ parts = 1
    /\ Token!Init /\ KG!Init /\ Count!Init
    /\ Writers!Init /\ (program # "writers" => writer = "lab2_z1")
    /\ Graph!Init /\ (program # "graph" => linked = None /\ \A x \in Producers \cup Consumers : pc[x] = "absent")
    /\ Objects!Init /\ (program # "names" => template = "fixed")

Runs(name) == program = name /\ UNCHANGED <<program, input>>
RunToken == Runs("token") /\ UNCHANGED <<kindergarten, writers, graph, count, names>>
RunKG == Runs("kindergarten") /\ UNCHANGED <<token, writers, graph, count, names>>
RunWriters == Runs("writers") /\ UNCHANGED <<token, kindergarten, graph, count, names>>
RunGraph == Runs("graph") /\ UNCHANGED <<token, kindergarten, writers, count, names>>
RunCount == Runs("count") /\ UNCHANGED <<token, kindergarten, writers, graph, names>>
RunNames == Runs("names") /\ UNCHANGED <<token, kindergarten, writers, graph, count>>

\* The parent of the running program, and its other processes.
Lead ==
    \/ RunToken /\ Token!ParentStep
    \/ RunKG /\ KG!KGStep
    \/ RunWriters /\ Writers!ParentStep
    \/ RunCount /\ Count!MainStep
Process(c) ==
    \/ RunToken /\ c \in Children /\ Token!ChildStep(c)
    \/ RunKG /\ c \in Children /\ KG!ChildStep(c)
    \/ RunWriters /\ c \in Children /\ Writers!ChildStep(c)
    \/ RunGraph /\ c \in Producers /\ Graph!ProducerStep(c)
    \/ RunGraph /\ c \in Consumers /\ Graph!ConsumerStep(c)
    \/ RunCount /\ c \in Counters /\ Count!ChildStep(c)
    \/ RunNames /\ c \in Instances /\ Objects!Step(c)

\* What happens to a child meanwhile: signals, alarms, time.
Meanwhile(c) == (RunKG /\ KG!SignalStep(c)) \/ (RunWriters /\ Writers!Age(c))

\* What may happen and need not: failing calls, kills, somebody at the
\* keyboard.
Misfortune ==
    \/ RunToken /\ (Token!ForkFails \/ \E c \in Children : Token!QuitFails(c))
    \/ RunKG /\ KG!ForkFails
    \/ RunWriters /\ \E c \in Children : Writers!OpenFails(c) \/ Writers!WriteFails(c)
    \/ RunGraph /\ \E x \in Producers \cup Consumers : Graph!Kill(x)
    \/ RunCount /\ \E c \in Counters : Count!Kill(c)
    \/ RunNames /\ \E x \in Instances : Objects!Kill(x)
Keyboard ==
    \/ RunToken /\ (Token!SendUsr1 \/ Token!SendInt({Parent}) \/ Token!SendInt(Token!Procs))
    \/ RunWriters /\ Writers!Interrupt
    \/ RunNames /\ \E x \in Instances : Objects!Start(x)

Next ==
    \/ Lead \/ Misfortune \/ Keyboard
    \/ \E c \in Processes : Process(c)
    \/ \E c \in Children : Meanwhile(c)

\* Fairness as in the modules of the programs.
FairSpec ==
    /\ Init /\ [][Next]_vars
    /\ WF_vars(Lead)
    /\ \A c \in Processes : WF_vars(Process(c))
    /\ \A c \in Children : WF_vars(Meanwhile(c))
-----------------------------------------------------------------------------
\* The safety of each program, as stated in its module: the work is with one
\* child (lab2_z3.c), the kindergarten's count is never too low (lab2_z2_2.c),
\* blocks are written as asked (lab2_z1.c, lab2_1_2.c), a graph is printed as
\* it was written (producer.c, consumer.c), a count is printed whole (l6/z1),
\* an instance of a template that runs alone ends (template.c, template_ds.c).
WorkWithOne == program = "token" => Token!WorkWithOne
NeverUndercounts == program = "kindergarten" => KG!NeverUndercounts
WritesMade == program = "writers" => Writers!WritesMade
WholeGraph == program = "graph" => Graph!WholeGraph
CountIsWhole == program = "count" => Count!CountIsWhole
LoneInstanceEnds == program = "names" => Objects!LoneInstanceEnds

\* Whatever the size of the file and the number of children, files and results
\* are cut into parts that fit together (template.c, template_ds.c, l6/z1).
SlicesExact == program = "slices" => Cut!AllExact(size, parts)

\* Every program ends when it should: on SIGINT, when the day is over, after
\* the last signal, with the graph sent or nobody left to send it to, with
\* the last child (the waits of the parents, the open() of a FIFO).
Told ==
    \/ program = "token" /\ "SIGINT" \in sig[Parent].pending \cap sig[Parent].blocked
    \/ program \in {"kindergarten", "writers", "graph", "count", "names"}
Over ==
    \/ program = "token" /\ (Token!Finished \/ faults > 0)
    \/ program = "kindergarten" /\ KG!Home
    \/ program = "writers" /\ Writers!Ended
    \/ program = "graph" /\ Graph!Settled
    \/ program = "count" /\ Count!Ended
    \/ program = "names" /\ \A x \in Instances : ~Objects!Running(x)
ProcessesEnd == Told ~> Over
=============================================================================
