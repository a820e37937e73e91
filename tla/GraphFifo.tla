----------------------------- MODULE GraphFifo -----------------------------
(***************************************************************************)
(* src/GraphParsing/producer.c and consumer.c: a producer makes a FIFO at  *)
(* a fixed path, waits in open() for a reader, writes the size of a graph  *)
(* and one line per vertex, and removes the path; a consumer opens the     *)
(* path, reads the size, then that many lines, and prints.                 *)
(*                                                                         *)
(* The consumer reads with fgets() into a buffer; a line that is longer    *)
(* than the buffer comes in pieces, and it counts pieces as lines.  What a *)
(* producer writes is therefore kept as pieces.                            *)
(*                                                                         *)
(* Nothing keeps two producers or two consumers apart.  Everybody goes by  *)
(* name: what a process opens, and what it removes, is what the path leads *)
(* to at that moment.  A FIFO is named after the producer that made it.    *)
(***************************************************************************)
EXTENDS Integers, FiniteSets, Sequences

CONSTANTS
    Producers, Consumers,
    n,            \* the vertices of every graph
    MaxOver,      \* bound on the pieces of a text beyond one per line
    Old,          \* a FIFO an earlier run has left behind
    None,         \* no FIFO
    Starts,       \* the sets of processes that may be started
    MaxKills      \* bound on processes killed from outside

Procs == Producers \cup Consumers

VARIABLES
    linked,       \* the FIFO the path leads to
    pc,           \* where a process is
    fd,           \* the FIFO it has opened, also after it has closed it
    met,          \* processes whose open() has found a partner
    text,         \* what a producer writes: the number at the head of each piece
    fifo,         \* the pieces in a FIFO
    written,      \* the pieces a producer has written
    got,          \* the pieces a consumer has read
    printed,      \* the pieces it has printed as a graph
    kills

vars == <<linked, pc, fd, met, text, fifo, written, got, printed, kills>>

Goto(x, place) == pc' = [pc EXCEPT ![x] = place]
Over(x) == pc[x] \in {"absent", "done", "failed"}

\* Who has a FIFO open.  An open() that still waits counts.
Users(i) == {x \in Procs : fd[x] = i /\ pc[x] \in {"opening", "write", "read"}}
Partners(x, i) == Users(i) \cap (IF x \in Producers THEN Consumers ELSE Producers)

\* A process closes its FIFO: what its stream had read is gone, and with the
\* last user what the FIFO held.
Leaves(x, place) ==
    /\ fifo' = [fifo EXCEPT ![fd[x]] = IF Users(fd[x]) = {x} THEN <<>> ELSE @]
    /\ got' = [c \in Consumers |-> IF c = x THEN <<>> ELSE got[c]]
    /\ Goto(x, place)
-----------------------------------------------------------------------------
\* The first line is the number of vertices, then comes a line per vertex,
\* which begins with its number; further pieces begin with any number.
Texts ==
    {t \in UNION {[1 .. m -> 0 .. n] : m \in n + 1 .. n + 1 + MaxOver} :
        /\ t[1] = n
        /\ \E line \in [1 .. n -> DOMAIN t] :
              /\ line[1] = 2
              /\ \A v \in 1 .. n : t[line[v]] = v /\ (v < n => line[v] < line[v + 1])}
Fits(p) == Len(text[p]) = n + 1

Init ==
    /\ linked \in {None, Old}
    /\ \E here \in Starts :
          pc = [x \in Procs |-> IF x \notin here THEN "absent"
                                ELSE IF x \in Producers THEN "unlink" ELSE "open"]
    /\ fd = [x \in Procs |-> None]
    /\ met = {}
    /\ text \in [Producers -> Texts]
    /\ \A p \in Producers : pc[p] = "absent" => Fits(p)
    /\ fifo = [i \in Producers \cup {Old} |-> <<>>]
    /\ written = [p \in Producers |-> 0]
    /\ got = [c \in Consumers |-> <<>>]
    /\ printed = [c \in Consumers |-> <<>>]
    /\ kills = 0
-----------------------------------------------------------------------------
\* unlink(FIFO_PATH): first of all, after a failed open() and in the end.
Unlink(p) ==
    /\ pc[p] \in {"unlink", "giveup", "tidy"}
    /\ linked' = None
    /\ Goto(p, CASE pc[p] = "unlink" -> "mkfifo" [] pc[p] = "tidy" -> "done"
                 [] OTHER -> "failed")
    /\ UNCHANGED <<fd, met, text, fifo, written, got, printed, kills>>

\* The path may be there again: then the producer ends.
MkFifo(p) ==
    /\ pc[p] = "mkfifo"
    /\ IF linked = None
       THEN linked' = p /\ Goto(p, "open")
       ELSE UNCHANGED linked /\ Goto(p, "failed")
    /\ UNCHANGED <<fd, met, text, fifo, written, got, printed, kills>>

\* open(): the process joins what the path leads to and wakes those who wait
\* there for its kind.
Open(x) ==
    /\ pc[x] = "open" /\ linked # None
    /\ fd' = [fd EXCEPT ![x] = linked]
    /\ met' = met \cup Partners(x, linked)
                  \cup (IF Partners(x, linked) = {} THEN {} ELSE {x})
    /\ Goto(x, "opening")
    /\ UNCHANGED <<linked, text, fifo, written, got, printed, kills>>

OpenFails(x) ==
    /\ pc[x] = "open" /\ linked = None
    /\ Goto(x, IF x \in Producers THEN "giveup" ELSE "failed")
    /\ UNCHANGED <<linked, fd, met, text, fifo, written, got, printed, kills>>

\* It returns once a partner has come, even if it has gone again.
Opened(x) ==
    /\ pc[x] = "opening" /\ x \in met
    /\ met' = met \ {x}
    /\ Goto(x, IF x \in Producers THEN "write" ELSE "read")
    /\ UNCHANGED <<linked, fd, text, fifo, written, got, printed, kills>>
-----------------------------------------------------------------------------
\* The producer flushes line by line.  A long line may take several writes,
\* and is written piece by piece.
Piece(p, j) == [from |-> p, at |-> j]
Graph(p) == [j \in 1 .. Len(text[p]) |-> Piece(p, j)]

WriteLine(p) ==
    /\ pc[p] = "write" /\ written[p] < Len(text[p])
    /\ Partners(p, fd[p]) # {}
    /\ fifo' = [fifo EXCEPT ![fd[p]] = Append(@, Piece(p, written[p] + 1))]
    /\ written' = [written EXCEPT ![p] = @ + 1]
    /\ UNCHANGED <<linked, pc, fd, met, text, got, printed, kills>>

\* SIGPIPE: with nobody to read the producer dies, and its path stays.
Sigpipe(p) ==
    /\ pc[p] = "write" /\ written[p] < Len(text[p])
    /\ Partners(p, fd[p]) = {}
    /\ Leaves(p, "failed")
    /\ UNCHANGED <<linked, fd, met, text, written, printed, kills>>

Close(p) ==
    /\ pc[p] = "write" /\ written[p] = Len(text[p])
    /\ Leaves(p, "tidy")
    /\ UNCHANGED <<linked, fd, met, text, written, printed, kills>>
-----------------------------------------------------------------------------
\* The number a consumer finds at the head of its first piece: not the number
\* of vertices, when somebody else has read that.
Size_OneMore(piece) == text[piece.from][piece.at] + 1    \* mutation
Size(piece) == text[piece.from][piece.at]

\* fgets() has been called often enough, once for the rest of the first line
\* and once for each vertex.
Complete(c) == got[c] # <<>> /\ Len(got[c]) > Size(got[c][1])

\* The stream reads all there is at once.
ReadLines(c) ==
    /\ pc[c] = "read" /\ ~Complete(c)
    /\ fifo[fd[c]] # <<>>
    /\ got' = [got EXCEPT ![c] = @ \o fifo[fd[c]]]
    /\ fifo' = [fifo EXCEPT ![fd[c]] = <<>>]
    /\ UNCHANGED <<linked, pc, fd, met, text, written, printed, kills>>

ShowGraph(c) ==
    /\ pc[c] = "read" /\ Complete(c) /\ Size(got[c][1]) > 0
    /\ printed' = [printed EXCEPT ![c] = SubSeq(got[c], 1, 1 + Size(got[c][1]))]
    /\ Leaves(c, "done")
    /\ UNCHANGED <<linked, fd, met, text, written, kills>>

\* No graph has so few vertices.
BadSize(c) ==
    /\ pc[c] = "read" /\ Complete(c) /\ Size(got[c][1]) <= 0
    /\ Leaves(c, "failed")
    /\ UNCHANGED <<linked, fd, met, text, written, printed, kills>>

\* The end of the data: nothing to read and nobody to write.  A consumer that
\* opened the FIFO for both would be a writer itself.
Eof_OpenedForBoth(c) == FALSE                \* mutation
Eof(c) ==
    /\ pc[c] = "read" /\ ~Complete(c)
    /\ fifo[fd[c]] = <<>> /\ Partners(c, fd[c]) = {}
    /\ Leaves(c, "failed")
    /\ UNCHANGED <<linked, fd, met, text, written, printed, kills>>

Kill(x) ==
    /\ ~Over(x) /\ kills < MaxKills
    /\ kills' = kills + 1
    /\ met' = met \ {x}
    /\ IF x \in Users(fd[x])
       THEN Leaves(x, "failed")
       ELSE Goto(x, "failed") /\ UNCHANGED <<fifo, got>>
    /\ UNCHANGED <<linked, fd, text, written, printed>>
-----------------------------------------------------------------------------
ProducerStep(p) ==
    \/ Unlink(p) \/ MkFifo(p) \/ Open(p) \/ OpenFails(p) \/ Opened(p)
    \/ WriteLine(p) \/ Sigpipe(p) \/ Close(p)
ConsumerStep(c) ==
    \/ Open(c) \/ OpenFails(c) \/ Opened(c) \/ ReadLines(c) \/ ShowGraph(c)
    \/ BadSize(c) \/ Eof(c)
Next ==
    \/ \E p \in Producers : ProducerStep(p)
    \/ \E c \in Consumers : ConsumerStep(c)
    \/ \E x \in Procs : Kill(x)

Spec == Init /\ [][Next]_vars
FairSpec ==
    /\ Spec
    /\ \A p \in Producers : WF_vars(ProducerStep(p))
    /\ \A c \in Consumers : WF_vars(ConsumerStep(c))
-----------------------------------------------------------------------------
\* The values the variables can take.
Pieces == [from : Producers, at : 1 .. n + 1 + MaxOver]
TypeOK ==
    /\ linked \in Producers \cup {Old, None}
    /\ pc \in [Procs -> {"unlink", "mkfifo", "open", "giveup", "opening", "write", "tidy",
                         "read", "absent", "done", "failed"}]
    /\ fd \in [Procs -> Producers \cup {Old, None}]
    /\ met \subseteq Procs
    /\ text \in [Producers -> Texts]
    /\ \A i \in DOMAIN fifo : \A j \in DOMAIN fifo[i] : fifo[i][j] \in Pieces
    /\ \A p \in Producers : written[p] \in 0 .. Len(text[p])
    /\ \A c \in Consumers : \A j \in DOMAIN got[c] : got[c][j] \in Pieces
    /\ kills \in 0 .. MaxKills

Mates(c) == {x \in Procs : fd[x] = fd[c]} \ {c}
Holds(piece, seq) == \E j \in DOMAIN seq : seq[j] = piece

\* A consumer that has had one producer to itself, from the moment either
\* opened the FIFO, prints the beginning of what that producer wrote, as many
\* pieces as the graph has lines, in order, or nothing: the whole graph if no
\* line is longer than the buffer, and not all of it otherwise.  Nothing is
\* ever printed by two consumers (consumer.c's main).
WholeGraph ==
    /\ TypeOK
    /\ \A c \in Consumers :
          printed[c] # <<>> /\ Cardinality(Mates(c)) = 1 =>
              \E p \in Producers :
                  /\ Mates(c) = {p}
                  /\ printed[c] = SubSeq(Graph(p), 1, n + 1)
                  /\ printed[c] = Graph(p) <=> Fits(p)
    /\ \A c, d \in Consumers : \A piece \in Pieces :
          c # d => ~(Holds(piece, printed[c]) /\ Holds(piece, printed[d]))

\* Everybody comes to an end, except in an open() for which no partner is
\* left: of those not over all wait in open(), in every FIFO of one kind only,
\* and of both kinds only if at least one is at a FIFO without a name.
Waits(x) == pc[x] = "opening" /\ x \notin met
Settled ==
    /\ \A x \in Procs : Over(x) \/ Waits(x)
    /\ \A x \in Procs : Waits(x) =>
          /\ Partners(x, fd[x]) = {}
          /\ \A y \in Procs : (Waits(y) /\ (x \in Producers) # (y \in Producers))
                 => linked \notin {fd[x]} \cap {fd[y]}
EverybodySettles == <>[]Settled
=============================================================================
