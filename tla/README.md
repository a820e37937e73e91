# A verification project for SOP1_Practice

The repository is a collection of small C programs about operating-system
primitives: shared memory, robust mutexes, semaphores, barriers, pipes, FIFOs,
signals, threads and cancellation. Each program is a system of its own, so this
project has a module per program, an abstract module where a program promises
something that is worth saying apart from how it is done, and modules for what
several programs use: the robust mutex and the signals of a process. All paths
below are under `src/`.

Contents: 1 inventory - 2 modules and how they correspond to the code - 3 runs,
bounds and fairness - 4 what is proved - 5 disagreements between what is written
and the code - 6 what is only model-checked, what is not modelled - 7 plan.

## 1. Inventory

| program | state | operations | who talks to whom | what makes it correct |
|---|---|---|---|---|
| `sop_l6_templates/template.c`, `template_lab.c`, `template_ds.c` | three counters, two arrays of letters, a robust mutex, an unnamed and a named semaphore, all in shared memory; the names of the shared objects | clear away and create the named objects; fork N children; a child fills its place in the arrays, takes each guard in turn and updates the counter behind it, may die on purpose holding the mutex; the parent waits for all and reports | parent and children through shared memory and `wait` | exclusion, exact counters in spite of deaths, a mutex that survives, a report that is final; an instance that runs alone is stopped by no left-over; the children's parts of the file are disjoint and cover it |
| `sop_l6_templates/ipc_barrier_named_sem_robust.c` | process-shared barrier, named semaphore, robust mutex, counter | children open the semaphore, meet at the barrier, count under semaphore and mutex; the parent waits, reports, destroys | as above | nobody counts early, exact count, an end unless somebody is lost at the barrier or with the semaphore |
| `l6/main.c` | control block in named shared memory (count of processes, two sums, robust mutex), named semaphore | processes open or create the block, one initialises it, all add to it, the last destroys and unlinks it | unrelated processes through names | sums are exact, the last one out is really the last |
| `l6/z1/main.c` | results in an anonymous mapping | four children count characters, parent prints one result | `waitpid` | regions are disjoint, a child that aborted is noticed |
| `w5franci/main.c` | a pipe per knight, hit points, each process's array of enemies' write ends | forks, closing of inherited ends, blows, death, victory | pipes, EPIPE, end of file | arrays are exact, nobody leaves while an enemy lives, the winners learn it |
| `l5z1/main.c` | three pipes in a ring | forks, closing, pass a number on, exit on 0 or end of file | pipes | one number, the end goes all the way round |
| `l5/main.c` | descriptor table, a flag, one pipe per thread and a common one | threads of three kinds, a signal thread, main's loop | pipes, `select`, flag | a number always means the owner's pipe; everything ends |
| `l4/l4_template.c` | a flag and its mutex | threads that sleep and end, signal thread clears the flag, main joins and frees | flag, `sigwait` | threads end whatever the signal does |
| `l3/bitronka.c` | shelves with a mutex each, stop flag | workers swap, signal thread prints, shuffles, stops, main joins and frees | mutexes, signals, alarm | goods are neither lost nor doubled, no circle of waiting, nothing used after it is freed |
| `l3/anulowanie_watkow.c` | a counter per year, with a mutex each | students pass years, main cancels and joins them | cancellation, clean-up handlers | counters are exact wherever students are cancelled |
| `l3/l3_3psy.c` | track with a mutex per field, finish counter | dogs move, signal thread stops, main prints, cancels, joins | mutexes, cancellation | the track agrees with the dogs, the race ends |
| `l3/mutex.c` | balls waiting and thrown, eleven bins, a mutex each but for the last bin | throwers, main polls and prints | mutexes | balls are neither lost nor doubled, what is printed is final |
| `l3/robole.c` | salt per plot, flag | porters, signal thread, main polls, joins, destroys | mutexes, `sigwait` | salt is exact, nothing used after it is destroyed, porters stop once the flag is clear |
| `l3/sygnaly.c`, `l3/template.c` | a list, its length, a flag | signal thread removes, main prints and frees | mutexes, `sigwait` | what is printed is one state of the list; no node is used after it is freed |
| `l3/zwracaniewynikow.c` | nothing shared | threads return an estimate | `pthread_join` | - |
| `GraphParsing/producer.c`, `consumer.c` | a path, the FIFO behind it, a graph | producer unlinks, makes the FIFO, writes, unlinks; consumer opens and reads | `open` that waits for the other side, FIFO | a graph whose lines fit the reader's buffer is received whole or not at all; everybody ends unless no partner is left |
| `lab2_z3.c` | who works, dispositions and pending signals | parent passes the work on; children start and stop on signals | SIGUSR1, SIGUSR2, SIGINT | the work is with one child; SIGINT ends all |
| `lab2_z2_2.c` | who is ill, who was coughed at, how many SIGCHLD | children cough at the group and are picked up; parent counts and closes | SIGUSR1, SIGALRM, SIGTERM, SIGCHLD | the number who stayed is never too low; everybody goes home |
| `lab2_z1.c`, `lab2_1_2.c` | blocks to write | parent signals the group a number of times, children write a block each time | SIGUSR1, SIGALRM, SIGINT, `sigwait` | as many blocks as asked for, writes that fail made up for; everybody ends |
| `utils.c` | - | `bulk_read`, `bulk_write`, random numbers, sleeps | - | partial transfers are completed |

What is hard here: processes that die between any two steps; objects that
outlive the process that was to clean them up; locks taken in several orders;
descriptors inherited by every child; end of file and EPIPE, which depend on
what *all* processes have closed; signals that merge, come before their handler
or after the last wait for them; cancellation at a point nobody chose; signal
threads that are never joined. `PROJECT.json` lists each of these hazards at the
line where it bites, with the properties that watch it or the reason why none
does yet.

## 2. Modules

Comments marked `mutation` in the modules stand behind operators that are not
used by the specification: each is a plausible mistake in the operator that
follows it, kept to show that a property notices it. A module whose name ends in
`_proofs` holds the theorems about the module it extends; section 4 goes through
them.

**RobustMutex** - `pthread_mutex_*` as the programs use a robust mutex: owner
and state (`consistent`, `inconsistent`, `notrecoverable`). External: modelled
from how the code uses it and what POSIX says of `EOWNERDEAD`.

**SharedCounters** - the three templates. They share their control; where they
differ the operators depend on `prog`, chosen in `Init`: counters count down
from N (`template.c`, `template_lab.c`) or up from 0 (`template_ds.c`); the
deliberate crash comes before or after the update (`CrashPlace`); the parent
waits for anybody or in order (`Reap`), and reads the counters with their guards
or without (`ReadFinal`, `PeekFinal`). `status`/`pc` say how and where each
process is; `stage` is the guard it is at. `Load` and `Store` are two steps, so
only the guards make an update indivisible. `Misfortune` is everything that can
happen to a child: failed calls, the deliberate crash, a kill from outside at
any step. Left out: what the letters are. Two more modules complete the
templates: *Slices* and *ObjectNames*.

**ObjectNames** - the named objects of the templates, over several instances:
two segments and a semaphore that outlive whoever made them. `named` is whose
object a name leads to, `alone` the instances beside which no other has run. In
`template.c` and `template_lab.c` the names are fixed; a segment that exists is
taken for a left-over, unlinked, and created once more (`Open`, `UnlinkStale`),
the semaphore's name is dropped beforehand (`DropSem`). `template_ds.c` has its
pid in the names, so only instances with the same pid, one after the other,
meet. `Tidy` unlinks at the end whatever a name leads to then. `Work` stands
for everything SharedCounters models.

**Slices** - pure functions: the bytes of a child in `template.c`, in
`template_ds.c`, and the place of a child's results in `l6/z1/main.c`, which is
computed with `sizeof(int)` once too often and therefore lies beyond the length
that was asked for, but inside the page that is mapped.

**CountOff** - what the templates promise: every child counts itself off in one
step per counter, may vanish, and is reported on once nobody is left.
`SharedCounters!PromiseKept` is the refinement: a store is `CountSelf`, an end
is `Vanish`, a read by the parent is `Read`, everything else stutters.

**BarrierDemo** - `ipc_barrier_named_sem_robust.c`. A barrier is the pair
`arrived`, `left`; faults are failed `fork`, failed `sem_open` of a child, and
kills, `MaxFaults` of them together.

**IntegralCalc** - `l6/main.c`. `linked` is the block the name stands for,
`kind` tells whether a block's mutex is still what `ftruncate` left, was
initialised as a robust one, or was destroyed. A mutex of zeroes is a private
mutex: a process that has to wait for it sleeps and no other process wakes it
(`Block`). A process that comes to a destroyed mutex is killed by its EINVAL
(`LockFails`), one that waited there before may still get it; the model does not
keep apart which of the two a process is and allows both. `InitMutex`, `ZeroLos`,
`ZeroTraf` are separate steps, and nothing makes the others wait for them. Every process is started from its own shell
job, so the `kill(0, SIGKILL)` of the error macro kills the caller only.

**Battle** - `w5franci/main.c`. `readers` and `writers` say which processes have
which end of each knight's pipe open, since end of file and EPIPE depend on all
of them; `foes` is the live prefix of a knight's array, `wrog` the entry it has
drawn before it knows whether the write will block. One read takes at most
`BuffSize` bytes (255 in the code) of a pipe of `PipeSize` (65536): of the pipe's
content the number of bytes and their sum are kept, and a read that leaves some
behind finds any sum these two allow (`Readable`). A failed fork leaves a
knight absent, as in the code, which does not look at the result.

**PipeRing** - `l5z1/main.c`, in the same style; of the number only "zero or
not" matters.

**ThreadPipes** - `l5/main.c` with its descriptor table: `fds` maps a number to
what it stands for, the lowest free number is given out, `close` of a number
closes whatever it stands for now.

**Shelves**, **Bitronka** - `l3/bitronka.c` and what it promises: goods on
places, exchanged only towards order, or shuffled. Loads and stores of workers
are single steps, locks of the signal thread are taken one at a time. `Goods` is
the refinement mapping: between the two stores of an exchange the shelves count
as already exchanged. A draw of the same shelf twice goes back to the check of
the flag and is a stutter.

**Students** - `l3/anulowanie_watkow.c`. A cancelled student goes on to the next
cancellation point, the sleep, and runs the handler there. When the loop of
main takes more rounds than there are students it reads past the permutation;
the value is not used, since `present` is 0 then.

**DogRace** - `l3/l3_3psy.c`. Taking a mutex loads, releasing it stores.

**BeanMachine** - `l3/mutex.c`. A thrower is at one of the counters (balls
waiting, a bin, balls thrown) and locks, loads, stores and unlocks it. The mutex
of the eleventh bin is never initialised: `garbage` chooses once what it does,
works, keeps whoever comes for ever, or admits everybody.

**Porters** - `l3/robole.c` and `l4/l4_template.c` (`prog`): workers, a signal
thread, main that polls the flag, joins, prints, and frees without joining the
signal thread. Salt is counted modulo `Window`. main of `robole.c` takes and
gives back the mutex of the flag without a pause; see the fairness in section 3.

**SigList** - `l3/sygnaly.c` and `l3/template.c` (`prog`). The list is a graph of
nodes, read and relinked one node at a time, so that an update in the middle of
a print would show; `Nth` is the walk of the signal thread to the place it has
drawn. SIGINT may come any number of times, one at a time pending, and `sigwait`
takes it before SIGQUIT. The two programs differ in the length that is printed
(`template.c` passes it by value once) and in the lock around the clean-up,
which `template.c` does without: by then main has joined the signal thread.

**Signals** - what the kernel keeps of the signals of a process: dispositions,
blocked signals, and a *set* of pending ones. External: modelled from how the
code uses `kill`, `sigaction`, `sigprocmask`, `sigwait` and `fork`. A child
that stops or goes on again would give a SIGCHLD as well; nobody stops one here.

**WorkToken** - `lab2_z3.c`. `czy_dzialam` is the set of children that work,
`pracujace` the one the parent thinks of. The handlers are installed with an
empty mask (`utils.c:117`), so one may begin inside another: `inside` is the
stack of the handlers a child is in. `Interrupted` begins one, `Work`, `Rest`,
`Quit` and `QuitFails` are the store, or the exit, of the innermost and its
return. A signal is `Due` from the `kill` to the end of its handler. `crossed`
remembers that some child has been due to work and to rest at once, when their
order is the kernel's; the code does nothing against it.

**Kindergarten** - `lab2_z2_2.c`. The process group is all of `Procs`; `gone`
is what the SIGCHLD handler has counted; `fate` is how a child ended. A handler
is one step here (`Handle`): all the handlers do is set variables, to the same
values whenever they run, so one that begins inside another changes nothing of
what a child sees when it goes on.

**SignalWriters** - `lab2_z1.c` and `lab2_1_2.c` (`prog`), which send and wait in
the same way; `aged` is the set of children whose second of life is over. A
write may fail: the signal is taken, no block is written and none counted
(`WriteFails`), and a child of `lab2_z1.c` makes up for it later. Of the blocks
it makes up for in the end some may fail as well, `unmade` of them, and nobody
tries those again (`MakeUp`). How often `lab2_1_2.c` says it has written is left
out: it counts signals, not blocks.

**GraphFifo** - `GraphParsing/producer.c` and `consumer.c`, any number of each.
`linked` is the FIFO the path leads to, `fd` the one a process has opened; a
FIFO outlives its name. `open` is two steps: one that finds the FIFO, one that
waits for the other side (`met`). `producer.c:35` says that an existing FIFO is
no error; the code treats it as one, and so does the model (`MkFifo`). The
consumer reads lines with `fgets` into 1024 bytes, takes a longer line in pieces,
and counts each piece as a vertex. So a text is a sequence of pieces, of which
the number at its head is kept: the number of vertices, then for each vertex a
piece that begins with its number, and further pieces that begin with any
(`Texts`; `Fits` says there are none). In a graph of a few hundred vertices lines
do get that long. Abstracted: a producer that is killed within a long line may
leave part of a piece, and where two producers share a FIFO the pieces of one
may join those of the other differently; `WholeGraph` says nothing of a text in
either case but that no piece is printed twice, for pieces as they were written.

**CharCount** - `l6/z1/main.c`. A failed `fork` leaves -1 in the table and makes
`waitpid` wait for anybody, a later `waitpid` for a child already waited for
fails and leaves `status` unset, which may read as anything; `er` is what main
makes of it.

**CancelledThreads**, **PipePrograms**, **ThreadPrograms**, **ProcessPrograms** -
instances for checking: of DogRace and Students, of PipeRing and ThreadPipes, of
the three smaller threaded programs, and of the smaller programs of processes.
The programs share nothing. The first state chooses which one runs and only that one takes
steps, so the states of the instance are those of the programs one after the
other. Slices takes no steps: its inputs are chosen in the first state.

## 3. Runs

| run | instance | states | shows |
|---|---|---|---|
| `shared_counters` | 3 children, 1 kill | 208954 | all three templates: types, exclusion, exactness, survival of the mutex, the final report, the refinement of CountOff, and that the parent ends unless a semaphore was lost with a dead child |
| `barrier_demo` | 3 children, 2 faults | 9168 | nobody passes early, exact count, the recovery branch is dead code, the parent ends unless one of three named losses happened |
| `bitronka` | 3 shelves, 2 workers, 1 SIGUSR1 | 121304 | inventory, no circle, the refinement of Shelves, nothing used after it is freed, SIGINT ends the program |
| `battle` | 2 against 2, 1 hit point, pipes of 1 byte | 264234 | arrays, no desertion and no second victor, news of victory, with full pipes and failed forks |
| `battle_backlog` | 2 against 1, pipes of 3 bytes, reads of 2 | 144423 | news of victory when reads leave bytes behind |
| `pipe_programs` | the ring of the code; 3 threads of each kind | 5485 | the ring: one number, no early end, the end goes round; the template: nobody meets a stranger's pipe, the end of everything |
| `integral_calc` | 3 processes, 2 blocks, 1 kill | 552195 | sums exact on every block nobody used before it was initialised; whoever finds nobody left is right while it holds the mutex |
| `cancelled_threads` | 2 dogs, 4 fields, moves up to 3; 2 students, 3 rounds | 125060 | track, picture and places are exact, the race ends; the counters of the years and the printed result are exact, the program ends |
| `thread_programs` | 2 threads, 3 balls, 2 bins, 2 plots, 3 nodes | 16667 | balls and salt are exact and final when printed, every print of the list is of one state, nothing used after it is freed, the programs end |
| `handler_programs` | 2 children each, 2 passes, 1 failed call | 220142 | the work is with one child though handlers interrupt each other, the count of the kindergarten is never too low, both programs end |
| `file_programs` | 2 writing children, 3 signals, 2 blocks; 2 producers and 2 consumers of which 3 are started, graphs of 1 vertex whose text is up to 1 piece longer; 4 counting children; 3 instances of a template of which 2 run at a time; 1 kill; files up to 13 bytes for up to 6 children | 211481 | blocks are made up, graphs and results are whole, a lone instance ends, files are cut exactly, everybody ends |
| `thread_pipes_comment` | 2 threads of each kind | - | a violation, section 5 |

The type invariant of a module is the first conjunct of its main invariant.

Bounds and why they are enough. Three children are the least with one inside a
guard, one dead in it and one waiting; a second kill only repeats the first,
because deliberate crashes are not bounded. Three shelves allow two workers to
want overlapping pairs and a circle of three if the order were wrong. Two
knights a side are the least for which an array has an entry to move; one byte
per pipe makes full pipes the rule. Three bytes per pipe and two per read are the
least with a read that leaves something behind and one that does not; two
against one is enough for both sides to have to learn of their victory. Two generations of a block are the least for
which the semaphore outlives one. In `integral_calc` the processes are
interchangeable and the run checks no liveness, so symmetry is sound; one batch
instead of three repeats the same steps less often. Two students and three
rounds let main run past the last student, once. The dog race insists on m > 2
and n > 20; the model needs n > MaxRuch, and four fields allow forward moves,
bounces and meetings. Three balls let one wait, one fall and one lie; of the
bins only one with a good mutex and the one without matter. Three nodes have a
head, a middle and an end, and SIGINT comes often enough to find the list empty. Two
children are the least for which work is passed on, signals of children merge,
and one of them is forgotten; a third repeats that. Three rounds of signals
against two blocks give children that write on time, that make up and that are
signalled too often. Three processes around one FIFO make two producers that
remove each other's path (`Starts` has processes 0, 1 and 2) or two consumers
that share one (0, 2 and 3); smaller groups are those of which a process is
killed first. A graph of one vertex has a first line and another; one more piece
is the least that makes the buffer too short, and a graph of two vertices was
checked for safety besides. Three instances of a
template have two that meet and one that finds what they have left. Thirteen
bytes for up to six children have empty parts, parts of several sizes, and parts
that come out even; the theorems of section 4 are about all sizes.

Deadlock checking is off everywhere: every program ends, and some may be left
with somebody waiting for ever, which the liveness properties name exactly
(`SemLost`, `Doomed`, `Swallowed`, `Forgotten`, the waits in `Settled`).

Fairness. Processes and threads get weak fairness: the kernel runs whoever can
run. Nothing that may go wrong (kills, crashes, failed calls, signals from
outside) is fair; that a pending signal is delivered and an alarm rings is
(`Meanwhile`). Strong fairness is assumed where
somebody takes a mutex again and again and sleeps in between. In Bitronka for
workers and signal thread: a worker sleeps 100 ms after each exchange, so whoever
waits for a mutex finds it free over and over, and mutexes are granted among the
waiting. In DogRace for dogs and main: dogs sleep 200 ms or more between moves,
main two seconds between looks. In BeanMachine and SigList main sleeps a second
between two looks. Porters has weak fairness only: main of `robole.c` locks and
unlocks the mutex of the flag in a loop without a pause (`robole.c:149`), default
mutexes favour nobody, and so the signal thread may wait for that mutex for ever.
`ThreadsEnd` therefore says of `robole.c` that it ends once the flag is clear,
not that SIGINT clears it. `SharedCounters` needs only weak fairness because
every child takes each guard once.

SIGQUIT ends the programs of SigList unless `sigwait` finds a SIGINT again and
again (`Flooded`): it takes the lower number first.

The programs of ProcessPrograms end, with these exceptions, each of them
reachable in the code: a child of `lab2_z3.c` that cannot open its file goes on
after SIGINT (`faults`); a cough that arrives before the kindergarten ignores
coughs ends the kindergarten, and nobody sends the children home; a child of
`lab2_z1.c` that goes back to `sigwait` just before its second is over is
forgotten there; a producer or consumer with no partner stays in `open`. In
BeanMachine the last mutex may keep a ball for ever.

`IntegralCalc` states no liveness: a process may sleep for ever on a mutex of
zeroes, or at a mutex that was initialised again while it was taken. `Battle`
states it of a side that is gone only: with full pipes living knights can wait
for each other in a circle, which the model reaches and the code does nothing to
exclude. A pipe takes 65536 bytes, so it needs an absurdly long battle.

## 4. What is proved

A theorem holds for every value of the constants that the named assumptions of
its module allow; TLC evaluates these in the runs. There are eight modules of
proofs, each of which extends the module it is about, `PipePrograms_proofs` both
PipePrograms and Battle. Of a program that is part of an instance for checking
the theorems say what it does there; that every step of the instance is one of
the program or a stutter is the lemma `...Moves`. Every safety invariant a run checks is the subject of a
theorem. Every theorem below but
`PartsFit` and the two refinements is of the form
`Spec => []P` (`FairSpec` or `ChosenSpec` in the instances), with a `P` that is not inductive by itself:
the module states an inductive invariant, a conjunction of named parts, and
proves that it holds at first, that each action keeps each part, and that it
implies `P`. The refinements use the same invariants, step by step. TLC found each
of these invariants to hold on the instance of the run before it was proved.

| module | theorem | says | assumed of the constants |
|---|---|---|---|
| `SharedCounters_proofs` | `Inductive`, `TypeCorrect` | `[]IInv`, `[]TypeOK` | N >= 1, the parent is none of the children |
| | `MutualExclusion`, `MutexNeverLost` | `[]Exclusion`, `[]MutexSurvives` | |
| | `CountsAreExact` | `[]CountExact` | |
| | `ReportIsFinal` | `[]ReportFinal` | |
| | `ImplementsCountOff` | `PromiseKept`: the templates implement CountOff | |
| `BarrierDemo_proofs` | `CounterIsExact` | `[]CounterExact` | children finite, at least one, the parent is none |
| | `RecoveryIsNeverMet` | `[]RecoveryNeverMet` | |
| `IntegralCalc_proofs` | `ExactIfNotRaced` | `[]ExactUnlessRaced`: the sums, and the decision to clean up, not newcomers after it | processes finite, at least one batch and one block |
| `Bitronka_proofs` | `PrintsWholeInventory` | `[]WholeInventory` | at least one shelf; the signal thread is none of the workers |
| | `FreesTheUnused` | `[]NothingUsedAfterFree` | |
| | `NobodyWaitsInACircle` | `[]NoCircle` | |
| | `ImplementsShelves` | `PromiseKept`: the night shift implements Shelves | |
| `CancelledThreads_proofs` | `RaceIsExact` | `[]TrackExact` | at least one dog, a track longer than the longest move |
| | `YearsAreExact` | `[]YearsExact` of Students | at least one student and one round |
| `PipePrograms_proofs` | `ArraysAreExact` | `[]ArrayExact` of Battle | sides finite, not empty, disjoint, the parent in neither; at least one hit point, damage 0 to 127, pipes and reads of any size from 1 |
| | `NobodyDeserts` | `[]NoDesertion` of Battle | the same |
| | `PipesStayApart` | `[]OwnPipe` of ThreadPipes | at least one thread of each kind |
| | `RingStaysInOrder` | `[]RingInOrder`: `OneNumber` and `NoEarlyEnd` of PipeRing | none |
| `ThreadPrograms_proofs` | `CountsAreExact` | `[]CountsExact`: balls and salt | threads finite, main and signal thread are none of them; the last bin is a bin |
| | `PrintsOneState` | `[]OneState`: the list, its order included; the number above it is the list's in `sygnaly.c` only | at least one node |
| | `NothingIsUsedAfterFree` | `[]NothingUsedAfterFree` | |
| `ProcessPrograms_proofs` | `WorkIsWithOne` | `[]WorkWithOne` | at least one child, whose number is not the parent's name |
| | `KindergartenCounts` | `[]NeverUndercounts` | the same |
| | `WritesAreMade` | `[]WritesMade` | the same |
| | `GraphsComeWhole` | `[]WholeGraph` | producers and consumers finite and disjoint |
| | `CountsWhole` | `[]CountIsWhole` | at least one counting child |
| | `LoneInstancesEnd` | `[]LoneInstanceEnds` | instances finite |
| | `PartsFit`, `EveryFileCutExactly` | `AllExact(size, children)` for every size and number, `[]SlicesExact` | none |

What the proofs rest on, component by component.

**Templates.** `IInv` has `TypeOK`; `Places`, which guard goes with which
place; `MutexInv`, the owner of the mutex is exactly the *running* process in
its section, and the state is `inconsistent` exactly as long as that process
stands at `recover`, so nobody unlocks an inconsistent mutex, which is what would
make it unrecoverable; `SemInv`, a process inside a semaphore, alive or dead, has
its only unit, because death does not give it back. For `CountExact` it is joined
by `RegInv`: a value loaded and not yet stored is still the counter's, since
exclusion lets nobody store in between. `ReportFinal` needs `Collected` (whom the
parent has waited for has ended), `FateInv` (how a child that ended got where it
ended) and `FinalInv` (what the parent has read is the counter's value).
`ImplementsCountOff` maps each step: `Store` to `CountSelf`, the ends of children
to `Vanish`, the parent's reads to `Read`, everything else to a stutter. The six
lemmas about the operations of a robust mutex are at the head of the module. This
proof corrected the model: `Reap` was a CASE whose guards overlap, so that it
left open which of them TLC took; it is an IF in the order of the code now.

**Barrier demonstration.** The mutex is taken only inside the semaphore, and
whoever dies inside keeps the unit; so the mutex can be `inconsistent` only with
somebody dead in front of it for ever (`MutexInv`), and nobody comes to recover.
`BarrierInv` says that past the barrier means that everybody came to it,
`CountInv` counts those who stored, `ReportInv` carries over to the report.

**Integrator.** The statement is about blocks that nobody locked before they
were initialised (`raced` collects the others). `FirstInv`: before the first
`sem_trywait` nothing has happened, and at most one process initialises.
`SetUpInv`: it meets zeroes and nobody in the section. `OwnerInv`, `ExactInv`:
whoever is in the section owns the mutex, the sums are those added, a loaded
value is current. `InsideInv`: a block's count is no lower than the number of
processes inside, from which `LastOneOut` follows: the last one out has
counted down to zero, and while it holds the mutex nobody else counts itself in.

**Night shift.** `LockInv` says for each shelf who holds it, from the places of
the threads; `StopInv` orders the end: `stop` is set before the signal thread
goes, main passes its polling after that, and its joins after the workers.
`ReadsInv` and `GoodsInv` make an exchange whole: `Goods`, the refinement
mapping, is a permutation all the time. `NobodyWaitsInACircle` argues with the
largest shelf that is held: its holder waits for none, since everybody locks
upwards. `ImplementsShelves` shows that goods move at the first store of an
exchange and in the shuffle only, and that a worker exchanges what stands in the
wrong order.

**Students.** A student is counted in a year exactly between its increment and
its decrement, and the handler undoes the one that was made (`CountInv` over the
place and `doing`); `MainInv` says that main prints when all are joined and that
it has rounds left whenever it goes into one.

**Dog race.** `MutexInv` has the fields main holds while it goes through them;
`RegInv` makes a dog's update exact; `PictureInv` says that, while main prints,
what it has shown is the number of dogs on the fields it has passed: nobody can
move, because moving needs a mutex main holds.

**Battle.** Who holds which end of which pipe follows from where everybody is
(`EndsInv`): a knight before its set-up holds all of them, then its own read end
and the write ends its array names, at its end none; the parent holds all until
its last fork. The array names enemies, each once, and whoever is not in it any
more has lost (`FoesInv`): an entry is removed on EPIPE only, nobody reads from
that pipe then, so its knight has ended, and it cannot have survived, because an
enemy of it still attacks. That last part is `VictoryInv`, whoever survives
has only enemies that have lost: a knight goes home when its array is empty, or
at the end of its input, when nobody has its pipe open for writing. None
of the three is inductive without the others. `EntryTaken` is the lemma on the
removal: moving the last entry into the gap and cutting it off takes one name
away and leaves the others.

**Thread and pipe template.** `TpTable` says of each number what it stands for:
3 and 4 for the ends of the answers' pipe until main closes them, the number a
thread reads from for that thread's read end or, once main has closed it, for
nothing, every other number for nothing. `TpNumbers`: threads that live have
different numbers, none of them 3 or 4. While main joins, it closes write ends a
second time, by numbers that stand for the read end of another thread by then;
but nothing is opened after that, so that end is lost and never replaced by
somebody else's. That two numbers are free whenever a pipe is made
follows by counting: at most n + 2 of 2n + 3 are taken. `TpPlaces`: main's
writes find no write end, so nothing kills main.

**Pipe ring.** Everybody alive keeps the end it writes to (`RgEnds`), so an end
of input means that the writer is gone. `RgNumber`: the number is nowhere before
the parent sends it, then in one pipe or with one process, then nowhere.

**Threaded programs.** Only the program that runs takes steps (`ListMoves`,
`SaltMoves`, `BeansMove`), so each has an invariant of its own. *The list*
(`LsInv`): the nodes are linked in the order they had at first (`LsOrder`), from
which it follows by the least counterexample that the place the signal thread
draws exists and has as many nodes before it as it drew (`Drawn`), so that
unlinking it keeps the order; `LsCount` relates the length and what main has
walked. *The salt* (`PtInv`): a loaded portion is current, and what main has
released nobody comes back to (`PtEnds`); the signal thread, which is never
joined, has given the mutex of the flag back when main has seen the flag cleared,
as main looks with that mutex. *The beans*
(`BmInv`): each ball waits, falls, is about to be counted, or has been
(`BmBalls`), the bins hold what has landed (`BmBins`). The mutex of the last bin
is unknown; if it admits everybody, a thread may store a value it loaded long
ago, and all that can be said, and is enough, is that no loaded value exceeds
what has come to lie there (`InLast`): balls can be lost, never made. The
lemmas on `Total` prove of the library's fold that it is a sum.

**Processes.** The same again (`...Moves`, `NextCases`). *WorkToken*: between
the two signals of a pass nobody works, or is due to rest; otherwise the one
child the parent thinks of works or is due to, unless two signals crossed; nobody
ever ignores a signal, so none is discarded (`TkHeeds`), and what is taken from
the pending signals is on the stack of handlers until its store (`TkSameDue`,
`TkInterruptedEffect`). *Kindergarten*: those who left are at least one for each
SIGCHLD counted and one more for one that is pending, and before it closes the
kindergarten's SIGCHLD come only from them (`KgCount`, `KgAlarms`, `KgShield`).
*SignalWriters*: a child has written at most as many blocks as signals were
sent, one fewer while one is pending (`WrBlocks`), and what it writes at its end
and what fails then come to the number it was given (`WrMakesUp`). *CharCount*: a child that was
waited for and not ended by a signal has written all its results; main knows of
each that was. *ObjectNames*: for
an instance that runs alone `NamesOf` gives for each place which names lead to
its objects, and `OnLeftOver` what is behind the name of a segment otherwise.
*GraphFifo*: a piece that can be found was written, and is in the FIFO
its writer opened or with one consumer (`GfPieces`, `GfOnce`); where a consumer
has a producer to itself, what it has got and what the FIFO holds are together
what that producer has written (`GfPair`), the number it reads first is the
number of vertices, and so it stops after as many pieces as there are lines.
*Slices*: `PartsFit` rests on one
fact about C's division of natural numbers: the quotient of `a` by `d` is the
only `j` with `d * j <= a < d * (j + 1)` (`OnlyQuotient`). In `template.c` the
byte `b` is in the part of child `j` exactly if `j` is the quotient of
`(b + 1) * children - 1` by the size (`InSlice`); in `template_ds.c` blocks of
the size rounded up are cut off at the end of the file (`BlocksReach`,
`BlocksFit`); `ResultsFit` does the same for `l6/z1`.

## 5. Where what is written and the code disagree

`l5/main.c:280` says of the write in main's loop that it uses the write end of
the individual pipe ("Użyj zapisowego końca indywidualnego pipe"). The code
closes that end at line 233, before the thread is even started ("main nie będzie
pisał przez ten koniec"), and keeps using the number. `thread_pipes_comment`
shows main at its write with a number that no longer stands for that pipe. No
message ever reaches a thread of the third kind: each of them sees the end of
its input at once. `pipe_programs` shows what still holds nevertheless: nobody
ever reads from or closes somebody else's pipe, and the program ends.

`sop_l6_templates/KOMENDY_I_PRZYKLADY.md:102-104` says that a killed process may
leave garbage behind, that the names of the segments are constant, and that the
next run may therefore need a clean-up ("kolejne uruchomienie moze wymagac
cleanupu"). The first two are so, in the model as in the code. The third is not
so of the programs with constant names: `template.c` and `template_lab.c` take a
segment that exists for a left-over, unlink it and create it anew
(`template.c:172`, `template_lab.c:147`), and drop the semaphore's name
beforehand. `LoneInstanceEnds`, checked in `file_programs` and proved, says that
an instance of these two never fails for what is left over, as long as no other
one runs beside it. What the document says is true of `template_ds.c`, whose
names are not constant: with the pid of a killed instance it finds that one's
segment and ends. There is no run with a violation for this, since what *may* be
needed is refuted by no single behaviour but by that property.

## 6. What is only model-checked, and what is not modelled

Out of the prover's reach, and checked by TLC on the instances of section 3:
liveness (every `...Ends` property, `VictoryIsKnown`, `EndGoesRound`, `IntEndsIt`)
and whatever speaks of `ENABLED`. Every invariant of the passing runs is proved,
and so are the two refinements. That
BarrierDemo's parent reports N when nothing fails is a part of `CounterExact`,
and proved; that it reports at all is liveness.

Not modelled: `utils.c` and `zwracaniewynikow.c` (nothing interleaves);
`semconbar.c`, a collection of snippets; `lab2_z2.c`, a draft of `lab2_z2_2.c`
that does not compile; the programs of `GraphParsing` that read a graph from a
file in one process; build files and editor settings. In the programs that are
modelled: exit statuses, output and its wording, failures of `malloc`, `mmap` and
`pthread_create` that end a program before anything is shared, what characters
are counted, the numeric results of the integrator, and damage above 127 in the
battle (a signed char would turn negative; an assumption of the model). Of
SIGCHLD in the kindergarten only the ends of children are modelled: nobody there
stops a child, and a child stopped from outside would be counted as gone.

Some things the code does are reachable and forbidden by no property, because
nothing excludes them. In `l6/main.c:151` a process may use the block before it
is initialised, and lose what it added; `ExactUnlessRaced` is about the other
blocks. In `l6/main.c:177` a newcomer may be inside the block that is being
destroyed; `LastOneOut` is about the decision before that. In `lab2_z3.c`
two signals under way to one child at once may be obeyed in either order
(`crossed`). In `l4/l4_template.c:142` and `l5/main.c:357` main frees
the argument of the signal thread while that thread may be between two uses of
it. main returns in the next step.

## 7. Plan

All the programs of the inventory are modelled, but for what section 6 names,
and the safety properties of all of them are proved. What would say more:

1. The signal threads of `l4_template.c` and `l5/main.c` using their argument
   after main has freed it, with the end of the process as a step of its own: it
   needs a statement of what the programs owe their reader there.
2. The estimator threads and the sequential readers of graphs, as pure
   functions over small inputs, checked by TLC.
3. Damage above 127 in the battle, as a nondeterministic sign of `char`.
