# The scheduler of OS_Schedular in TLA+

OS_Schedular simulates an operating system's scheduler: a process generator
reads a file of processes and sends each to the scheduler when the emulated
clock reaches its arrival time; the scheduler gives it main memory, forks a
program for it, queues it, and decides in every tick of the clock which process
runs, by one of four algorithms. Three files tell what happened. This directory
holds TLA+ modules of the system, the configurations that check them with TLC,
and proofs for TLAPS.

    tlc -config MCSJF.cfg MCSJF        one run (the table below has them all)
    tlapm SJFProofs.tla                the proofs of one module

## 1. Inventory

| part | code | state | operations | interacts by |
|---|---|---|---|---|
| clock | `clk.c`, `getClk`, `initClk`, `destroyClk` in `main_header.h` | one integer in shared memory | add 1 every second; remove it on SIGINT | shared memory read by everyone |
| process generator | `process_generator.c`, `Read_file`, `Insert_Process` | list of processes, position in it | send all processes whose arrival time is *this* clock value; end everything on SIGINT | message queue, signals |
| scheduler main loop | `main` of `scheduler.c` | `follow`, the counts, the files | per new clock value: receive all messages, one step of the algorithm, test for termination | message queue, `fork`, semaphores, files |
| main memory | `headers_saad.h` | `bool mem[32]` | `mem_alloc`, `mem_dealloc` | called when a process is received and when it finishes |
| SJF | `SJF_Algo`, `RUN_CURR_PROCESS` | priority list, copy of the running node, its own count, `last_up` | one tick | semaphores, files |
| HPF | `HPF_Algo` | priority list, `curr_Proc`, `P_state`, `startt` | one tick with preemption | semaphores, files |
| round robin | `Round_Robin` | circular list, `curr_Proc`, `quanta` | one tick | semaphores, files |
| multilevel feedback | `MLF_Algo`, `headers_ali.h` | a queue per level, a buffer, current process, its level and quantum | one tick | semaphores, files |
| linked lists | `headers_ali.h`, `headers_amin.h`, `headers_m.h` | nodes with `Next`, `front`, `rear` | insert, pop, remove, walk | called by all of the above |
| simulated process | `process.c` | its remaining time | one `down()` per tick until 0 | a semaphore of its own, the clock |
| shutdown | `handler`, `clearResources`, `cleanup` | what is pending for whom, what still exists, the summary | remove semaphores, queue, shared memory; write the summary; end the processes | signals |

What makes this code hard: a pass of the loop receives before it runs, and for
HPF and round robin the end of a process is noticed only one pass after its last
tick, so arrivals come between the two; `curr_Proc` outlives several changes of
the list it points into; the clock may go on by more than one tick between two
passes; memory may run out, which drops a process for good but must not keep the
program from ending; the program ends by an equality of two counts; the scheduler
and the simulated processes count the same ticks independently, coupled by a
semaphore that both of them create; the generator and the scheduler each poll the
same clock; and the end is a chain of signals that may come in the middle of
anything.

What makes each part correct:

* memory: a block has at most one owner, the flags are what is owned, a request
  fails only if no place for it is vacant, the place chosen does not split a
  larger hole needlessly;
* lists: no process is lost or doubled, the current process is where its pointer
  says;
* algorithms: the right process runs, the processor never idles while there is
  work, nobody waits longer than the algorithm allows, a process runs exactly its
  running time;
* accounts: waiting, turnaround and idle time add up to the clock, the log tells
  one life of each process;
* program: it ends when, and only when, all the work is done;
* generator: every process is sent, and comes to the scheduler in time;
* semaphores: a program never runs ahead of the scheduler, and each can terminate
  by itself;
* shutdown: everybody ends, nothing is left behind, the summary is written once.

PROJECT.json lists the hazards with their lines, and which property looks after
each.

## 2. The modules

| module | models |
|---|---|
| `MainMemory` | the array `mem`, its blocks, `get_no_of_blocks`, and what `mem_alloc`, `get_first_place` and `mem_dealloc` select, set and clear, as operators |
| `MemAllocLoop` | the loops of `mem_alloc` and `get_first_place`, one step per place they look at |
| `MemoryManager` | the memory with any number of holders, a call being one step |
| `BlockStore` | abstract: grant a free run of blocks, release it |
| `Scheduler` | the main loop, reception, refusal, accounts, log; the shared properties |
| `PriorityList` | the list of SJF and HPF |
| `SJF`, `HPF`, `RoundRobin`, `MLFL` | each algorithm with its ready queue, on top of `Scheduler` |
| `RoundRobinLinked` | the circular list of round robin as nodes and pointers, beside the queue of `RoundRobin` |
| `Processor` | abstract: what every algorithm promises, whatever its order |
| `Feed` | the clock, the generator and the message queue |
| `Programs` | the simulated processes and their semaphores |
| `RoundRobinSystem` | `RoundRobin`, `Feed` and `Programs` together, each actor stepping on its own |
| `Shutdown` | SIGINT, the handlers, and what they remove |
| `MainMemoryProofs`, `SchedulerProofs` | lemmas about the allocator, and about what a step of the shared loop does to records, memory, counts, accounts and lines; on these rest |
| `MemoryManagerProofs` | the theorems about `MemoryManager` and `MemAllocLoop` |
| `RoundRobinProofs` | the theorems about `RoundRobin`, `RoundRobinLinked` and `RoundRobinSystem` |
| `SJFProofs`, `HPFProofs`, `MLFLProofs`, `ShutdownProofs` | the theorems about the module of that name |
| `MC...` | values for the constants |

`Scheduler` EXTENDS `MainMemory`, so the scheduler's processes get their memory
from the operators that `MemAllocLoop` checks against the loops and that the
theorems are about. `MemoryManager` implements `BlockStore`; `SJF`, `RoundRobin`
and `MLFL` implement `Processor` (`ImplementsProcessor`, a refinement mapping
from the records and the loop's phase).

Correspondence. A pass of the loop is `Tick`, then `Receive...` or `Refuse...`
once for each message, then one action of the algorithm, which contains all that
the function called does in that tick and the test for termination (`EndOfPass`).
The actions of an algorithm are the combinations of its branches: for example
`Round_Robin` is `KeepRunning` (no branch taken), `KeepAlone` (quantum over, no
other process), `Switch`, `FinishAndSwitch`, `FinishLast`, and `Idle` for the
branch of `main` that does not call it. Names are those of the code. The records
of the processes are the function `proc`; a node of a list is the number of its
process, since each process has one node (`NoneLost` states it) and copies of a
node replace the original. A list is the sequence of its processes, a circular
list the sequence from `front` to `rear`.

`RoundRobinLinked` adds the pointers: `ring` has `front`, `rear` and `Next`, whose
domain is the set of the nodes that were allocated and not freed, so that a read
through a dangling pointer would be an error of the run. Its operators are
`Insert_Circular_Queue` and `remove_From_Circular`, walk included.

`MLFL` has eleven levels and no separate buffer: `MultiLevel` declares ten queues
but is used with the index 10, and in the build of the Makefile (no optimisation)
that is the member behind the array, the buffer itself. Likewise `MemAllocLoop`
lets the read beyond `mem`, which a request of the whole memory causes, find
anything, `Read_file`'s fifth field, read into an array of four, is taken as the
build gives it back, and a list of one process has the NULL behind it that the
build finds there.

`Feed` and `Programs` are what `Scheduler` takes for inputs. A second of the clock
is `ClockTick`; the generator's loop is `Look` (another clock value) and `Send`
(`msgsnd`, which fails if the queue is full, and then gives up for this second); a
program is `Start` (`execv`, its first look at the clock), `CreateSemaphore` (the
second `SETVAL`), `CallDown` and `PassDown`. In `RoundRobinSystem` the scheduler's
steps are the actions of `RoundRobin`, joined with the other side of each exchange:
`Pass` reads the clock, `Reception` takes the head of the message queue and forks,
`Turns` finds the queue empty and makes the `up()` calls. So a process may arrive
between any two of the scheduler's steps, and a program may be anywhere.

`Shutdown` leaves the scheduling out but for what its end depends on: processes are
forked, refused memory or finish, and are counted, in SJF with the count of `SJF_Algo`
that is copied over the common one in each turn (`SJF_Algo`; the other algorithms add
to the common count, `OtherAlgo`). `pending` is the set of the processes a SIGINT is pending for;
the scheduler's loop is cut into the steps between which a signal makes a
difference (`Start`, `Fork`, `CreateSemaphore`, `Algorithm`, `Test`, `Write`, `Close`,
`Kill`), its handler into `Handle` and `RemoveAndExit`, or `HandleAtStart` while it
has no array of semaphores yet, the generator's into `SignalGroup` and
`ClearResources`; a child before `execv` is a copy of the
scheduler and has its handler (`HandleAsScheduler`). The handler removes what it
finds in its array of semaphores: the ones set, and anything where the array is not
set (`Removable`).

## 3. The runs

`system`, `mlfl`, `hpf`, `rr` and `shutdown` take one to two minutes with two workers, the
others less.

| run | shows |
|---|---|
| `memory` | `TypeOK`, `MemIsOwned`, `Disjoint`, `RefusedOnlyWhenFull`, and that the calls implement `BlockStore`, for the 32 blocks of the code |
| `memory_loop` | the loops return what `MemAlloc` says, from every state of the memory; the place returned has the fewest vacant places beside it (`TightestPlace`: what the search for a place "reserved from both sides", `op1`, `op2` and the last fallback add up to) |
| `sjf` | `NothingLost`, `Reports`, `ShortestFirst`, `ImplementsProcessor`, `EventuallyStops` unless a process was refused |
| `rr` | `NothingLostOnRing`, `Reports`, `BoundedWait` (between two turns a process waits at most a quantum of each other one), `ImplementsProcessor`, `EventuallyStops` |
| `hpf` | `NothingLost`, `Reports`, `HighestRuns`, `EventuallyStops` unless a process overruns |
| `mlfl` | `NothingLost`, `Reports`, `LevelTracksQuanta`, `LowestLevelFirst`, `ImplementsProcessor`, `EventuallyStops` |
| `system` | `KeepsSchedule`, `Synchronized`, `EventuallyStops` of all actors together |
| `shutdown` | `ResourcesCleared`, `OneSummary`, `EverybodyEnds` |

`NothingLost` says that the ready queue holds exactly the processes that have
memory and are not finished, that `curr_Proc` points into it (or, in SJF, is the
process that runs), that the flags of `mem` are those processes' blocks with no
block shared, and that the scheduler stops only when there are none left.
`NothingLostOnRing` adds that the pointers of the circular list go round exactly
that queue: no node is leaked, none is freed while something points to it.

`Reports` is what the output files say, with what the algorithm's `up()` calls are
good for. `Accounts`: every pass charged every process one tick, run or waited
(`Charged`), turnaround is running plus waiting time, the idle ticks are the ones
in which nothing ran, and the total of the waiting times has each process once.
The lines of a process in scheduler.log are started, stopped and resumed in turn,
finished (`LogTellsLife`). Ticks no pass saw, and the time before a late message,
are counted in the history variables `delay` and `missed`, so these equations are
exact. Where an algorithm deviates, its `Reports` says by how much:

* round robin executes `quanta = q` before `q` is read, so the first process may be
  stopped before it ran, and then has a second started line (`LogTellsRestarts`);
* HPF shares `P_state` and `startt` among all processes, so that a process started
  right after another one has no started line; what holds is that a stopped line
  follows a started or resumed one, that finished comes last, and that no line is
  doubled (`LogTellsStops`), but for a process that runs beyond its time
  (`hpf_overrun`): it was displaced with nothing left and hence without a stopped
  line, and may be resumed twice in a row, once.
  A process that comes to the front by a pop runs that tick without `up()`: its
  program is behind by at most the number of processes finished (`UpsExceptPops`);
* MLFL counts waiting on level 10 twice (left out of the equations for processes
  that came there), and never calls the last `up()` of a process
  (`UpsButLast`), so its program ends only at shutdown;
* SJF makes that call some passes later; `Lockstep` bounds the distance.

`KeepsSchedule` (run `system`) is what `Scheduler` assumes of its inputs: messages
come in the order of the file, and a pass finds none that is further from its arrival
time than the seconds that may be missed and one (here: a second before or after). `Synchronized` says that a program is never more than
one second ahead of the scheduler's count, and that once its process is finished no
`down()` it has left can block (`CanEnd`). It is checked for programs that have
created their semaphore before the scheduler's next pass (`PunctualPrograms`):
`process.c` sets the semaphore to 0 once more, and with a program that comes later
this erases an `up()` and `CanEnd` does not hold.

`OneSummary` says that scheduler.perf has one summary of the scheduler's own, although
its loop goes on after `kill(getppid(), SIGINT)` and its handler writes one too; none
only if the user's ^C came after the count had become complete and before the
scheduler wrote it, or before the scheduler was ready: the handler is installed first
(line 69), and until line 88 it finds both counts 0 and takes the work for done. A child that a signal finds before `execv` may add another
(`copied`). `ResourcesCleared` speaks of the semaphores the handler knows of; the
exact promise, that all are gone, is not kept: it removes eight.

`EverybodyEnds` says that nobody who is to be interrupted ends alone, and that everybody ends
without ^C once the work is done, that is when all processes are finished or refused. A process that
was refused memory has a program that waits for ever, which ends with the rest. The
exception is SJF: there a refusal is forgotten by the count (`RefusalIsForgotten`, run
`sjf_refusal`), nobody sends SIGINT when the work is done, and that program, like
everybody else, ends only by ^C.

Four runs show where the program does something else than its documentation or
its comments say:

* `hpf_overrun`: a process that ran its last tick just before an arrival of
  higher priority is not finished; it comes back to the front by the pop of that
  arrival, is decremented from 0 to -1 and from then on never finishes. The
  program does not end (`NoOverrun`).
* `sjf_refusal`: `SJF_Algo` overwrites the count to which the refusal of a
  process was added: the program does not end (`TerminatesWhenFinished`).
* `mlfl_buffer`: processes never return from level 10 to their first level
  (`ReturnsToInitialLevel`).
* `generator_missed`: the generator takes the first clock value it reads for one it
  has handled; a process that arrives then, and all behind it, are never sent
  (`EverySent`).

### Bounds

`MCMemoryManager` has the real 32 blocks, five sizes (1, 2, 4, 16 and 32
blocks), and four holders, taken as symmetric: enough for a place to have both
neighbours taken by different holders and for memory to run out. `MCMemAllocLoop`
has 16 blocks, so that every state of the memory can be an initial one; with
requests of two blocks there are eight places, hence each of the three cases of
the scan, and `op1` and `op2` in either order. The requests that go to
`get_first_place` are those of one block and of half the memory in every size
(16 of 32 in the code).

The scheduler's runs have a memory of eight blocks and requests of one or four,
three processes, so that a third request of four blocks is refused. With
`LastReceipt` all processes are received within two passes after the start (HPF:
four), each process with any of the running times, priorities and lags of the
configuration; running times are enough for two quanta and a rest (RR, MLFL), and
the priorities of MLFL put processes on level 8, which they leave for 9 and 10,
and on level 10. `MaxMissed` allows one missed tick anywhere. `Lags` is how late
a message may come: late in SJF, before the pass of its tick in RR. `MaxTime`
only cuts off behaviour after all the work could be done; where the program never
stops it bounds the state space, which is why deadlock is not checked in these
runs (the scheduler does stop, and `EventuallyStops` says that it must).

`MCRoundRobinSystem` has two processes that arrive in the same second or one after
the other, run one or two seconds, with a quantum of one, so that they interleave; a
request of one block or of all the memory, so that the second may be refused; and a queue
that holds both. Nobody misses a second there (`MaxMissed = 0`,
`PunctualGenerator`): missed seconds are in the runs of the algorithms, and
`generator_missed` shows what they do to the generator. All the work is done before
`MaxTime`. With less room than processes that arrive together the generator loses
some for the same reason as in `generator_missed`; the real queue holds some two
hundred.

`MCShutdown` has three processes and a handler that removes two semaphores (eight
in the code), so that one has a semaphore beyond the array, and one ^C at any moment
from the scheduler's line 69 on. Its `Modes` are SJF and round robin; HPF and MLFL count
as round robin does and would only repeat it.

### Fairness

`FairSpec` of the algorithms is weak fairness of `Next`: the clock ticks every
second, the loop polls without ever blocking (`IPC_NOWAIT`), and the generator
sends what it has. There is one actor, so nothing more is needed. In
`RoundRobinSystem` each actor has weak fairness of its own (the scheduler, the
clock, the generator, each program): they are processes of the operating system
and none of them waits for another but in `down()`, whose step is not enabled
meanwhile. That the generator sees every second (`PunctualGenerator`) is a bound on
its speed, not fairness: the code polls without sleeping and has a second for it. In
`Shutdown` each process has weak fairness as well and a pending signal is taken in
its process's next step; no fairness is given to the user's ^C, and none to the end
of a program, which may be waiting in `down()`.

## 4. What is proved

For every size of the memory, every set of requests that divide it
(`MemSizesAssumption`; sizes below 1024 bytes give powers of two), and every set
of holders, `MemoryManagerProofs` proves

* `TypeCorrect`, `FlagsAreOwned`, `BlocksAreExclusive`: `Spec => []TypeOK`,
  `[]MemIsOwned`, `[]Disjoint`;
* `RefusesOnlyWhenFull`: `Spec => []RefusedOnlyWhenFull`;
* `Refinement`: `Spec => ImplementsStore`.

The inductive invariant is `IInv == TypeOK /\ SizesKept /\ MemIsOwned /\ Disjoint`.
`Disjoint` alone is not inductive: that a new region is disjoint from the others
follows from its being free in `mem`, so `mem` must contain all that is owned
(`MemIsOwned`); and that freeing one region leaves the others' flags set follows
from `Disjoint` in turn. `SizesKept` is needed for the region freed to be one that
was reserved. The lemmas of `MainMemoryProofs` carry the argument about the
allocator: `Min` of a non-empty set of naturals is one of its elements (from the
well-foundedness of `<`), so whatever case `mem_alloc` takes it returns a vacant
place (`MemAllocIsVacant`), and a place is followed by a whole region inside the
memory because requests divide it (`PlacesAreInside`).

Of `MemAllocLoop` it proves that a step per place comes to the same as one step,
for every memory, whatever is taken in it, and whatever is read beyond its end:

* `CallTypeCorrect`, `LoopsReturnMemAlloc`: `CallSpec => []CallTypeOK`,
  `[]ReturnsMemAlloc`;
* `ChoosesTightestPlace`: `CallSpec => []TightestPlace`.

The invariant is `CallInv`: what the loop of `mem_alloc` knows of the places before
`j` (`Scanned`: whether one is vacant, that none is enclosed, which were the first with one
side taken), and what `get_first_place` knows of them and why it was called
(`Passed`). The read beyond `mem` is harmless because only a request of the whole
memory makes it (`WholeMemory`), and that has a single place. The place is tightest by
counting neighbours: an enclosed place has none that is vacant, one with a side
taken at most one, the first vacant place has no vacant left neighbour, and every
place that is not enclosed has at least one.

`ShutdownProofs` proves of `Shutdown`, for every number of processes and every
number of semaphores that the handler removes:

* `TypeCorrect`: `Spec => []TypeOK`;
* `ResourcesAreCleared`: `Spec => []ResourcesCleared`;
* `OneSummaryIsWritten`: `Spec => []OneSummary`.

Here the inductive invariant is
`IInv`, the conjunction of `TypeOK`, `Received`, `Counted`, `StartersAreCaught`,
`Cleared`, `SummaryInv` and `CountStaysComplete`. That no
semaphore the handler removed comes back needs `StartersAreCaught`: when the
scheduler is about to end, SIGINT is pending for every program that has not made
its semaphore yet, because one call signalled them all. It would not hold if the
scheduler could be signalled alone. `SummaryInv` follows the summary from the
loop's buffer, or the handler, into the file: an interruption before the files are
closed can only come from the user, since the generator hears of the end after
`fclose`. That the scheduler's further passes find the count complete again, and so its
handler writes no second summary, needs for SJF that the algorithm's own count is
complete when the test of line 279 succeeds (`CountStaysComplete`): the common count may
contain a refusal before `SJF_Algo` has run, but not after. The copies that children write are counted with the cardinality of a set,
hence the lemmas on `Copied`.

About the algorithms the following is proved for every number of processes, every
set of running times and priorities, every size of the memory with requests that
divide it, every quantum, and any lateness of the messages and number of missed
ticks (the named ASSUMEs of `MainMemory`, `Scheduler` and the module of the
algorithm, no others):

| theorem | SJF | HPF | round robin | MLFL |
|---|---|---|---|---|
| `TypeCorrect`: `Spec => []TypeOK` | x | x | x | x |
| `ReportsAreTrue`: `Spec => []Reports` | x | x | x | x |
| `NothingIsLost`: `Spec => []NothingLost` | x | x | x | x |
| `Refinement`: `Spec => ImplementsProcessor` | x | | x | x |
| the order of the algorithm | `ShortestRunsFirst` | `HighestAlwaysRuns` | `WaitsAreBounded` | `QuantaMakeLevels`, `LowestLevelRuns` |

All four start from the invariant of the shared loop, `SharedInv` of
`SchedulerProofs`: the types (`SharedTypeOK`), that a record is empty until its
process is received (`RecordsFilled`), that the blocks taken are those of the
processes which hold memory, disjointly (`MemoryIsOwned`), that the count does not
run ahead of those refused or finished (`CountIsOfDone`), and that a scheduler
that stopped left nobody behind (`StopsOnlyWhenDone`). The last one needs
`CountIsOfDone`: `finished_process_count` reaches `Count_OF_Processes` only if
everybody is done, which is an argument about cardinalities, since the program
compares two numbers and not two sets. `SchedulerProofs` then has one lemma for each
kind of step (the clock, a reception, a refusal, a turn in which nobody ends,
one in which a process ends), stated over what the step leaves alone in the records,
so that each algorithm only has to show that its branches are such steps. To
`SharedInv`, its own `TypeOK` and `NoneLost` each algorithm adds what its branches rely
on:

* SJF: `WorkLeft` (whoever holds memory has work left, hence no run below zero) and
  `OwnCountIsOfDone`: `process_count` is copied over the common count in the
  next pass, so it has to satisfy the same bound already;
* round robin: `OthersHaveWork`. Its current process may have no work left, for the
  end is noticed a pass later; that it is the only one is why a switch never picks
  a process that would run below zero;
* MLFL: `WorkLeft` and `QuantumLeft`, without which the quantum of the current
  process could be counted below 0;
* HPF: nothing more for these, but `NoneLost` has the list in the order of the
  priorities. A remaining time may become negative there (`hpf_overrun`), so
  nothing is claimed of it, and HPF does not implement `Processor`.

The refinement maps the phase of the loop, the processes that hold memory and
their remaining times to `open`, `resident` and `left` of `Processor`; each action of
the algorithm is shown to be one `Serve`, `Rest`, `Arrive` or `Begin`, or to stutter.
`ShortestRunsFirst` needs a second invariant, `OrderInv`: the list is ordered by
the priorities (`Sorted`), these are the running times, nobody on the list has run, and
who runs has; so the head of the list is a shortest one, and one who is half-way is the
current one. That an insertion and a pop keep a list in order is proved once
for both algorithms, over any rank (`InsertedInOrder`, `PoppedInOrder` of
`SchedulerProofs`), including HPF's rule that a newcomer of equal priority goes behind
the front.

`WaitsAreBounded` needs `WaitInv`, which counts the turns still to come: whoever is
`d` nodes behind the current process has waited for at most
`(received - d) * q - quanta` ticks (`TurnsToCome`). A newcomer enters behind `rear`, so it may
push a process one node back, but it also adds one to `received`; a switch and the end
of a process both bring everybody one node nearer and begin a quantum, and the lone
process that keeps the processor does not wait at all. The bound of `BoundedWait`
follows with `d >= 1`. That taking a node out keeps the order of the others is
`ElementsOfRemoved` of `SchedulerProofs`.

The two theorems on the levels of MLFL need `LevelInv`: a process on a level `i` above the last
has executed exactly `(i - Priority) * q` ticks and what it used of its current quantum;
on the last level, where it goes around, at least `(i - Priority) * q`. A process not
yet received has no time remaining (`NothingYet`), so it can neither be on a level nor
be charged. The level is then the quotient of the ticks by the quantum (`Quotient`,
`LevelIsRight`), which is how `LevelTracksQuanta` and `LowestLevelFirst` state it.

`ReportsAreTrue` has two more invariants in each algorithm. `Books` is about the
numbers. `Utilization` speaks of the time between passes only, so `Busy` of
`SchedulerProofs` says what holds during a pass as well; it adds `ExecutedIsNat`
(nobody ran before it was received, nobody gains time), without which the times could
not be summed. The sums themselves are folds over sets in an order that a CHOOSE picks;
`SumCountsUnits` shows that such a sum is the number of the pairs of a process and one of
its units, whatever the order, and from that follows what one more, or one changed,
summand does (`SumOfOneMore`, `SumOfOneChanged`). A turn is then put into one form for
all algorithms, who runs and who is ended (`ChargedAll`, `Ran`), and each branch shown
to be of it. `Lines` is about scheduler.log: the last line of a process
follows from its place in the queue and from whether it has run, so that the next
line is a possible one (`Tells`). For HPF this needs to know when the front and
`curr_Proc` may differ (`FrontInv`): only as long as the front has not run, or
`curr_Proc` has used up its time. `Pace` counts the `up()` calls there. In that proof
an earlier form of `LogTellsStops`, which allowed no line twice, turned out to be false in a
larger instance; now the run `hpf` has arrivals in so many passes that the case occurs.

`RoundRobinProofs` goes on to the modules built upon `RoundRobin`:

* `RingImplementsQueue`: `LinkedSpec => Spec`, the circular list of nodes and pointers
  makes no step that the queue does not make, so all of the above holds of it;
* `RingGoesRound`: `LinkedSpec => []NothingLostOnRing`;
* `SystemIsRoundRobin`: `SystemSpec => Spec`, the same for the scheduler of the
  composition, which gets its inputs from the other actors;
* `SystemTypeCorrect`: `SystemSpec => []SystemTypeOK`;
* `ScheduleIsKept`: `SystemSpec => []KeepsSchedule`, if the generator is punctual and
  `Lags` has the numbers from `-(MaxMissed + 1)` to `MaxMissed + 1`;
* `StaysSynchronized`: `SystemSpec => []Synchronized`, if the programs are punctual.

The ring (`RingInv`) goes `Around` the queue: `front` and `rear` are its ends,
`Next` leads from each process to the one behind it, and has no other nodes. The search
of `remove_From_Circular` is a recursive function; that it meets the queue in its order
(`SearchMeetsQueue`) is proved without induction over data: going round the queue solves
its equation, and there is a least place at which another solution could differ.

`ScheduleIsKept` rests on `TimesInv`: a punctual generator sends in the second of the
arrival time (`Sending => pg_follow = clk`); the queue was found empty at the end of the
last pass, so what a pass finds in it arrived since; and the clock has gone on by at
most the seconds that may be missed and one. It does not depend on the capacity of the
queue: when `msgsnd` fails nothing comes late, but nothing comes any more.

`StaysSynchronized` rests on `Paces`, which relates four counts: the scheduler's record,
its `up()` calls, the semaphore and the program's own count. `Round_Robin` calls
`up()` before it switches, so the tick of a switch is paid to the process that stops: the process that
runs may be one call short, the others one ahead. A program that makes its semaphore
after the first `up()` erases it (`Lost`). With punctual programs this happens
only in the pass that received the process, and only if `up()` went to it there, which
means that it entered an empty queue; and such a process is the one that has a
call too many. So no process lacks a call in the end, which is what `CanEnd` says.
With a slower program one may (section 3).

With that, every invariant that a passing run checks is a theorem, and every action
property and refinement. Only model-checked is all that must eventually happen
(`EventuallyStops`, `EverybodyEnds`): liveness under fairness is beyond the prover. The
four runs that end in a violation are counterexamples and need no proof.

## 5. Not modelled

* The pointer level of the lists other than the circular one: the priority list,
  the queues of MLFL and the list of the file are the sequences they represent.
* `initClk` (it is in the clock value the others start with), a SIGINT before the
  generator, the clock or the scheduler has installed its handler, and SIGUSR1, which
  nobody sends. (A SIGINT between the scheduler's `signal()` and its array is modelled.)
* The exits after a system call that failed (`fork`, `msgget`, `semget`, `semctl`,
  `shmget`, `execv`), but for `msgsnd` and `msgrcv` without waiting: they need the system to be out of
  resources, and the code only prints the error and leaves.
* What is documented but would need a property of its own: that in HPF a started line may
  be missing, and that MLFL counts waiting on level 10 twice. Both are in the models, and
  `Reports` leaves room for just these cases (section 3).
* What a run that was killed leaves behind for the next one: message queue, shared
  memory and semaphores outlive it, and the code does not handle it.
* Anything that needs more speed than the code has: programs that are slower than a
  second are outside `Synchronized` (see above).
* `total_WTA_time` (a float derived from the turnaround time), process ids, the
  wording of the files, and memory.log.
* `test_generator.c` (it gives the ranges of the constants), `test.c` (an older
  copy of the allocator), functions that nothing calls
  (`check_first_empty_location_if_odd`, `pushIntoQueue`), sample and binary files.

## 6. Plan

Done: memory first, because every process goes through it; then the shared loop
and the four algorithms with their abstract promise; the memory's theorems; the
circular list; the actors around the scheduler; shutdown and its theorems; the
theorems of each algorithm, of the loops of the allocator, of the circular list and of the
composition.

Left, in this order:

1. `Feed` and `Programs` with the other three algorithms, as with round robin: the
   argument of `ScheduleIsKept` is the same, that of `StaysSynchronized` is not.
2. The priority list and the queues of MLFL as nodes and pointers.
