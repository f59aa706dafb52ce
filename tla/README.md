# A verification project for the CS3SH3 programs

The repository holds the programming assignments and labs of an operating
systems course: small C programs, each of them a classic of concurrency, memory
management or resource scheduling. They share no code, so the project has one
group of modules for each program, or for two that do the same. This file says
what the programs are, which module models which, what TLC checks on small
instances, and what the TLA+ proof system proves for all sizes.

## The components

| Component | Source | State it keeps | Operations | What makes it correct |
|---|---|---|---|---|
| Virtual memory simulator, solution 1 | `Assignment_4/solution/Assignment4.c` | page table, frames and their pages, FIFO TLB, two ring indices, a fill counter, statistics | translate one address: TLB hit, page table hit, fault into a free frame, fault with replacement | the byte printed is a byte of the page asked for; the TLB is never stale; FIFO replacement; the statistics are those of demand paging |
| Virtual memory simulator, solution 2 | `Assignment_4/solution2/assignment4.c` | the same with one ring for free and replaced frames, and a TLB count | skip an invalid address, or translate it | the same; the program does not achieve it (see the findings) |
| Sleeping TA | `Assignment_3/solution/q1.c` | ring of chairs, counter, two indices, mutex, two semaphores | TA thread: look, nap, wait, help, post. Student thread: program, take a seat or try later, signal, wait | first come, first served; nobody in two chairs; no lost signal; no deadlock; every student is helped |
| Bank with semaphores | `Lab_3/solution/part2.c` | balance, mutex, two counting semaphores | deposit and withdraw, one thread each; main creates and joins | 0 <= balance <= 400 at all times, no lost update, termination when there is room |
| Bank with a mutex | `Lab_3/solution/part1.c` | balance, mutex | deposit and withdraw threads; main creates and joins, or exits | no lost update, termination |
| Multithreaded sum | `Lab_2/solution/PLthreads.c` | sum, mutex | two summing threads; main, which does not notice that one is missing | the sum is complete |
| Process tree | `Lab_2/solution/PLfork.c` | the tree of processes, the output buffer of each | print, fork, fork that fails, wait, return | PIDs in the order of creation, each parent outlives its children |
| Shell | `Assignment_2/solution/shell.c` | history ring, command buffer, children | read, `history`, `!!`, execute, background, reap | the last five commands, `!!` repeats the last one, no child left behind |
| Disk scheduling | `Assignment_5/assignment5.c` | arrays of one call | FCFS, SSTF, SCAN, C-SCAN, LOOK, C-LOOK | every request served, total movement right |
| Kernel modules `seconds`, `hello` | `Assignment_1/solution/seconds.c`, `newKernel`, `oldKernel` | start time, `completed` flag | load, read, unload | a session reads one line, right when it is read, and then the end of file |
| Fork examples, Lab 1, Lab 4, Lab 5, notes | | none or one expression | print, translate one address | not modelled, see below |

Within a program the parts interact through shared variables (the threads of
Assignment 3 and of Labs 2 and 3, the readers of Assignment 1), through calls
(the TLB, the page table and the memory of Assignment 4) or through processes
(Assignment 2, Lab 2). The hard
behaviour, line by line, is the list `hazards` of `PROJECT.json`.

## The modules

| Module | What it is |
|---|---|
| `DemandPaging` | abstract: FIFO demand paging without TLB, page table or frames |
| `MMUSolution1` | solution 1, complete; refines `DemandPaging` |
| `MMUSolution1Proofs` | its theorems |
| `RingLemmas` | arithmetic of ring indices and clocks that wrap, the first match of a search, queues; for all the proofs |
| `MMUSolution2` | solution 2, complete |
| `MMUSolution2Proofs` | theorems about what holds of it |
| `WaitingRoom` | abstract: a first come, first served hallway |
| `SleepingTA` | the TA and student threads; refines `WaitingRoom` |
| `SleepingTAProofs` | its theorems |
| `AtomicSum` | abstract: changes of one number that take effect at once |
| `BankSemaphores` | the bank account with semaphores; refines `AtomicSum` |
| `LockedSum` | the bank account with a mutex and the multithreaded sum; refines `AtomicSum` |
| `AtomicSumProofs` | the theorems of both: no update is lost; the balance and the capacity of the bank |
| `ProcessTree` | the nine processes of Lab 2 |
| `ProcessTreeProofs` | its theorems, for every tree |
| `ProcFile` | the kernel modules and the programs that read their files |
| `ProcFileProofs` | their theorems |
| `CommandLog` | abstract: a log of the last commands, `!!` and its listing |
| `Shell` | the shell; refines `CommandLog` |
| `ShellProofs` | its theorems |
| `DiskScheduling` | the six disk scheduling algorithms as operators |
| `MC...` | instances for TLC: sets of inputs; the numbers are in the `.cfg` files |

Operators whose comment begins with "Mutant" are what one definition would be
with a plausible bug in the code. No specification uses them; each property of
a passing run is violated when its mutant takes the place of the definition.

### The simulators (`MMUSolution1`, `MMUSolution2`)

The variables are the globals of the programs under their names. An address is
its page: the offset selects a byte within the page and nothing else. A frame
holds "the page its bytes came from", so that `out.byte = out.page` says that
the value printed is right. An action is one iteration of the loop over
`addresses.txt`, which is sequential; the four branches of the loop are the
four actions, each with every assignment the branch and its callees make. The
cast to `uint16_t` (solution 1) wraps a number beyond the address space, the
test for an invalid page (solution 2) skips it, a negative number included.
Solution 1's `total_addresses` is the position in the file; solution 2 skips
lines, and has `lines_read` for it.

`TLBCoherent` is the property of solution 1 that one would argue about:
`TLB_Update` overwrites the first entry of the replaced page and stops, and as
`TLB_Add` follows, a page can be in the TLB twice. `DuplicateIsRecent` is why
that does no harm: while a page is in the TLB twice, it was loaded after the
TLB index last passed either entry, and the page that is replaced is the one
loaded longest ago. It needs the TLB to be smaller than the memory
(`TLB_SIZE < NUM_FRAMES`, 16 and 128 in the code), which is an assumption of
the module. The assumption suffices, it is not sharp: TLC first finds a stale
entry with a TLB twice as large as the memory.

### The sleeping TA (`SleepingTA`)

One action is what a thread does between two points at which another can get
in its way; the comment at the head of the module says why the critical
section of a student is one. The TA holds the mutex while it sleeps for the
time of the help, so it is several actions. The chair is cleared before that
sleep (line 104), and `ta_available` begins with a permit nobody has earned, so a
student may be programming again while the TA still helps it; what holds is that it
takes no other chair before the help is over (`HelpedTakesNoSeat`), which rests on
the mutex and on `OneChairEach`. `helping` is the number the TA
prints (line 102), kept until the help ends. `-O0` code reads the shared
words afresh each time (the program is built with plain `gcc`, line 2), so the
unlocked reads of the counter and of the chairs see some current value.

Fairness. `WeakFairness` is that the operating system runs each thread that can
run. A POSIX mutex or semaphore does not promise to be fair, and `Spec` adds
strong fairness for the three blocking calls with competition (the mutex for
the TA and for a student, `ta_available` for a student): those who compete
sleep for random times between two attempts, so a thread passed over for ever
has probability zero. Weak fairness is not enough: with more students than chairs
the TA can be kept from the mutex by students who retry, and even with enough
chairs a student may be passed over at `ta_available`.

### The bank and the sum (`BankSemaphores`, `LockedSum`)

`amount += x` is a load and a store, in two actions, so that the mutex matters:
both modules are shown to implement `AtomicSum`, in which a change is one step.
In `BankSemaphores` `main` divides by the argument, and `sem_init` is given the
quotient as an unsigned number: a negative one is over `SEM_VALUE_MAX` and
refused, which leaves the static semaphore at zero. `EndsExactlyWhenThereIsRoom`
says for which amounts the program ends, and that for the others it never does.
A failing `pthread_create` makes `main` exit, and the process with it
(`"dead"`). `LockedSum` runs either of two programs, a record of what its
threads add and of whether `main` looks at the result of `pthread_create`. The
sum of Lab 2 does not: it goes on to join a thread whose number was never set,
which may kill it or print a part of the sum (`JoinMissing`); `"printed
without"` keeps that outcome apart from the sum of all. A summing thread works
on a part of a list nobody writes, so its local sum is the change it brings to
the lock. Weak fairness is enough in both modules, since every thread asks for
the mutex and each semaphore at most once.

### The process tree (`ProcessTree`)

The nesting of the `fork` calls is the constant `Kids`, given by `PLfork`; after
each fork the source has the same loop of `waitpid`, and after each failed fork
the process returns. The order of the output is that of the tree only because
every parent waits for a whole subtree before it forks the next
(`OutputInOrderOfCreation`). `printf` goes to a buffer that `fork` copies. On a
terminal the buffer is empty by then; into a file or a pipe the program writes a
PID again for every process below it, which `PidsPrinted` states exactly: 29 lines
and not nine when no fork fails. `Subtree` says which processes are below one as a
closure, without recursion, so that it can be reasoned about. The words "Fork
failed" are left out, as no fork follows them in the process that prints them.
Fairness is that the system runs every process that can run.

### The kernel modules (`ProcFile`)

`proc_read` runs on the processor of its caller and no lock is taken, so its
accesses to `completed` and to the clock are separate actions. `got`,
`loaded_at`, `since`, `line` and `clean` are kept to state the properties and
decide nothing. The kernel's part is external: what may be opened, that
`remove_proc_entry` waits for reads in progress, that later reads fail. Three
things follow from the single flag and the order in `proc_init`, and are why the
properties have their conditions. A program that opens the file between the two
reads of another, or after one that stopped at the line, may be given the end of
file at once and no line (`CleanSessionGetsOneLine` needs a clean start and no
company); two programs that take turns can keep the session of one of them from
ending (`SessionEndsWhenAlone`); a read between `proc_create` and the assignment
of `start_jiffies` prints a number that is not the time since loading
(`AnswersSecondsSinceLoading` is about all later reads, across unloading and
loading, too). Fairness is that a program that has the file open reads on.

### The shell (`Shell`)

A line is the sequence of the fields between its blanks, so that `"exit"` and
`"exit "` are different lines with the same tokens, as they are for the code.
`Cut` is what `strtok` leaves of a line in `commands`; it matters at the end of
the input, where `fgets` changes nothing and the loop takes the buffer for a
new line (`Fetch`). One iteration of the loop, from the line to the next
blocking call, is one action: the shell has one thread, and between `fgets` and
`waitpid` a child that ends changes nothing the shell looks at. The loop of
`cleanup_zombie_processes` is an action for each call of `waitpid`. `PIDS` is
the room the system has for processes, and `fork` may fail at any time.
`runs` is the line a child was started for, kept to state the properties.
`INT_MAX` bounds `total_command_count`: an increment beyond it is undefined in
C. Two literals of `print_history`, 5 and 4, are `HISTORY_SIZE` and one less.

Fairness is weak fairness of the calls that do not block: the user need not
type and no child need end, and `ZombiesAreReaped` is conditional on lines.

### Disk scheduling (`DiskScheduling`)

An algorithm is an operator with the record of what it prints; `Serve` is the
body that all their loops share. The fixed-size arrays are sequences; that
they are long enough is not modelled. `Next` runs the algorithms in
main's order. The references are independent of the code: bags for what is
served, closed forms in the outermost requests for the totals, and all
permutations of the requests for `LOOKIsShortest`.

## The runs

| Run | Instance | Shows |
|---|---|---|
| `mmu1` | 5 pages, 3 frames, 2 TLB entries, 9 addresses of 6 values | type, consistency of tables, TLB coherence, right answers, refinement of `DemandPaging` with its statistics |
| `mmu2` | the same sizes, 8 lines of 7 values (invalid and negative ones included) | what does hold of solution 2 |
| `mmu2_faulty_hit` | as `mmu2` | finding 1 |
| `ta` | 3 students, 2 chairs | ring, one chair each, semaphore accounting, a helped student stays out, no deadlock, refinement of `WaitingRoom` with its liveness, every visit ends |
| `bank` | 4 deposits, 2 withdrawals, limit 8, amounts -3, 0, 1, 3, 4, 5, 9 | bounds, conservation, refinement of `AtomicSum`, termination exactly when there is room |
| `locked_sum` | six threads with nine pairs of amounts; two threads with the list of the code and one of odd length | refinement of `AtomicSum`, termination |
| `tree` | the tree of the code, terminal or file, any fork failing | order and number of the PIDs, no orphan, termination |
| `proc_file` | 2 readers, both modules, 2 ticks a second, 4 values of the clock, 4 ticks | the time is right, when a session has its line, when it ends |
| `shell` | ring of 3, 3 arguments, 2 processes, 4 commands entered, 9 lines | the ring implements the log, the right commands are awaited, ended children are reaped |
| `shell_end_of_input` | the same | finding 2 |
| `disk` | 5 tracks, up to 4 requests, all heads, both directions | four algorithms serve every request, the circular ones what is away from the head, in circular order; totals agree with the references |
| `disk_request_at_head` | the same | finding 3 |

The bounds. Nine addresses on three frames fill the memory and take the ring of
frames round twice more, and the ring of the TLB up to four times; a duplicate
in the TLB appears after five. Everything that depends on the sizes is proved in
general for solution 1. Three students over two chairs are one too many, so the
hallway fills, `TryLater` happens, and both indices wrap at different times; the
state space is finite without any bound. In the bank the amounts cover a
capacity of 8, 2, 1 and 0, of which 2 is the smallest with room for all. The
simulators stop at the end of the file and the bank when the threads have ended
or hang, so their runs do not check for deadlock; the runs of the sleeping TA
do. `locked_sum` has the numbers of threads of the code, and amounts that are
equal, different and negative. The tree is that of the code. The tree and the
sum end and the file need not be opened, so these runs do not check for
deadlock. The clock of `proc_file` starts two ticks before it wraps and ends as
long after, so that a module loaded before is asked after; `MaxTicks` is the
only bound of that run, and two readers are enough for each pair of steps in
`proc_read` to have another reader's in between. Four commands on a ring of
three wrap the write index and reach both numbering formulas, before and after
the total passes the size; the lines reach the limit of arguments and go one
beyond. The shell may wait for a child that never ends, and the disk program
ends, so their runs do not check for deadlock. Four requests on five tracks
include duplicates, ties, requests at the head and at both ends, and sides with
none.

## Findings

1. Solution 2 answers from a stale TLB entry (`mmu2_faulty_hit`). `replace_page`
   calls `update_TLB` with the page that comes in, which has just been searched
   in vain; the entry of the page that goes out stays. `documentation.md` says
   (line 294) that the update is there to avoid faulty hits. The thousand
   addresses of the repository do not expose it.
2. At the end of the input the shell repeats the first word of the last command
   for ever, and records and counts it each time (`shell_end_of_input`).
3. C-SCAN and C-LOOK do not serve a request for the track on which the head
   stands (`disk_request_at_head`). `request.bin` has one, for track 100, and the
   expected outputs, which are for a head at 100, list it with the other 19
   (`outputLeft.txt` and `outputRight.txt`, lines 25 and 37). The program prints the
   initial head position first, and with that file this stands where the request
   would be; SCAN and LOOK print 100 twice (`sample1.txt`).

Other limits are stated by properties that hold and say how far they go. The
bank hangs for every amount over 100: with a capacity of less than four, the last
depositors wait for withdrawals that never come, and `main` never gets beyond
"Wait for all threads to finish" (line 59; `EndsExactlyWhenThereIsRoom`). C-SCAN
and C-LOOK serve all other requests, in the order of a head that goes round in a
circle (`CircularOrder`). The shell waits for a command of more than 15 tokens
although it ends in `&`, and in no other case (`AmpersandAwaitedOnlyBeyondArgs`);
and one whose 15th token is `&` it runs in the background, whatever follows
(`ForegroundIsAwaited` excepts commands of 16 tokens and more). The conditions of
the properties of `ProcessTree` and `ProcFile` are explained above.

Two limits have no property. In SCAN and C-SCAN an end of the disk and a full
file of 1000 requests, all on its side, are one entry more than the array has.
`PLthreads.c` does not look whether its two threads were created; what it prints
when one was not is a part of the sum, if the join of the missing thread returns
at all. The model ends apart then (`"printed without"`), and the refinement is
about the runs in which both exist.

## The proofs

What the runs check on an instance, the theorems state for all values of the
constants that satisfy the assumption named in the module. The proofs are of
the specifications without their fairness (`SafeSpec` where it has a name),
which safety does not need. Each specification has one inductive invariant,
`IndInv` (`SumInv` for `LockedSum`), which TLC has checked on the instance of the
run; each action has a lemma (`...Keeps...`) with one step per conjunct it can
disturb.

**Virtual memory, solution 1** (`MMUSolution1Proofs`, `SizeAssumption`): types,
`PagingConsistent`, `TLBCoherent`, `DuplicateIsRecent`,
`AnswersWithRightPage`. `IndInv` is the conjunction of the five:

- a TLB hit answers right because the entry agrees with the page table
  (`TLBCoherent`) and the page table with the memory (`PagingConsistent`);
- a miss means that the page has no entry at all, which again is
  `TLBCoherent` (an entry in use has a frame); so an addition creates no
  duplicate except together with the overwriting in `TLB_Update`;
- a replacement keeps `TLBCoherent` because the replaced page has at most one
  entry: its frame has the age `NUM_FRAMES - 1` (`FrameAges`), a duplicate's at
  most the age of an entry, which is below `TLB_SIZE` (`SlotAges`);
- ages grow together: an addition makes every other entry one older, a
  replacement every other frame (`NextIndex` of `RingLemmas` is the arithmetic).

From it follows the refinement `IsDemandPaging`. The abstract queue is read off
the ring of frames from `frame_index` on; a load appends to it, because the
index is 0 until the frames are full, and a replacement drops its head, because
index and queue move on together (`LoadQueues`, `ReplaceQueues`).

**Virtual memory, solution 2** (`MMUSolution2Proofs`): types,
`PagingConsistent`, `TLBUnique`, `ResidentPagesCachedRight`,
`WrongOnlyWhenEvicted`. That a wrong byte takes a replacement is not
inductive: the byte is read through an entry that may be much older.
`EntriesWereLoaded` carries the fact along with every entry, and `RingsCount`
ties the two indices to the counters from which the code knows that its rings
have come round.

**Sleeping TA** (`SleepingTAProofs`, `NumberAssumption`): types,
`HallwayIsRing`, `OneChairEach`, `SemaphoresAddUp`, `HelpedTakesNoSeat`, for any
number of students and chairs. None is inductive alone: the ring stays one only
because the TA never calls a student from an empty hallway, which it knows from a
semaphore; the semaphores keep within bounds only because of the number in the
hallway. `HelpInv` adds to `IndInv` who has the mutex between a lock and an
unlock, and that the helped student has no chair. `HelpedInOrder` is the
refinement of the safety part of `WaitingRoom`.

**Bank with semaphores** (`AtomicSumProofs`, `BankAssumption`): types,
`BalanceInBounds`, `CapacityConserved`, and the refinement of `AtomicSum`, for
any limit, argument and numbers of threads. The invariant counts the depositors
and the withdrawers at each place: what the semaphores allow is related to the
balance by the transactions on the way (`WithdrawalsAddUp`, `DepositsAddUp`,
`AmountAddsUp`). `PrintsOnlyWithRoom` is the safety half of
`EndsExactlyWhenThereIsRoom`: with less capacity the program never ends.

**Bank with a mutex and multithreaded sum** (`AtomicSumProofs`): `SumIsAtomic`,
the refinement of `AtomicSum`, for every number of threads and every change. The
bank and this program share the argument and the names of their variables, so
one module has both, `LockedSum` as the instance `Locked`; the hypothesis
`Locked!ProgramsOK` of the theorem is the assumption `SumAssumption` of
`LockedSum`, which TLC evaluates in the run. The invariant `SumInv` is that a
thread in its critical section has the mutex, and what it loaded is still the
number. So the store of `Unlock` is the abstract change, `Lock` is not seen, and
of the steps of `main` only the last one is.

**Process tree** (`ProcessTreeProofs`, `TreeAssumption`: every process but the
root is a child of one process, once): types, `NoOrphans`,
`OutputInOrderOfCreation` and `PidsPrinted`, for every tree and whichever forks
fail. `TreeInv` is about the processes, the rest of `IndInv` about the output.

- The living processes form a line from the root down, and only its end does
  anything (`OneAtTheEnd`, and from it `OneRuns`). This is inductive only
  together with `WaitsForAll` (a process that is not in its loop of `waitpid` has
  no child; `NoOrphans` is a case of it) and `LeftAreNotCreated` (what it forks
  next does not exist yet, so a fork makes the line one longer).
- On a terminal the newest process is the only one that may not have printed
  (`OutputFollows`): the others wait for it, so its PID is next in the order of
  creation.
- Into a file each living process has in its buffer the PIDs of those above it
  and, once it has printed, its own (`BufferHasAbove`): a fork copies the buffer
  of the parent, and those above the child are the child and those above its
  parent (`AboveChild`). So who ends writes each of these once, and a PID comes out as often
  as processes of its subtree have ended (`FileHasAbove`), a count of the
  positions of a sequence that `Return` makes longer by a whole buffer
  (`TimesAfter`).

**Kernel modules** (`ProcFileProofs`, `ProcAssumption`): types,
`AnswersSecondsSinceLoading`, `CleanSessionGetsOneLine`, for any number of
readers, tick rate and width of the clock. The proof follows a read from its
beginning (`ReadsTimed`) through the reading of the clock (`ClockRead`), with a
`start_jiffies` that does not change under it, because the module is reloaded
only when nobody has the file open (`ModuleOK`); `DifferenceOfReadings` of
`RingLemmas` says that the difference of two readings of a clock that wraps is
the time between them. `CleanSession` follows the flag along with the reader.

**Shell** (`ShellProofs`, `ShellAssumption`): types, `ForegroundIsAwaited`,
`AmpersandAwaitedOnlyBeyondArgs`, `StartsNewestCommand`, and the refinement of
`CommandLog`, for any size of the history and of `args` and any lines.
`CountersAgree` (the count follows the total and, until the ring is full, the
write index the count) is what makes the computed start the oldest command;
`OnlyCommandsKept` what makes `!!` enter what it runs; `WaitsForForeground`
relates the wait to what `get_args` found for the child. The general proof did
not go through for a first version of `ForegroundIsAwaited`, which said nothing
of the number of tokens and held on the instance of then: a command whose
`ARGUMENT_SIZE - 1`st token is `&` is run in the background. The property has
the condition now, and the instance such a line.

**A caution.** The SMT encoding of `Len` in version 1.4.5 of the proof system
takes every function to have a domain `1 .. n`. A leaf that mentions `Len` or
`Seq` next to a fact about an array on `0 .. n - 1` can be proved from the
contradiction. The proofs therefore keep the two apart: the queues read off a
ring have their sequence type in a definition that stays closed (`ResidentOK`,
`RecentOK`), and facts about their elements come from lemmas without `Len`
(`ResidentRing`, `RecentRing`); `SizesArePositive` leaves the lines out of
`ShellAssumption` for the same reason.

Model-checked only:

- liveness, which is out of the prover's reach: the liveness parts of
  `ImplementsWaitingRoom` and `EndsExactlyWhenThereIsRoom`, `EveryVisitEnds`,
  `ZombiesAreReaped`, `SumEnds`, `TreeEnds`, `SessionEndsWhenAlone`;
- the properties of `DiskScheduling`: its loops are folds over the requests,
  sorting and the nearest request included, and what a fold computes for every
  list is an induction over data.

## Not modelled

The fork examples of Lab 2 are course material of one call each. The kernel
modules of Lab 1 print a line and keep no state. Lab 4 is arithmetic on one
address and a sum of ten numbers, in a straight line, the second of which does
not compile; Lab 5 prints the fields of `stat`. The notes are text.
`solution2/Assignment4.c` is `solution2/assignment4.c` in another formatting.
Within the programs: the opening of files, usage messages, the wording of
output, and library calls that cannot fail as they are used.

## Plan

Every component listed as modelled is complete, and its safety is proved except
for the disk scheduling, which the last list of "The proofs" leaves to
the model checker with the liveness properties.
