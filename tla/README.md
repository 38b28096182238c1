# Formal models of se.kth.emibra.id1206

The repository holds the programs of an operating systems course: seminar
projects (`src/seminars`) and assignments (`src/assignments`), all in C. This
directory holds TLA+ models of their core logic, the TLC configurations that
check them, and proofs that TLAPS checks. `PROJECT.json` maps every definition
to the source lines it models.

## 1. Inventory

| Part | Source | State | Operations | What is hard |
|---|---|---|---|---|
| green threads | `seminars/sem3/green.c`, `green.h` | `running`, `ready_queue`, per thread `next`, `join`, `zombie`, `context`; per mutex `taken`, `susp`; per condition `num_susp`, `waiting` | create, yield, join, end of a thread, lock, unlock, wait, signal, timer handler | a signal handler that switches contexts in the middle of the library; one link field shared by all queues; stacks freed while in use |
| their programs | `seminars/sem3/vanilla.c`, `locks.c`, `cond.c`, `bench.c` | a shared counter, a turn flag | loops over lock/unlock, wait/signal | whether they end, whether an update is lost |
| buddy allocator | `seminars/sem2/buddy.c` | free lists per level, a header (status, level, links) per block | `balloc`, `bfree`, split, merge | coalescing with a buddy that is free but split; the links of a block in the wrong list; bounds |
| its benchmarks and tests | `seminars/sem2/bench.c`, `test.c`, `rand.c` | what they hold | allocate and free at random | none of their own |
| spin and futex locks | `assignments/ass 3 locks/peterson.c`, `swap.c`, `futex.c` | request flags and turn, a lock word, a counter | lock, unlock, `count++` | store buffers, a wake-up lost between test and sleep |
| locked sorted lists | `list.c`, `clist.c`, `slist.c` in the same directory | a linked list, one lock or a lock per cell | `toggle` | hand-over-hand locking, cells freed after their lock is left |
| page replacement | `assignments/ass swap/*.c` | page table, recency list, reference sequence | simulate with LRU, optimal, random | stale links after eviction, the look-ahead at the end of the sequence |
| first-fit malloc | `assignments/ass2/mhysa.c`, `mylloc.c`, `sbrk.c`, `bench.c` | a list of freed chunks, the break | `malloc`, `free`, `sbrk` | exhaustion, chunks of the wrong size handed out again |
| coroutines | `assignments/ass 3 switch/yield.c` | four contexts, `running`, done flags | `push`, `yield`, `done` | the return through `uc_link`, twice to the same function |
| pipe flow | `assignments/ping-ping-comm/flow.c` | a pipe | bursts of writes, paced reads | a full pipe blocks the producer, nobody closes it |
| joshua | `assignments/ass1/joshua/joshua.c`, `quote.c` | what is registered, an index into the quotes | init, exit, ioctl | concurrent ioctls, the error path of init |
| signals | `assignments/ass1/signals` | a counter or a flag | handler, wait loop | a loop that waits for one exact value, or looks at a copy |
| context switch measurement; `skynet.c`, `hal.c`; process, memory layout, TLB and boot demonstrations | `ass 3 switch/switch.c`, `ass1/skynet`, `module`, `dolly`, `stack-heap-rack`, `ass tlb`, `seminars/sem1` | none of their own | straight-line system calls, measurements, boot assembly | nothing a state machine would show |

The parts are independent programs; only the green threads and their programs
interact, by calls in one direction and context switches in the other. What
makes each part correct:

* green threads: a thread is in exactly one place from which it can continue;
  the mutex excludes; no wake-up is lost; `running` names the thread that runs;
  a join returns when, and only when, its thread has ended; every ready thread
  gets its turn; the process is lost only when the client blocked every thread.
* buddy allocator: blocks in use never overlap, a page is covered by its
  blocks, free buddies of equal size are joined, every block listed as free is
  marked free, everything freed gives everything back.
* locks: exclusion under the memory order the machine has; nobody is overtaken
  for ever, no thread sleeps on a free lock. Lists: each toggle is atomic, no
  freed cell is touched, no two threads wait for each other.
* page replacement: a page is present for each frame in use, LRU's list is in the
  order of the last use, optimal has as many hits as any policy could.
* malloc: chunks in use never overlap and are as large as asked for, no memory is
  lost, the heap stops growing.
* coroutines, pipe, signals: who waits is waiting for something that comes; the fourth
  answer of `signal.c` is its last.
  joshua: the index stays in the table; nothing is left behind by a failure.

## 2. Modules

| Module | Models |
|---|---|
| `GreenQueue` | the linked queues of `green.c` as operators on a heap: a record of head pointers and link fields |
| `Green` | the library: every function, the timer handler, and a client that may make any call |
| `GreenPrograms` | `vanilla.c`, `locks.c` and `cond.c` as clients of `Green`, with the `main` they share: create the threads in order, join them in order |
| `Scheduler` | what the library promises: threads that are ready, asleep or dead, and the moments at which they change |
| `GreenProofs` | theorems about `Green`, the implementation of `Scheduler` among them |
| `GreenProgramsProofs` | theorems about the programs, on those of the library |
| `MCGreen`, `MCGreenPrograms` | instances for TLC |
| `BuddyAddress` | the addresses of `buddy.c` and the arithmetic on them: buddy, split, primary, level |
| `Buddy` | the allocator: headers, free lists, pages, `balloc` and `bfree` in steps, and a client that calls them in any order |
| `Allocator` | what any allocator of aligned blocks promises its client |
| `BuddyProofs` | theorems about `Buddy`, the implementation of `Allocator` among them |
| `Locks` | `peterson.c`, `swap.c` and `futex.c` on processors with and without store buffers |
| `LocksProofs` | theorems about them: exclusion, the exact count, overtaking, sleepers |
| `SortedLists` | `list.c`, `clist.c` and `slist.c`: one list under two disciplines of locking |
| `AtomicToggle` | what `toggle` promises: a set, and one moment at which a value enters or leaves it |
| `SortedListsProofs` | theorems about the lists, the implementation of `AtomicToggle` among them |
| `Paging` | `lru.c`, `optimal.c`, `random.c` and `sabinas/random.c` replaying one sequence of references |
| `Heap` | `mhysa.c` and `mylloc.c` over the break of the C library or of `sbrk.c`, under the loop of `bench.c` |
| `Joshua` | `joshua.c` from loading to unloading, and processes of `quote.c` |
| `PagingProofs`, `HeapProofs`, `JoshuaProofs` | theorems about these three |
| `Flow`, `Coroutines`, `Signals` | `flow.c`; `yield.c`; `signal.c` and `wdytya.c` |
| `MCAssignments` | an instance of the six small programs |

### How Green corresponds to green.c

There is one CPU. `cur` is the thread whose stack it executes, `running` the
pointer variable of that name; the models keep them apart because the code can
only know the second. `frame[g]` is where the stack of `g` stands: in its own
code (`user`), or in a library function before a named statement, together with
the locals that matter (the thread being queued, the pointer of the walk in
`enqueue` or the thread taken by `dequeue`, the thread a join is about).

The functions that block `SIGVTALRM` (`green_mutex_lock`, `green_mutex_unlock`,
`green_cond_wait`) and the handler, which runs with its signal blocked, cannot
be interrupted. Each is one step from its beginning, or from where it continues
after a context switch, to its next context switch or its return. The others
(`green_create`, `green_yield`, `green_join`, `green_cond_signal` and the end of
`green_thread`) leave the timer running and take one step per statement; `Tick`
may happen between any two. One statement is one step, so two accesses within a
statement are not separated; the theorems do not depend on what is in the
queues, hence not on that choice.

`ctx[g]` stands for the `ucontext_t` of `g`: the stack whose present position it
holds, or `Null` when that stack has moved on since (or nothing was saved).
`swapcontext` and `setcontext` are library functions: they are modelled by what
the program relies on, saving the present position and continuing from another.

The process is lost when it dereferences a null pointer (`dequeue` of an empty
queue), saves into or continues from a freed or outdated context, or walks a
circular queue with the timer blocked. `fault` records which, and no action is
enabled afterwards. Configurations therefore say `CHECK_DEADLOCK FALSE` where
that can happen.

`Quiet` is the set of functions that no tick interrupts in an instance. The code
is `Quiet = {}`. With `Quiet` equal to all five exposed functions, the timer
still strikes at any point of the client's code, and what the library's own
algorithms achieve can be told apart from what the missing masking breaks.

The client is any sequence of the calls in `May`, subject to what the code takes
for granted: unlock, and wait with the mutex, only by its holder; lock, and the
end of a thread, only by a thread that does not have it; a join of a thread that
was created and is not the caller itself. A wait without the mutex is a call of a
thread that does not have it. The code tests none of this: `green_cond_wait(&cond, NULL)`
by the holder, which would sleep with the mutex taken, is excluded by this contract of
the model alone. There is one mutex and one condition.
A call that returns without changing anything (`green_join` of a zombie,
`green_cond_signal` without waiters) is not a step. A `green_t` is created once.

`Scheduler` knows nothing of queues, stacks and contexts. `Green` implements it with a
thread that is ready when it executes, lies on the ready queue, or is just being put
there or taken off (`Hand`); the sleepers of the mutex and of the condition are the
members of `susp` and `waiting`. The functions that block the timer take effect at once,
or at the switch that ends them. Of the others `green_create` takes effect when the new
thread is the one to be queued, `green_yield` at its switch, `green_cond_signal` when it
unhooks the first waiter, and `green_join` and the end of a thread at their switch, not
before: a thread that has registered itself in `join` is still the one that executes,
and the joiner that the end of a thread puts on the ready queue, in the line before the
thread is marked a zombie, sleeps until then (`Ready`, `PendingJoins`). That is what
makes the order of these two lines right or wrong, and a mutant in which the mark is
forgotten is found by the refinement.

### How Buddy corresponds to buddy.c

An address is a page and the set of the bits that are one in the offset of a
smallest block, so that the exclusive or of `buddy`, the or of `split` and the
mask of `primary` are operations on sets, and nothing limits the number of
levels. `mem.head` holds the `struct head` at each address; status `None` says
that no block starts there and the bytes belong to the block around it. Header
fields are never read from such an address, which is an invariant
(`BuddyHasHeader`) and a theorem.

The program has one thread. A call is one step up to the first call of `split_up`
or `merge`, and one step for each activation of these (`Bfree` is `magic` and `Insert`);
`call` holds their
arguments, and no other call begins before it is `Idle` again. The last lines of
`find` are the step in which the client gets its block. `held` remembers for what
size. The client frees what it holds, once; `workload`, the loop of `bench.c` and
the tests are among its behaviours, and `Prepare` is their `insert(new())`. It asks
for sizes that fit in a page, as all of these do (4000 bytes at most): `find` does
not look whether the level exists. `hide` and `magic` add and subtract the size of
the header and need no counterpart. A size of 0 returns at once and is no step.
`mmap` fails when all of `Pages` are in use, and the process ends; a failing
`munmap` of a mapped page is left out.

`find` reads `flists[LEVELS]` when it looks for a block to split and there is none.
Whatever is there, its loop ends with the same index, so the model says only that.

`Allocator` has one variable, the set of blocks in use with their size. `Buddy`
implements it with the blocks that are held and the level in their header.

### The programs of seminars/sem3

`GreenPrograms` puts the calls of the programs in the place of the arbitrary
client: `MainStep` is the next call of `main`, `pc` where each thread's function
stands. `shared_counter++` is a load and a store, between which a tick may come;
the test of `flag` and its assignment need no such division, since they are under
the mutex and no tick releases it. Loops are a few rounds long. `bench.c` times the
same loop as `locks.c` against pthreads; only its green half is meant here.

### How Locks corresponds to peterson.c, swap.c and futex.c

`program` says which of the three runs. Their locks are assignments to plain or
volatile variables, so a store is split in two: `Store` puts it into the buffer of
the thread's processor, `Flush` brings the oldest to memory, and `Loaded` finds the
thread's own stores first. That is the order x86 keeps; `volatile` asks the
compiler for no more. `__sync_val_compare_and_swap`, `futex` and the end of a
thread wait for the empty buffer (`Drained`). With `buffered = FALSE` every store is
in memory at once, as on one processor. The two tests of Peterson's loop are two
loads (`AskRequest`, `AskTurn`), `count++` is `Read` and `Write`. `FutexWait` compares
and sleeps in one step, as the kernel does, or comes back at once, as the kernel may (a
signal), while `Try`, `FutexWait` and `FutexWake`
are separate. `sched_yield` of `swap.c` has no effect the interleaving does not
have. `overtaken` is a history variable: how often the other thread got Peterson's
lock since this one asked for it.

`Ordered` is the premise of what is said of Peterson's algorithm: no store buffers.
With them both threads enter and additions are lost. No comment of the code
denies that, so it is a premise and not a finding.

### How SortedLists corresponds to list.c, clist.c and slist.c

`locking` says which discipline is used; a pthread mutex and a spin lock are both
the `holder` of a cell. Every lock and unlock is a step, and what a thread does
between two of them belongs to the step that follows: it reads and writes only cells
it has locked, which is an invariant (`UsesOwnCells`). `list.c` is divided at every
advance as well. `malloc` gives any unused cell, a freed one too, so that a thread
which went on using one would be found out; the code initialises its lock, which is nobody's already
in the model, since a cell is freed after its lock was left and none locks a freed one;
memory is large enough (`ListAssumption`). `bench` calls `toggle` with any value.

What is in the list is `Reached`, the least set of cells in use that contains `dummy`
and the successor of each of its members: the cells a walk along `next` comes to. As a
set, and not a recursion along the links, it can be reasoned about.

### How the six programs of MCAssignments correspond

* `Paging`: `seq` is made one reference at a time, then replayed with more and more
  frames, as `main` does; one reference is one step. The page table is the set of
  the pages that are present; the list of `lru.c` keeps `first`, `last` and both
  links, which survive an eviction. `Dist` is what the look-ahead of `optimal.c` finds.
  `random.c` draws a victim and then neither evicts it nor brings in the page that was
  asked for (`EvictRandom`).
* `Heap`: addresses are distances from the start of the heap. `Pick`, then `FirstFit`,
  `Extend` or `Exhausted`, are a round of `bench.c`. A chunk keeps the size it was made
  with. `sbrk.c` moves the break even when it refuses, and refuses with a null pointer.
  `bench.c` does a fixed number of rounds; in the model it may end after any number. The
  heap is scaled down so that it can be exhausted; with the sizes, rounds and heap of
  `bench.c` and `sbrk.c` as they stand it is not.
* `Joshua`: `joshua_init` is one step per registration, any of which may fail, and one
  step for each call that undoes one, as `joshua_exit` is (`Undo`, while the module is
  `unwinding` or `unloading`).
  `joshua_ioctl` is a load of `next`, a store, and, after `printk`, a second load;
  any number of processes are in it at once. The kernel opens no file of a module that
  is not loaded and unloads none that is open. `quote.c` compares the descriptor of a
  failed open with 1, not -1, and calls `ioctl` with it.
* `Flow`: a write or read of ten bytes is a unit; the pipe holds `CAPACITY` of them.
* `Coroutines`: `saved` holds the stack whose position a context has. A context that
  was resumed has no position until it is saved again; resuming it then would leave
  `stack` at `Nowhere`.
* `Signals`: signals that come while one is pending merge with it, and stay pending while
  the handler runs. The handler prints its line in one step and counts in the next.
  `signal.c` and `wdytya.c` tell their number before they install the handler, and a
  signal before that kills them. `cached` is the compiler's choice to load `done`, which
  is not `volatile`, once. Whoever sends the signals does so at any time, or (`paced`)
  sends the first ones each when the line of the last was printed, and no more than the
  program waits for. A line is taken to be seen when it is printed, as on a terminal.

## 3. Runs

| Run | Instance | Shows |
|---|---|---|
| `green_compete` | Main and three threads; create, join, yield, end, lock, unlock; quiet library | the mutex excludes, no wake-up is lost although unlock moves only one thread |
| `green_live` | Main and two threads, one of which waits and the others signal, with the mutex or without; create, join, yield, end, lock, unlock; quiet library; fair | nobody is lost or queued twice, `num_susp` is the length of `waiting`, the process dies only of a deadlock of its client; every ready thread runs, every join of an ended thread returns; `Green` implements `Scheduler` |
| `green_interrupted` | Main and two threads; create, join, yield and end interrupted at every statement | types, `running` and the contexts stay consistent, whatever happens to the queues |
| `green_programs` | `vanilla.c` and `locks.c` with three threads and two rounds, `cond.c` with two threads and three rounds; quiet library | no addition is lost, turns are taken in order, the programs end |
| `buddy` | two pages of three levels, one of which may be kept; an arbitrary client | the blocks tile the pages, the buddy is always a block, held blocks stay marked and are large enough, the lists are linked in both directions and hold every free block and no other, buddies marked free have been joined, idle pages do not pile up; `Buddy` implements `Allocator` |
| `locks` | two threads, two additions each, all three locks, with and without store buffers | exclusion and the exact count, at most one overtaking with Peterson's algorithm, nobody asleep on a free word, all end |
| `lists` | two threads, two calls each, three values, both disciplines of locking | the list stays sorted and no memory is lost, nobody relies on a cell that is not locked or is free, every toggle is atomic, all calls return |
| `assignments` | the six small programs, one at a time | LRU's list is in order of use, the frames are filled, optimal has the most hits possible; the heap is intact and stops growing; the device is sound; the coroutines and the pipe come to their end; four answered signals end `signal.c` |
| `green_ring3` | `cond.c` as it is, three threads | **violated**: the program need not end, the waiting list becomes circular |
| `green_join_lost` | ticks inside `green_join` only | **violated**: a join of an ended thread need not return |
| `buddy_whole` | a page of three levels | **violated**: with everything given back a page may stay split, because a block whose buddy is free but split is linked while marked Taken |
| `heap_exhausted` | `mhysa.c` over `sbrk.c` | **violated**: an exhausted heap is not reported; the null pointer of `sbrk.c` is taken for memory, because `mhysa.c` looks for -1 (a defect of the two library files: `bench.c` as it stands does not exhaust its heap) |

### Why the instances are large enough

Green threads. A queue of two threads beside the running one is the smallest in
which order, the walk of `enqueue` and the difference between the head and the last
show; `green_compete` has three. A thread that barges in between an unlock and the
woken thread needs three threads at the mutex. `MaxSusp` bounds the calls of wait
and signal by the value of `num_susp`, which interrupted signals could otherwise
drive down without end; it is above the number of threads that can wait wherever the
library is quiet. Only one thread may wait in `green_live`: with two waiters a signal
makes both ready and what follows is the finding of `green_ring3`. For the same
reason `green_programs` has two of the three threads of `cond.c`. `AnyOrder` is sound
where it is used, in runs without liveness properties: nothing but the choice of the
client tells the threads apart.

Allocator. Three levels are the least in which a buddy can be free and split, and in
which a merge can go on, or stop half way. Two pages give lists with blocks of
several pages, and a list of three or more has a middle. A page is given back by
merge and by insert only when there are more than `MAX_PAGES`, which is 1. `Sizes`
asks for the first three levels, with a size on either side of a boundary (8 bytes
fill a block of 32 with its header, 40 one of 64, 41 need the next). `MIN` and
`HEADER` have the values of the code.

Locks. The programs have two threads. A second addition is the first that can find
the traces of an earlier one: a request, a turn or a store that is still on its way.
Lists. Two threads meet in every pair of positions of a list with three values, on
neighbours and on one and the same cell; the second call of each finds cells that
the first call of the other has freed. A third thread would multiply the half million
states that these have.

The small programs share no state, so one run with a variable `started` explores each
of them alone; a fault in one cannot hide another, and every property names the
program it is about or is about its variables only.
`PAGES` and `SAMPLES` are 4, so that the simulators run with one frame to four; six
references to four pages fill three frames, evict twice and come back to an evicted
page. `MAX_HEAP` is 25: three positions and two sizes (chunks of 5 and 7 bytes with
the header) reuse a chunk that is too large, and exhaust the heap. Three processes of
`quote.c` and three quotes wrap the index while another handler holds the old one. A
pipe of two units is full and empty several times in six. Six signals are two more
than `signal.c` waits for, so that a sender who does not wait for answers may send
too many, and may have them merge to too few.

`CHECK_DEADLOCK FALSE` is said where the system may stop: in `Green`, when the
process is lost or its client has blocked every thread; in `MCAssignments`, whose
programs end.

### Fairness

`green_live` and `green_join_lost` assume weak fairness of the
statements of the library (the CPU executes them) and strong fairness of `Tick`:
the interval timer of `init` is periodic, and a signal that arrives while
blocked stays pending and is delivered the moment it is unblocked, so that a
thread which leaves the mask again and again is struck. The client is not
assumed to call anything. The programs of `GreenPrograms` are assumed to get on with
their work (weak fairness of all steps but the tick), and nothing is assumed of the
timer: they are few and end, however often and wherever it strikes.

`Locks` and `SortedLists` assume weak fairness of each thread, that is, that the
system schedules it, and `Locks` of each store buffer. A lock that is free again and
again, and taken by the other thread every time, is not promised to anybody; the
programs end because each thread wants it finitely often.

`Flow` and `Coroutines` are run by the system; `Signals` assumes that its program runs
and that a pending signal is delivered, and not that anybody sends one. `Paging`,
`Heap` and `Joshua` have no liveness property.

Starvation at the mutex of `green.c` is possible and no property denies it: a thread
that unlocks and locks in a loop may always be first.

### What the code does and no property says

* Peterson's algorithm fails with store buffers (see `Ordered`).
* Signals sent to `signal.c` without waiting for its answers may carry the count past 4
  before the loop looks, and it then waits for good; `wdytya.c` may be compiled to look at
  a copy of `done` for ever; a signal before the handler is there kills either. The model
  does all three, and no comment denies them. What is checked is the use `signal.c`
  invites: `FourAnswersEnd`, a sender who waits for each answer and has four. It would
  fail if `count` were not `volatile` either, which is its mutant.
* With ticks inside `enqueue` a ready thread need not come round: `ReadyRuns` is checked
  with a quiet library only.
* Two `ioctl`s of joshua at once may give the same quote and lose an advance.
* `random.c` is not random replacement: once the frames are full, what is present never
  changes. Its output cannot tell.
* With fewer pages than `SAMPLES` the increment of the simulators is 0: `lru.c` stops at
  its assertion, the loop of the others never ends. The instance has as many as samples.
* `main` of `peterson.c` passes the address of an `int` to `pthread_join`, which stores a
  pointer there; what it overwrites depends on the frame and is not modelled.
* The stack of a green thread is freed while the thread still runs on it; a tick in that
  moment saves into freed memory (`fault`).

## 4. Proofs

`GreenProofs` proves of `Green`, in its first part, for every set of threads, every
client, every `Quiet` and every bound:

* `TypeCorrect`: `Spec => []TypeOK`;
* `ContextsCorrect`: `Spec => [](RunningIsCurrent /\ ContextsMatch)`;
* `MutexExcludes`: `Spec => []MutualExclusion`.

The first two follow from one inductive invariant, `IInv`. `RunningIsCurrent`
(the pointer `running` names the thread in execution, or the next one between
`running = next` and the switch) is not inductive: when a context is loaded, the
stack it holds must be the one that belongs there, which is `ContextsMatch`. A
tick between `running = next` and the switch saves the position of the old
thread in the context of the new one; so `ContextsMatch` assigns a stack that
stands there to that context. `ItemIsSelf` says that yield and join switch away
from the thread that called them. `SwitchOutStep` carries the argument for every
switch with the timer blocked, `SwitchContextStep` for the exposed ones. The only
assumptions are the named ones on the constants (`NullAssumption`,
`GreenAssumption`).

`MutualExclusion` is inductive as it stands. It does not mention the queues: the
mutex excludes even in executions that the timer has ruined, as long as they
last.

The second part is about the queues, and proves for every set of threads and every bound
that `Spec` of an `Orderly` client implies

* `NobodyLost`, `WakeupsKept`, `WaitersCounted`, `DiesOfDeadlock`: `[]P` for `P` each of
  `NoThreadLost`, `NoLostWakeup`, `NumSuspCounts`, `CrashOnlyOnDeadlock`;
* `JoinsEnd`: `JoinMeansDone`;
* `SchedulerImplemented`: `ImplementsScheduler`;

and, of a client that moreover satisfies `LockOrJoin`,

* `NeverLost`: `[]Alive`.

`Orderly` is a contract for the caller, and less than what `green.c` invites: the timer
strikes between two calls or at the end of those that block it, never inside create,
yield, join, signal or the end of a thread (`Quiet = Exposed`); one thread joins, one
waits. None of the three can be dropped as the code is: a tick inside `enqueue` or
`dequeue` finds a queue half changed, and one inside `green_join` lets the thread end
unseen (`green_join_lost`); the second joiner of a thread replaces the first; and
`green_cond_signal` queues the waiter it wakes with its link to the next waiter, which is
thereby both ready and waiting. Without any one of them TLC finds `NoThreadLost` violated
with three threads. The instances of `green_compete` and `green_live` are `Orderly`; so
are `vanilla.c` and `locks.c` but for the timer (see `Counting` below), and `cond.c`,
where several threads wait, is not.

The inductive invariant is `GInv`, which is `Sched` while the process is alive. `Sound`
says that each queue ends, that no two have a thread in common, that a thread is behind
at most one other, and that one in no queue has no successor: `EnqueueSound`,
`DequeueSound` and `MoveSound` show that this, and exactly the expected change of the
members, is what `enqueue`, `dequeue` and the hand-over of `green_cond_wait` do. They
need no induction along the links, because `Members` is the least closed set and a
subset that is shown closed holds it all (`ChainLeast`). The functions that leave the
timer on take a step per statement, so that the invariant also says what the executing
thread has in hand (`Hand`) and what it has found so far (`Standing`); `Settled` is the
queues as they will be when `dequeue` has cleared the link it is about to clear.
`Placement` and `OnePlace` then say where every thread is, `JoinKept` what a joiner waits
for, `Resumable` that the context of whoever is not executing is its own, `Endings` that
nobody is freed before its time, `SomebodyLooks` is `NoLostWakeup` inside the functions
too, and `Counted` is `NumSuspCounts` between the two statements of a signal. `LocalStep`
carries the steps that stay on one stack, `SwitchedSched` all those that change it, and
`DeadlockStep` the null pointer of an empty ready queue.

The refinement needs a little more than `GInv`, and `Roles` is all of it: the mutex is
taken exactly while somebody has it, its holder is not one of those who sleep on it or on
the condition, and the thread in `join` of one that is ending waits for that one. `Where`
then reads the places of `Scheduler` off the queues: `Ready`, `Sleeping`, `PendingJoins`
and `Dead` after a step follow from what the step did to the members of the queues, which
is known from `EnqueueSound`, `DequeueSound` and `MoveSound`. Most steps of the library
leave all places as they are, since a thread goes from a hand to a queue or back;
the proof has a lemma for each step that does not. When the process is
lost, `CrashOnlyOnDeadlock` gives the guard of `Halt`.

`LockOrJoin` says that nobody waits on the condition and that whoever joins does not lock.
Such a client cannot block everybody: if the mutex is taken, its holder is not the joiner,
does not sleep and is ready; if it is free, `NoLostWakeup` gives a thread that is ready to
look at it, or nobody sleeps there, and then only the joiner can be away, waiting for a
thread that is still alive and not away itself. So a `dequeue` always finds a thread
(`DequeueFinds`), and that is the only way to lose the process that `DiesOfDeadlock` has
left. What the client may not do is needed: with `"lock"` for the joiner, it may hold the
mutex while it waits for a thread that wants it.

`BuddyProofs` proves of `Buddy`, for every number of pages and levels, every set of
sizes that fit and every `MAX_PAGES`:

* `TypeCorrect`, `PagesTiled`, `BuddiesHaveHeaders`, `HeldBlocksIntact`,
  `ListsCorrect` and `NoBlockLost`: `Spec => []P` for `P` each of `TypeOK`, `Tiled`,
  `BuddyHasHeader`, `HeldIntact`, `ListsLinked`, `NothingLost`;
* `BuddiesAreJoined`: `Spec => []MarkedBuddiesJoined`;
* `IdlePagesReturned`: `Spec => []PagesKept`;
* `Implements`: `Spec => ImplementsAllocator`.

The inductive invariant `IInv` says that the blocks are aligned, tile the mapped
pages, and are held, in hand or listed; that the links agree in both directions
and stay on a level; that every listed block can be found from the heads; and that a
call in progress has its block (`CallOK`). That no list is circular needs no induction
along the links: `NothingLost` says that a set which holds the first blocks and the
successors of its members holds all, and unlinking or linking one block carries such a
set of the new lists over to the old ones (`UnlinkFinds`, `LinkFinds`). That merge may unlink a buddy because it is marked `Free` follows
from held blocks being marked `Taken`; that it may read the buddy at all, from the
tiling (`BuddyIsBlock`): an address one bit away from an aligned block is the start
of a block or inside one that would contain both. `JoinHalves` and `SplitHalves`
carry the arithmetic. `LevelOfFits` needs a least level and takes it from the
well-foundedness of the naturals. For the refinement every step also keeps the
level of blocks that stay held (`HeldKept`). The assumptions are
`AddressAssumption`, `SizesFit` and `BuddyAssumption`.

`LocksProofs` proves of `Locks`, for every number of additions:

* `LocksExclude`: `Spec => []Exclusion`;
* `NoSleeperForgotten`: `Spec => []NoSleepOnFree`;
* `OvertakenOnce`: `Spec => []BoundedOvertaking`;
* `LocksCount`: `Spec => []CountExact`.

For `swap.c` and `futex.c` the difficulty is the plain store of `unlock`: the thread has
left its section while the word in memory is still 1 because the store is on its way.
The invariant `OneHolder` counts a thread as the holder until then (`Holds`), and says
that the word is 1 as long as somebody is, that the store to the word is the last in
its buffer, and that a thread in its section has none on the way; the swap that waits
for the empty buffer (`TryHolds`) and the store that arrives (`FlushHolds`) rest on
that. For `peterson.c`, without buffers, `TurnGiven` says that a thread past its first
statement has its request set, and that one which asks while the other has the lock
has given the turn away.

`SleepInv` says where a store to the word can come from in `futex.c`: a thread whose
store is on its way stands before `futex_wake`, which waits for the empty buffer. So
when the word becomes 0 its wake-up is still to come. `OvertakeInv` adds to the bound
that of two threads that ask, the one which has not got the turn was not overtaken.
`CountInv` counts the additions made (`Added`): a store to `count` that is on its way
carries that number and belongs to the holder, and when there is none the number is in
memory. A holder that leaves with its store to `count` in the buffer still `Holds`,
since the store to the word is behind it; whoever enters next finds the count
in memory. The only assumption is `IncAssumption`.

`GreenProgramsProofs` proves of `GreenPrograms`, for any number of threads and rounds,
every `Quiet` and every timer:

* `CounterIsExact`: `ProgramsSpec => []CounterExact`;
* `TurnsInOrder`: `ProgramsSpec => []InTurn`;

and of `vanilla.c` and `locks.c` alone, with a timer that leaves the library alone
(`Counting`),

* `CountingNeverLost`: `ProgramsSpec => []Alive`;
* `CountingScheduled`: `ProgramsSpec => ImplementsScheduler`.

Both extend the invariants of `GreenProofs` (every step of the programs is one of the
library, or of its client). `Inside` joins the two levels: a thread that stands between
its lock and its unlock, and is not suspended in a lock or a wait, is the holder of the
mutex. With `MutualExclusion` this leaves one thread that can touch the counter or the
flag. `CountInv` adds that what a thread has loaded is still the counter when it
stores; `TurnInv`, that the threads before `flag` have passed the turn on once more than
those behind it. Neither speaks of the queues: interrupted programs may hang, but what
they have done is right. The number of additions is the number of elements of
`Additions`, the pairs of a thread and a round it has counted off. Besides the
assumptions of `Green`, which has finitely many threads, `ProgramsAssumption` says that
`main` creates each thread once. The last two theorems rest on `CountingUsesLibrary`:
every step of these two programs is one of `Spec` with a client whose `main` creates and
joins and whose threads lock, unlock and end, which is `Orderly` and `LockOrJoin`.
`ProgramsSpec` makes its calls itself and does not look at `May`, so that to give `May`
this value in `Counting` restricts nothing.

`SortedListsProofs` proves of `SortedLists`, for any number of threads, calls, values
and cells and both disciplines:

* `ListStaysIntact`: `Spec => []ListIntact`;
* `OwnCellsOnly`: `Spec => []UsesOwnCells`;
* `ToggleIsAtomic`: `Spec => ImplementsAtomicToggle`.

`ListInv` does not follow the links. It says that the cells that should be in the list
(`Linked`: in use, and not about to be freed) each point to the one with the next
larger value (`Ordered`), that a removed cell is in one thread's hands (`Removal`), that
a thread has the locks of its place (`Owns`) and that its two cells are neighbours with
the value it seeks behind the first (`Placed`). That these cells are the list
(`Reached`) is a lemma: a closed set that missed one would miss a least one, and that
one's predecessor points to it. The proofs of the steps rest on `OthersElsewhere`: a
thread between two cells it has locked is alone there, so what it links or unlinks
changes nobody's place. In the refinement the set is the values of `Linked`, and a call
takes effect at the step that links or unlinks. `ListAssumption` says that
there are cells enough and that `dummy`, `sentinel` and `Null` are distinct from them,
from the threads and from the values.

`HeapProofs` proves of `Heap`, for any number of positions, any finite set of sizes,
both allocators and both breaks:

* `MemoryIsIntact`: `HeapSpec => []HeapIntact`;
* `HeapStopsGrowing`: `HeapSpec => []GrowthBounded`.

`HeapInv` says that chunks lie one behind the other below the break (`Laid`), that
positions have chunks of their own that are large enough (`Served`), and that with
`mhysa.c` a chunk is held or listed, once (`Kept`). `HeapStopsGrowing` is a pigeon-hole
argument: a new chunk is made only when no listed one is large enough, so all chunks of
that size are held, by other positions than the one that asks.

`PagingProofs` proves of `Paging`, for any number of pages and references and any
sequence:

* `ListInOrderOfUse`: `PagingSpec => []Recency`;
* `FramesAreFilled`: `PagingSpec => []FramesFilled`, for `PAGES >= SAMPLES`.

`Chained` says what `Recency` does in the terms of the code: `first` is the oldest page
and `last` the youngest, and each page but `last` is linked in both directions to the
next younger one, where the age is the last use. Pages that are not present are not
mentioned, so that their stale links cannot matter. The hypothesis of the second
theorem is what all programs define (100 pages, 20 samples); with fewer pages than
samples the increment of the frames is 0, and `optimal.c` would replace a page in no
frames (see above).

`JoshuaProofs` proves of `Joshua`, for any number of processes and quotes:

* `DeviceIsSound`: `JoshuaSpec => []DeviceSound`.

Its `DeviceInv` says that what is registered is always the first few of the
registrations in their order, so that the unwinding in `joshua_init` and `joshua_exit`,
call by call from the last to the first, leaves nothing behind; that is part of
`DeviceSound` too.

Checked by TLC only:

* `OptimalIsBest`, which compares with a recursive function over all ways to replace
  pages: such a result cannot be proved here for every sequence, which would take an
  induction over it;
* of the small programs `PipeDrained`, `YieldFinishes` and `FourAnswersEnd`, which are
  or rest on liveness;
* liveness, which the prover does not do.

## 5. Plan

Every item of the plan is done. What could follow, in the order of its worth:

1. `OptimalIsBest` for every sequence, with a prover that does induction over data.
2. The theorems on the queues with several joiners, each of a thread of its own. The
   library allows that; `Orderly` excludes it together with two joiners of one thread.
3. `cond.c` with three threads, once `green_cond_signal` clears the link of the thread it
   wakes.

### Not modelled

* `ass 3 switch/switch.c` switches between two contexts for the time it takes;
  `skynet.c` and `hal.c` register a `/proc` file, or nothing, and print; `zero.c` and
  `forbidden.c` die of the one signal they raise. They keep no state.
* The demonstrations of processes (`dolly`), of memory layout and of the TLB are
  straight-line calls that print what the kernel or the hardware does.
* The boot assembly (`seminars/sem1`) is executed once.
* The measuring and printing parts of the benchmarks, the pthread half of the `bench.c`
  of `sem3`, and the distributions of sizes and references: the models take any.
* `test.c.old` of `sem3` does what `locks.c` and `vanilla.c` do; its other tests are
  commented out. `sabinas/optimal.c` does not compile.
