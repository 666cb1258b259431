# libam in TLA+

libam is a C library of containers and services for threaded programs. This
directory holds TLA+ models of the parts of it that are hard to get right, the
TLC configurations that check them on small instances, and proofs, for every
instance, about the containers, the thread pool, the logger, the memory pools, the
string hash, the statistics, the descriptors, the clock, the options, the stream, and
what the test programs do with threads of their own. Line numbers refer to
`src/src/*.c` and `src/include/libam/*.h`.

## The system

| Component | State | Operations | What makes it hard | What makes it correct |
|---|---|---|---|---|
| array stack, `libam_stack.c` | `size`, `data[]` | push, pop, get_size | claims a slot by a swap of `size`, fills or empties it later by another; several threads may hold one slot | no pointer lost or doubled, refusals are honest, spins end |
| linked stack, `libam_lstack.c` | `head`, `size`, a consumers' spinlock, `next` of the nodes | push, pop | pushes take no lock; the ABA tale of lines 58-72 | the chain is the stack; pushes never wait for consumers |
| circular queue, `libam_cqueue.c` | `head`, `tail`, `data[]`, a readers' spinlock | enq, deq | nothing checks for a full ring; slots are filled out of order; consumers a lap apart | order by claims, nothing lost within the capacity, the lock is not held across a wait |
| spinlock and atomics | a word | lock, unlock | part of the two above | |
| thread pool, `libam_thread_pool.c` | counters, settings, drain signal, a stack of tasks | create, run, setters, destroy; the worker function | every counter is updated on its own; threads stop for idleness as tasks arrive | counters tell the truth, the cap holds, an accepted task is executed once, nothing runs after the free |
| logger, `libam_log.c` | sinks, two read-write locks, a log thread with two circular queues | register, unregister, level, mask, message, init, term | messages go directly or through a thread that comes and goes | lines are conserved, messages delivered once and in order, sinks outlive their use |
| string hash, `libam_strhash.c` | buckets, entries, spare entries, counts, flags, a lock | insert, find, remove, remove_key, set value, term | resizes, reuse, failing allocations | it is a map; counts and values are conserved |
| trees, `libam_tree.c`, `libam_itree.c` | linked nodes with balances, an ordered list | insert, find, delete, swap | rebalancing after deletions | search order, balances, parents, list |
| memory pools, `libam_pool.c` | pools in a hierarchy, buckets with lists of chunks, marks, sizes | alloc, realloc, free, pool_alloc, pool_free, diagnostics | work done after the bucket is unlocked | chunks conserved, sizes agree |
| periodic clock, `libam_time.c` | a handle: time, drift, period, flags; its thread | start, stop with and without blocking, setters, getters | nothing is locked; who frees the handle depends on the kind of stop | the handle is freed once and, but for one line, not used after it |
| statistics, `libam_stats.h` | extremes, sum, sum of squares, number, average, of 64 bits | init, upd, add | overflow, by halving or by giving the squares up | extremes are right, the average lies within what halving may do to it |
| options, `libam_opts.c` | a list of descriptors, which are set, the members they describe | register, read | names that shadow each other, values stored before they are validated | an accepted command line has left every option a value |
| files and sockets, `libam_fdopers.c` | descriptors, addresses | server, client, listen, connect, accept, read, write; send, recv | every system call may fail; data moves in pieces, calls are interrupted | descriptors have owners, sockets are what was asked for, no byte lost or doubled |
| lists, `libam_list.h` | rings of links | init, add, add_tail, del, empty, first, iteration | stores in an order | the ring, both ways, is the list |
| tests: containers, sockets, log lines (`testlib_stack.c` and copies, `testlib_fdoper.c`, `test_base.h`) | threads, flags, signals, marks, a list | rounds, an echo server, a collecting thread with flushes | threads are stopped by flags they may miss, or while they hold something | the verdict is right, and the test ends |
| hash function, macros, the other tests | | | | not modelled |

Interaction: the thread pool polls an array stack of its tasks; the logger's
sinks and its log thread exchange lines over circular queues with one consumer
each; the linked stack and the circular queue use the spinlock; everything is in
one process, by shared memory. Nothing is persisted, so there is no crash and
restart to model; what is sent goes through the kernel, whose calls may fail, move
a part, or be interrupted (`AmFd`, `AmStream`); threads may stop in the middle of an
operation where a property is about that (`PushNeverWaits`, `LockComesFree`).

## Modules

`AmBag` is the abstract specification of a bounded container: operations begin,
take effect in one step, and may be refused only when what other threads are
running could be the reason. `AmMap` is that of a map that answers each call for
its own key. No module of code is built on another's internals: `ThreadPool`
takes its stack to be what `AmBag` says and is proved to use it so
(`UsesStack`), which `AmStack` is proved to implement; `AmLog` takes its queues
to be first-in-first-out, which `AmCQueue` is proved to be for one consumer.

| Module | Models | State and actions |
|---|---|---|
| `AmStack`, `MCAmStack` | `amstack_push`, `amstack_pop` | One action per atomic access. `pc`, `obj`, `seen`, `ptr` are where a thread is and its locals; a spinning swap is an action that is not enabled, a failed one an action that goes back (`PushRetry`, `PopLost`). |
| `AmLStack`, `MCAmLStack` | `amlstack_push`, `amlstack_pop` | The same; `size` is modulo `SizeModulus`, as it wraps below zero; `order` is a history variable. |
| `AmCQueue`, `MCAmCQueue` | `amcqueue_enq`, `amcqueue_deq` | The same; `line` is the order of the claims, `readers` who may dequeue: one thread, or all. |
| `ThreadPool`, `MCThreadPool` | `libam_thread_pool.c` | Each access of a field of `struct lam_thread_pool` is an action of the worker (`Worker*`), of a caller (`Start*`, `Run*`, `Set*`) or of the thread that creates and destroys. The order of the two reads in line 189 is left open, as C does (`StartInc`/`StartRead`, `StartReadFirst`/`StartIncLate`). |
| `AmLog`, `MCAmLog` | `libam_log.c` | `Msg*`: a call of `amlog_sink_message`, sink by sink. `Thr*`: the log thread. `Init*`, `Term*`, `Ctl*`: init with its error paths, and term. A section under a write lock is one step that waits for the readers. |
| `AmStrHash` | `libam_strhash.c` | A call is a step, as under the lock. A key is its hash, since no lookup looks at anything else. `value` holds each value once, `outside` those that are not the table's. |
| `AmList` | `libam_list.h` | Operators on the memory of the links, in the order of the code's stores; used by `AmTree`, `AmOpts` and `TestLog`. |
| `AmTree` | `libam_itree.c`, and by it `libam_tree.c` | A call is a step: there is no lock, and none is promised. Left and right share operators, a loop is `Repeat` of its turn. |
| `AmOpts` | `libam_opts.c` | Registering an option, and a read with a step per argument, drawn as it is read. A text is the dashes it begins with and the rest, which is all that names and values are told apart by; `Number` is what it reads as. |
| `AmStats` | `libam_stats.h` | `amstat_upd` by a worker, `amstat_add` as it stops (`Fold`); `UMax` stands for `UINT64_MAX`. `seen`, `added` remember what was measured. |
| `AmFd` | `libam_fdopers.c`, how descriptors come and go | A system call is a step and may fail. `open` is the kernel's, `held` the program's. A port is a pair of bytes, and `Swap` what a missing `htons` does. |
| `AmStream` | `amskt_send`, `amskt_recv` | A step moves a piece, is refused, or is interrupted. `offset` is what the returns of the calls add up to. |
| `AmTime` | `libam_time.c` | Each access of a field of the handle that both threads use. `mem` is its memory, `touched` the lines that used it when freed. |
| `AmPool`, `MCAmPool` | `libam_pool.c` | The section under a bucket's mutex is a step (`Take*`, `Release`); what follows it, filling or marking the chunk, and the totals, are steps of their own. |
| `BagTest` | `testlib_stack.c`, `testlib_lstack.c`, `testlib_cqueue.c` | Readers, writers, meddlers and the main thread of a round; `bag` is the container `AmBag` promises; `validate` is an operator on the marks. |
| `EchoTest` | the server and clients of `testlib_fdoper.c` | The server's loop and the main thread's clients, for connections and datagrams, and the stop by a flag and a signal. |
| `TestLog` | the log thread of `test_base.h` | The two queues of the sink, the list, `sleeps` as "has moved since it was read", and the tests that log. |
| `MCSequential` | instances | The parts that run on their caller's thread: it extends `AmStrHash`, `AmStats`, `AmFd`, `AmOpts` and `AmTree`. |
| `MCServices` | instances | The parts with a thread or two that are told to stop: it extends `AmTime`, and has instances of `AmStream`, `EchoTest`, `BagTest` and `TestLog`. |
| `AmStackProofs`, `AmLStackProofs`, `ThreadPoolProofs`, `AmLogProofs`, `AmPoolProofs` | | The theorems about the module each is named for, with the definitions only they need; `AmStackProofs` has those about `BagTest` too. |
| `ContainerProofs` | | The theorems about `AmCQueue`, and those about the rebalancing of `AmTree`. |
| `PartsProofs` | | The theorems about `AmStrHash`, `AmStats`, `AmFd`, `AmTime`, `AmList`, `AmOpts`, `AmStream`, `EchoTest` and `TestLog`. |
| `Basics` | | Facts several of these need: sets that differ in one element, remainders, lists, and sums over finite sets. |

A behaviour of `MCSequential` or `MCServices` is one of one part, chosen at the
start by `part`; the others stay at one initial state. The parts do not meet in
the code either, so their product would show nothing more.

A definition headed "Slip:" is part of no specification. It is a plausible
mistake in the definition after it, and the property that tells the two apart is
named in `PROJECT.json`.

## Runs

All with `tlc -workers 2 -config <cfg> <module>`; times are those of a small machine.

| Run | Configuration | Shows |
|---|---|---|
| stack | `AmStack.cfg`: 3 threads, 3 pointers, capacity 2 | `SlotBalance`, `Conservation`, `ImplementsBag`; under fairness some operation always returns (`Progress`), and pops deliver what is there (`PopsDeliver`) |
| lstack | `AmLStack.cfg`: 3 threads, 3 nodes | `ChainIsStack`, `SizeSound`, `ImplementsBag`; pushes go on although consumers stop anywhere (`PushNeverWaits`), consumers do not lock each other out (`PopsGoOn`) |
| cqueue | `AmCQueue.cfg`: 3 threads, 2 pointers, capacity 2, a ring of 3 | `SlotsSound`, `FirstInFirstOut`, `ImplementsBag`; the lock comes free although producers stop anywhere (`LockComesFree`) |
| tpSafety | `ThreadPoolSafety.cfg`: 2 clients, 2 tasks, backlog 1, a minimum of 1 or 2, cap 2, at most 3 threads, one failure or setter call | `CountersSound`, `MaxRespected`, `TaskFates`, `ClosedSound`: 2.7 million states, 1.5 min |
| tpLive | `ThreadPoolLive.cfg`: the same, no setters that change a count | `UsesStack`, `AcceptedRuns`, `DestroyEnds`: 0.2 million states, 1.5 min |
| tpDrain | `ThreadPoolDrain.cfg`: backlog 2 | a violation, see the findings |
| logSafety | `AmLogSafety.cfg`: 2 producers with 2 and 1 messages, a direct sink, a queued sink and the log thread's with a line each, one init, one event | `LinesSound`, `SinksOutliveUse`, `OnceInOrder`: 2.4 million states, 1.5 min |
| logTerm | `AmLogTerm.cfg`: two lines for the log thread, no event | `TermReturns`: 0.5 million states, 1 min |
| logLost | `AmLogLost.cfg` | a violation, see the findings |
| sequential | `Sequential.cfg`, the parts one at a time: a hash with 3 hashes, 3 values, 3 entries, capacity 8 to 32, two thresholds of each kind, one spare, three sets of flags; a tree of 12 keys, and one more node, which may replace those of trees up to 3 nodes; 5 options, of which one may not be registered and two share a name, 2 reads; integers up to 5; 2 descriptors, one port | `TableSound` and the refinement `ImplementsMap`; `TreeSound`; `OptsSound`; `StatsHonest`; `DescriptorsSound`: 0.4 million states, 1.5 min |
| services | `Services.cfg`, the parts one at a time: 3 periods, 5 ticks, one setter call; 3 bytes through a buffer of 2, one signal; 2 clients with 3 requests each; 3 objects, 2 readers, writers and meddlers at most, rings of 2 marks, 2 rounds; 2 tests, 3 messages, 2 buffers | `OnlyStopReadsFreed`, `StopFrees`; `StreamKept`, `EchoKept`, `RoundsKept`, `LogKept`, each an invariant and the end that must come: 0.2 million states, 2 min |
| pool | `AmPool.cfg`: 2 threads, a pool and a sub-pool, sizes 9 and 16 of one bucket and 600, 2 chunks | `ChunksConserved`, `SizesMarked`: 2.1 million states, 1.5 min |

Where a property is a conjunction (`SizeSound`, `SlotsSound`, `CountersSound`,
`ClosedSound`, `LinesSound`, `OnceInOrder`, `SizesMarked`, `TableSound`,
`OptsSound` and those of the parts), its conjuncts are named and explained where
they are defined.

Why the bounds are enough for the cases that matter:

- Containers: with three threads, two may hold a slot that a third claims again;
  capacity 2 gives a full, a half full and an empty container, and three pointers
  refuse a push. In the ring of three, two pointers wrap around and three
  consumers get a lap apart. The linked stack needs three nodes for the tale of
  lines 58-72.
- Thread pool: the cap of two is reached by the third thread the model can start;
  two starters race each other and a stopping thread; with a minimum of two,
  create may give up after it has started a thread; a backlog of one refuses tasks.
  `PthreadLimit` bounds the threads over the pool's life, `EventLimit` the failures
  and setter calls.
- Logger: the log thread's lines run out with two producers; one event lets a
  sink come, go or be retuned around any step, or be tuned before the first message,
  so that it must never get one (`steady`). `MessageLimit`, `InitLimit` and
  `EventLimit` are the bounds. That producers are bounded also keeps them from
  starving a writer of the locks, which the platform's locks may or may not
  prevent.
- String hash: hashes 1, 9 and 17 share a bucket of eight, two of them one of
  sixteen; the low thresholds resize at the second entry. `CapacityLimit` bounds
  the resizes.
- Tree: twelve keys are the fewest with a tree of height five, in which a deletion
  may rotate twice. `SwapLimit` bounds the trees in which nodes are swapped: three
  nodes give a root with two children, a child and a neighbour in the list.
- Options: two share a long name, one has no long name, one has no letter, one has
  a default that does not parse; the second read meets what the first left.
  `ReadLimit`, `ListLimit` are the bounds.
- Statistics: integers up to five overflow within a few values in every way the 64 bits do: by
  the number and the sum (ones), by the squares before the sum (twos), and by a
  square that is too large (three). Statistics fold into the total as often as they
  like.
- Files and sockets: two descriptors are a listening socket and an accepted one,
  or a leaked one and the next. The bytes of the port differ.
- Clock: `Horizon` leaves time for one period of the largest length and several of
  the shorter ones, and for an interval longer than the period;
  `CallLimit` bounds the setters.
- Stream: more bytes than the kernel holds, and each call may be cut anywhere;
  every set of the ignore argument, at both ends. `Signals` bounds the interruptions.
- Echo: the second client meets what the first left; three requests are a first,
  a middle and a last one.
- Container rounds: slices of one and of two objects, a ring of marks that
  wraps, a stack smaller than the objects, meddlers, and a schedule with a round
  that is refused. Two rounds, so that what one leaves the next would meet.
- Log lines: a message more than there are buffers, and a flush between two tests
  and one at the end.
- Pool: the chunks of one bucket come back with another size; two threads meet in
  every window after an unlock; a third chunk would add no window. `TotalLimit`
  bounds a counter that the code never lowers.

Deadlock is not checked where the system may stop: the pool of threads once
destroyed, the logger once its bounded messages are logged, the parts of
`MCServices` at their end, and in `MCSequential` the hash, whose lock a failed
removal keeps (findings), and the calls that are bounded.

Symmetry is used for the values of the hash, the threads of the memory pool, and
the clients and the tasks of the thread pool, all interchangeable, and in runs of
safety properties only.

### Fairness

A thread inside an operation is scheduled: weak fairness of its steps. Nobody is
obliged to start one. `AmLStack` and `AmCQueue` give it only to the side the
property is about, since the other may stop anywhere. A task's function returns.
`ThreadPool` has strong fairness of "some worker pops a task": polls fail beside a
non-empty stack only while other pops are under way, and `PopsDeliver` of
`AmStack` shows, under weak fairness, that this cannot go on without a pop that
takes something. The locks of the logger are fair under the bounds above.

The modules of `MCServices` state weak fairness of each of their threads. Since
only actions of one part are ever enabled in a behaviour, `MCFairness` takes one
thread of each part together: weak fairness of the disjunction is that of all. Time
passes in `AmTime`; a caller that was cut short calls again in `AmStream`; in
`BagTest` a retry goes on, but meddlers may take every object a reader looks for,
so that the end of a round is promised for rounds without meddlers only, and from
the signal to stop for all.

## Proofs

`tlapm <module>.tla` checks the theorems of each `*Proofs` module and of `Basics`.
They hold for every value of the constants that satisfies the assumptions named
in the module of the component: finite sets of threads, objects, tasks, sinks, sizes and
chunks, a null pointer that is none of the objects, and what follows here.

In every module the argument is the same: a strengthening of the property that is
inductive, one lemma for each conjunct and in it one step for each action, and
facts of `FiniteSetTheorems` where an action moves one element from one set to
another.

### The array stack, `AmStackProofs`

For every capacity in `Nat`.

- `TypeCorrect`: `Spec => []TypeOK`, by itself inductive; among its parts, every
  index into `data` is within the array.
- `PointersConserved`: `Spec => []Conservation`. Not inductive alone: a thread
  that is not pushing could hold a pointer. `PushHolds` says it does not, and
  `HoldingInvariant` proves the two together.
- `SlotsBalanced`: `Spec => []SlotBalance`. Inductive with `TypeOK`: a claim of
  slot s moves one thread into the crowd at s and moves s across `size`; a store
  or a take moves one out and changes the slot.
- `Refinement`: `Spec => ImplementsBag`. Each action maps to an action of `AmBag`
  or to none. The two cases with content are a refused push and an empty pop
  (`FullIsHonest`, `EmptyIsHonest`): they need `CountBalance`, the sum of
  `SlotBalance` over the slots, proved an invariant on its own (`InitCount`,
  `CountStep`), and `InSlotsSize`, by which the pointers stored are as many as the
  filled slots, since no pointer is in two.

### The rounds of the container tests, in `AmStackProofs`

- `VerdictsGood`: for any number of objects, any sizes of the lists within
  `MaxThreads`, any length of the rings of marks and any number of rounds,
  `VerdictGood`. `Once` says that no object is in two places (a writer's slot, the
  container, a hand, a reader's slot), and `MarksFit` what the marks of an object are in
  each: none, then the writer's with the meddlers' after it, which go round the ring and
  in the end over the writer's (`Written`), then one reader's (`ReadOnce`). `SliceProgress`
  says how much of its slice each reader has filled and each writer emptied; the
  lemmas about slices (`SliceIn`, `SliceApart`, `SliceCovers`) say that they are apart
  and cover the list for every number of threads. So when the readers are joined every
  slot is filled, and as there are as many slots as objects every object is in one
  (`AllRead`): nothing is left for a meddler to be caught with. `Counting` is the
  counts of the linked stack's test.

### The linked stack, `AmLStackProofs`

For every width of `size` that can tell the nodes apart (`ModulusAssumption`; the
code's is that of a word, and a node takes up more than a byte of memory).

- `TypeCorrect`: `Spec => []TypeOK`.
- `ChainKept`: `Spec => []ChainIsStack`. The inductive invariant is
  `ChainInvariant`. `OnePops`: who is between the lock and the unlock holds the
  lock, and is alone there. `Apart`: a node is in one place. `Locals`: a pusher
  about to swap has linked its node to the head it saw, and the node a popper saw
  is still in the chain, with the successor it saw. The last is why the tale of
  lines 58-72 cannot happen, and it needs the other two: only a second popper
  could take the node out, and only a push of it could change its link.
- `SizeHonest`: `Spec => []SizeSound`. Every count changes by one at a time, and
  remainders by multiples of the width; from `TypeOK` and `ChainInvariant`, since
  the crowds it counts are told apart by what they hold.
- `Refinement`: `Spec => ImplementsBag`, with room for all nodes, so that no push
  is refused; a pop that reports empty met the head at null, and the chain is then
  empty by `ChainIsStack`.

### The circular queue, in `ContainerProofs`

For every capacity that is no less than the number of pointers in circulation
(`ContractAssumption`, the contract of `libam_cqueue.h`).

- `SlotsBalanced`: `Spec => []SlotsSound`. The inductive invariant is
  `QueueInvariant`: types, `Apart` (a pointer is in one place), `Locked` (as in the
  linked stack), `Counted`, and `SlotBalance`. `Counted` says that
  the distance from `head` to `tail` and the dequeues that have claimed a slot make
  the number of pointers the queue owns. Those are no more than the capacity, which
  is less than the ring: so a claim never fills the ring, and `head = tail` keeps
  meaning empty.
- `Refinement`: `Spec => ImplementsBag`. From the sum of `SlotBalance` over the
  ring, as in the array stack.
- `FirstIn`: `Spec => FirstInFirstOut`, an action property. `LineInvariant` adds
  `ReadersOnly` (threads that may not dequeue are not dequeuing) and `LineSound`:
  with one reader, the i-th pointer of `line` is in, or being stored to, the i-th
  slot from where the reader stands. Distances around the ring
  (`RingReach`, `OnlyRemainder` and their neighbours) are lemmas of their own.

### The rebalancing of the trees, in `ContainerProofs`

For every finite set of keys. A tree is described without recursion, by functions on
its nodes: `Fit` says of bounds `b`, the keys between which the tree below a node
lies, that links, parents and keys agree with them; `Level` says of heights `h` that
they and the balances agree, but for one node of which the nodes above know another
height. Every descent ends, as the keys get closer together.

- `RotateIs` and `RotateTwiceIs` say what the stores of the rotations come to, field
  by field (`Turned`, `RotatedTwice`: two rotations make the double one);
  `TurnedFit` and `TurnedTwiceFit` that the bounds of two or three nodes change and
  no others, `LiftOnce` and `LiftTwice` what height the turned tree has.
- `BalanceAddIs`: if only the tree below a node has grown, by one (`Grown`), the loop
  of `amtree_balance_add` leaves a `Settled` tree, of right balances within one, with
  the same keys (`Kept`). Each turn stops or goes to a node with more nodes below it
  (`Within`), so that the loop is done in as many turns as there are nodes.
- `BalanceDelIs`: so does the loop of `amtree_balance_del`, where the tree below a
  node has got lower or its balance is two off (`Lowered`), with the rotation of an even
  child, after which the height is what it was.

### The thread pool, `ThreadPoolProofs`

For every number of clients, tasks and threads, every backlog, minimum and cap, and
any number of failing `pthread_create` calls and setter calls. Numbers name the
threads, so that names of clients must not be numbers (`ThreadsAssumption`).

- `CountersHonest`: `Spec => []CountersSound`. `CountInvariant` adds where a local
  of a worker or a caller has which values (`WorkerLocals`, `CallerLocals`); each
  counter is then the size of a set of threads, and a step moves one thread.
- `TasksRunOnce`: `Spec => []TaskFates`. `TaskInvariant` adds `TasksApart`: two
  callers have different tasks, none of which was accepted or refused before.
- `CapRespected`: `Spec => []MaxRespected`. The property says nothing of the
  starters that have counted themselves and not decided yet, whose count may be
  undone, and who read `destroyed` before or after they count. `Headroom` is the
  inductive form: the threads alive and the starters that passed the test are no
  more than the cap; and for every x from the cap on, if x would admit some undecided
  starter, then with all that it would admit the sum is still at most x. One cap
  would not do, since a thread that stops admits the starters that x + 1 admitted. `SeenOld` says that an old read of `destroyed` is no larger than the
  field, which is what makes either order of the two reads safe.
- `FreedSoundly`: `Spec => []ClosedSound`. The number of tasks executed is a sum
  over workers, of streaks not yet folded into the statistics. `Credit` says it
  without a sum: there is a function that credits each executed task to one
  worker, or to the statistics, such that each is owed as many tasks as it has
  counted. A worker that folds its streak passes its credits on.
- `StackUsedRight`: `Spec => UsesStack`. Each step of the pool is one step of
  `AmBag` or none, with a push, a pop and their returns where the code has them.
  Together with `AmStackProofs!Refinement` this closes the gap between the two.

### The logger, `AmLogProofs`

For any finite sets of producers, sinks and lines of each sink (those of two sinks
apart), any kinds of messages, levels and masks, and any number of calls. A sink has
no thread's name (`ProducersAssumption`).

- `LinesKept`: `Spec => []LinesSound`. A line is counted (`CountOf`) in its in_queue,
  its out_queue and the hands of threads. The steps that move a line take it from
  one place to another (`LinesMove`); the lines of the log thread come with its
  queues and go with them, so that `Placed` says by the stage of init and term
  whether each is there once, not at all, or (between a failure and the free) either.
  That none of them is in a hand when the queues are freed is not in the property:
  it takes `Copying` (a line in hand is of the sink the call is at),
  `SinksOutliveUse` (that sink is registered) and `Staged` (the log thread's is not,
  by then). `Written` says that what is in an in_queue was copied there: since a line
  is in one place, nobody clears the text of one that is queued.
- `SinksOutlive`: `Spec => []SinksOutliveUse`. From `Staged`, which ties the
  registration of the log thread's sink and the thread's life to the stage of init
  and term, and from the locks: a list changes only without readers (`SinksMove`).

- `OnceAndInOrder`: `Spec => []OnceInOrder`. `Line` is the list of messages on
  their way to the direct sinks, first the one in the log thread's hands: a step
  appends to it, drops its head, empties it or leaves it alone (`LineSteps`).
  `OrderInvariant` says that a thread's messages are in the line in their order
  (`LineInOrder`), that what callbacks got is not newer than what is in it
  (`GotBefore`), and that a call that still has to enqueue, or serves the direct
  sinks itself, has only older messages of its own there, or none (`Outside`). The
  last holds since without a log thread nothing is on its way
  (`NoThreadNoLine`): that is what keeps the order when the thread comes or goes.
  `OnceInvariant` counts (`Count`) where a message is for a sink: with the callback,
  on its way, freed. Only the message's own call makes the number grow (`CountSteps`).
  `LiveOnce` says that a call which may end with a promise has brought its
  message there once, or is still to (`Still`, `StillSteps`); for that a call
  that met no init or term sees one value of `log_thread` throughout (`Undisturbed`).
  A steady sink keeps its level and mask while anything is owed (`SteadySteps`), and
  the log thread's sink filters nothing (`Untuned`), as no level is above UINT64_MAX
  (`LevelsAssumption`).

`Frames` says which actions change which variables; `LogInvariant` is where the lines
are and who holds what, and the other two invariants build on it.

### The memory pools, `AmPoolProofs`

For any finite set of sizes and chunks, and any parents of the pools.

- `Conserved`: `Spec => []ChunksConserved`. A chunk's places are the heap, a
  caller, a free list, a call in progress that works on it, and one that keeps it
  for a copy (`Places`, `In`); `Located` says that a chunk is in one place and once.
  A step moves one chunk (`MoveKeeps`), swaps two (`SwapKeeps`) or leaves all where
  they are (`StayKeeps`), and each action has to show which. Freeing a pool
  returns all of its buckets' chunks at once, those in use as well; for that `UsedRight` and `UsedApart`
  say which used list a chunk in use is in, that it is in no other and in no free
  list, and `ConserveInvariant` is the four together.
- `SizesHonest`: `Spec => []SizesMarked`. `SizeInvariant` adds four parts.
  `Balanced`: a pool's totals are the sums over its buckets, less what the calls
  between the unlock and the atomic add have still to add. `Counted`: a bucket's
  counts are the lengths of its lists. `Written`: a chunk with a caller has the
  size it asked for. It depends on `ConserveInvariant`, as the size is written after
  the unlock, and only chunks in one's own hands may be written then. `FreeMarked`.

### The string hash, in `PartsProofs`

For any finite set of entries, any hashes and values, and any flags, thresholds
and capacity to start with.

- `TableKept`: `Spec => []TableSound`. The inductive invariant `IInv` adds that a
  key is in the table once (`KeyOnce`: an insertion looks its key up before), and
  that the chains are well formed for the capacity there is now (`WellChained`).
  Each change of the chains is a lemma about any well-formed chains: an entry put
  at the front of one (`InsertChain`), taken out of one (`RemoveChain`), and the
  resize (`UpsizeChain`), which loses no entry since the bucket among twice as many,
  modulo the old capacity, is the old bucket (`HalfBucket`). The moves of a chain
  are stated by the positions an entry is taken from (`Picked`), as a filter of the
  library takes an operator as a parameter.
- `Refinement`: `Spec => ImplementsMap`. A lookup finds the entry of its key and no
  other (`FoundIs`, from `KeyOnce` and the bucket every entry is in), so that
  `Stored` is the map of the linked entries (`StoredMap`), and each action changes
  it at one key or, when it only moves entries, not at all (`SameStored`).

### The statistics, in `PartsProofs`

For any width of the integers, and any values measured.

- `StatisticsHonest`: `StatsSpec => []StatsHonest`. The invariant is `StatsInvariant`:
  `LocalSums` of the worker's statistic and `TotalSums` of the pool's. Their core is
  `Summed`: the least value times the number is at most the sum, and the sum is at
  most the sum of squares. Halving keeps both, since it rounds the number down with
  the sum; that is also why the other bound is `max` times *one more* than the number,
  which one halving after another would otherwise break. From the second part of
  `Summed` follows that the pool's sum does not wrap where the squares did not:
  so `TotalHonest` needs no exception but those for squares that were given up and for
  a number of 0. The
  arithmetic is in lemmas about any numbers (`Halved`, `Wrapped`, `Quotient*`,
  `Product`, `Square`), and `UpdSums` and `AddSums` are about the operators of the
  code.

### The descriptors, in `PartsProofs`

For any descriptors and any ports that differ from port 0.

- `DescriptorsKept`: `FdSpec => []DescriptorsSound`. The property speaks of the
  sockets the program holds. `CallReady` says of the call in progress that its
  descriptor is its own, not yet the program's, and as far as the call is (`Stage`),
  with the family and port the call was asked for (`Mine`); `Owned` says that every
  other open descriptor is held and ready, or is one of the two leaks. Four lemmas
  are about the kinds of step: a new descriptor (`NewSound`), one that
  gets further (`GoesSound`), is closed (`ClosedSound`), or is forgotten
  (`StraySound`).

### The clock, in `PartsProofs`

For any periods, any number of ticks and of calls.

- `ClockFreedOnce`: `TimeSpec => []OnlyStopReadsFreed`. `Turn` says, by how far a
  stop has come, whose turn it is to free the handle: the thread's once `thread_free`
  is set, which is before `stop` is, and otherwise the caller's after the join. The
  line that is the exception stays in the property: it is reached.

### The lists and the options, in `PartsProofs`

A ring of links holds a list `s` (`Ring`) when following `next` from the head leads
through `s` and back to the head, `prev` is the way back, and no element is in it
twice. `RingInit`, `RingAppend` and `RingTail` say that the stores of `ListInit`,
`ListAddTail` and `ListDel` (of the first element) keep it so. `RingWalks` says that a
walk of the ring, either way, is `s`: `Walk` is a recursive function with the number
of steps as its bound, and its values at a ring follow from a least counterexample
(`WalkIs`), without induction over operators.

- `OptionsHonest`: `OptsSpec => []OptsSound`, for any finite set of options, any
  texts and any number of reads, where no descriptor is the null pointer or a flag's
  value. `OptsInvariant` adds to the ring: `Registered`, an option that is not a custom
  one has its parsing function from the time it is listed, so that it is not listed
  twice; and `Given`, an option that is set has a value, and was named on a command
  line if it is mandatory. What a command line names is the first option that fits
  (`NamedIs`), which a shadowed one never is; that makes `ReadHonest` hold of options
  that share a long name.

### The stream and the echo test, in `PartsProofs`

The theorems assume of the constants what `StreamAssumption` and `EchoAssumption`
say, which `MCServices` assumes of its instances.

- `StreamFaithful`: for any number of bytes, any buffer of the kernel and any number
  of signals, `StreamSound`. `StreamInvariant` adds `CallSound`: a call asks for what
  its end has not moved yet, and its pointer has gone as far as its count.
- `EchoesRight`: for any number of clients and of requests, `EchoFaithful`.
  `OneRequest` says that a client has one request at a time, which is on its way, with
  the server, or on its way back; `Connections`, that an accepted connection is the
  one the server is at and that earlier clients have closed theirs.

### The log lines of a test set, in `PartsProofs`

- `FlushedAlone`: for any number of buffers, lines and tests, `FlushAlone`.
  `LogInvariant` says that the list is a ring of the lines logged (`Listed`); that a
  message on its way to the list has a line that is not in use (`Buffered`); and what
  the wait of `_test_flush_logger` is for (`Quiet`): once the sink is unregistered, a poll that
  began after it and found the queue empty leaves nothing in the queue and nothing for
  the thread to add, and it is such a poll, unless it was begun before, that lets the
  wait end.

### Sums

Sums over sets of calls and of buckets are folds. The library has induction theorems
only with an operator as a parameter, which these provers cannot instantiate, so
`Basics` proves what is needed (`SumDiffers`: a sum changes by what one element
changes by; `SumOfZeros`; `LeastNumber`) from a least counterexample, over sets
of numbers, which is first-order.

### Only model-checked

All liveness: `Progress`, `PopsDeliver`, `PushNeverWaits`, `PopsGoOn`, `LockComesFree`,
`AcceptedRuns`, `DestroyEnds`, `TermReturns`, `StopFrees` and the ends promised in
`MCServices`. Fairness and `ENABLED` are outside the prover. So `StreamKept`,
`EchoKept`, `RoundsKept` and `LogKept` are proved in the half that is an invariant, and
checked in the other. `TreeSound`, beyond the rebalancing: its definitions are recursive.

## Findings

Two runs end in a violation, each of something the repository says:

- `TasksDoneAtDestroy`: the tests assert right after `lam_thread_pool_destroy`
  that the tasks they scheduled have run. A worker whose pop failed just before
  the push sees the drain signal and quits (line 130), and the task goes with the
  stack.
- `SuccessIsPrinted`: "@Returns AMRC_SUCCESS if printed successfully". A line
  enqueued after the log thread found its queue empty and before it reads
  `keep_running` is freed by `amlog_sink_term`.

Others were met while modelling, and are in the models as the code has them;
`PROJECT.json` gives the lines and the words they are held against.

- Hash: `amstrhash_remove_key` keeps the write lock when the key is missing
  (`RemoveMissing`); two keys with one hash are one key (`Found`); the default of
  `free_size` is not applied.
- Memory pool: a freed chunk is marked after the unlock (`Mark`, `FreeMarked`); the
  pool's `total_*` never go down for large chunks (`TotalLimit`).
- Thread pool: a failed `pthread_create` stays counted, so that destroy never returns
  (`StartFail`, `DestroyEnds`); a create that gives up frees the memory of threads
  that have not counted themselves (`FreedQuiet`).
- Logger: a sink without a mask gets every message (`Accepts`); a message that finds
  no free line is given up and the call succeeds (`MsgNoLine`); the lock of an
  unregistration is in a static variable.
- Clock: a non-blocking stop reads a handle that may be freed (`OnlyStopReadsFreed`).
- Statistics: `amstat_add` wraps a sum of squares that was given up, and the sum
  with it, and may leave a number of 0 (`Add`, `TotalHonest`).
- Sockets and files: two leaked descriptors (`NoStrayDescriptor`); ports without
  `htons`, and addresses of IPv6 with the length of IPv4 (`SocketsReady`); send and
  recv return after the first piece unless told not to (`ExactLength`).
- Options: a missing long name is reported and let through (`Registers`). Lists:
  `amlist_del` leaves the entry's pointers (`ListDel`).
- Tests: a poll of the log thread counted late lets flush and the thread at the
  list together (`FlushAlone`); a signal may come too early to stop the echo server,
  and one that cannot start is waited for (`EchoEnds`); the container tests ignore the verdict of their rounds.

## Not modelled, and why

- Left out of modelled components: `AMLOG_FLAGS_ABORT_ON_ERROR` (up to the abort
  a behaviour is one of the blocking policy), two unregistrations at once (a write
  to the wrong lock has no defined outcome to model), callbacks that log
  themselves, `lam_thread_pool_set_default_func` (one pointer), the memory pool's
  diagnostics and the patterns in freed memory (one mark per chunk), NULL keys of
  the hash, an entry used after another thread removed it, a `pthread_join` of the
  clock that fails, times other than "long enough" and "not yet" in the thread pool.
- Options: the layout of the help and of `amopts_print_values`. Sockets: the text
  forms of addresses and `amskt_query_to_addr`, one call of the resolver and a copy.
- Memory ordering: the shared fields are volatile and the atomics full barriers;
  the models are sequentially consistent.
- The hash function (a bit mix; its values are a constant), macros, and the tests
  that are sequences of calls with the values expected of them.

## Plan

Done: every component with state of its own is modelled and checked; the
containers, the thread pool, the logger, the memory pools, the string hash, the
statistics, the descriptors, the clock, the options, the stream, the echo test, the
rounds of the container tests, the log lines of a test set and the rebalancing of the
trees are proved.

Next, a proof: `TreeSpec => []TreeSound`, from `BalanceAddIs` and `BalanceDelIs`. It
needs that the splices before them give `Grown` and `Lowered` trees, the order of the
list, and that `InOrder` and `Height` are the functions they say they are.
