# rg in TLA+

A TLA+ verification project for **rg**, a header-only C++20 scheduler of
coroutine tasks that orders them by the resources they access. It holds modules
that translate the code, TLC configurations that check them on small instances,
and proofs that TLAPS checks for every value of the constants. `PROJECT.json`
maps every definition to its source lines.

## The system

A program calls `init(n)` for a pool of `n` workers, starts one *init coroutine*
(`InitTask`) and dispatches tasks from it: `co_await dispatch_task(callable,
r.rg_read(), s.rg_write(), ...)`. Each access registers the task on the *node* of its
resource. A task that nobody blocks runs at once on the thread that dispatched it, while
the continuation of its parent can be stolen; a blocked one is pushed to a deque by the
thread whose task, when it is destroyed, takes the last count off its `waitCounter`.
Tasks may dispatch tasks, wait for one (`co_await t.get()`, or a synchronous dispatch)
or for all of their own (`co_await barrier()`). `~InitTask` waits for all of them,
`~ThreadPool` then stops the workers.

| component | state | operations | hard behaviour | what makes it correct |
|---|---|---|---|---|
| resource nodes (`ResourceNode.hpp`, `resources.hpp`, registration in `dispatchTask.hpp`) | per node: array of accesses, `first`, `firstNotReady`, `last`, remove marks; per task `waitCounter` | `add_task` (one thread at a time), `remove_task` (any number of threads) | lock-free cursors; hand-over between adder and removers; reuse of frame addresses; lost wake-ups | conflicting tasks in program order; every task handed out once; no count taken after the hand-out; every task runs |
| frames and awaiters (`Task.hpp`, `initTask.hpp`, `SharedCoroutineHandle.hpp`, `FinalDelete.hpp`, awaiters of `dispatchTask.hpp`) | promise: `workingState`, `sharedOwnerCounter`, `coroOutsideTask`, `parent`, `pool_p`, `continuationHandle` | dispatch, await, get, co_return, final_suspend, destruction | a body that suspends races the task it waits for; frames freed by whoever is last | one resumption per suspension; no use after free; counts exact; every frame freed |
| barriers (`barrier.hpp`, `BarrierQueue.hpp`) | queue under a mutex | `barrierTask`, `process_and_extract` | reads a count and a flag others change without the mutex | all children gone when the body goes on |
| deque (`dequeue.hpp`) | `_top`, `_bottom`, ring buffers | `emplace`, `pop`, `steal`, growth | Chase-Lev races for the last item, growth under readers | every item taken once |
| pool (`ThreadPool.hpp`, `init.hpp`) | a deque per worker, the master deque, stop states | construct, `addTask`, worker loop, destroy | stealing, a queue no worker owns, shutdown | a handle is in one place; all that counts for the init coroutine done before the stop; everything ends |
| frame allocators (`CoroAllocator.hpp`, `alloc/`) | thread-local blocks, free lists | allocate, deallocate on another thread | cross-thread frees, thread exit | no block freed early, none leaked |

The nodes push to the pool's deques and count on tasks' promises; the promises'
destructors call the nodes; the barrier queue reads promises' counters; workers
call the barrier queue and resume whatever coroutine they find. The hazards of
each part are listed with their lines in `PROJECT.json`.

## Modules

| module | what it is |
|---|---|
| `TaskOrder` | abstract specification of the nodes: tasks are submitted in program order, start once every conflicting earlier one is done |
| `ResourceNode` | `add_task`, `remove_task` and their callers, one action per atomic access |
| `ResourceNodeInv` | the inductive invariant `IInv`, a conjunction of named parts |
| `ResourceNodeProofs` | its proof, and the theorems that follow |
| `WorkDeque` | abstract deque with atomic operations |
| `Deque` | the Chase-Lev deque with growth, one action per access |
| `DequeProofs` | its inductive invariant and theorems |
| `TaskLife` | abstract specification of a task's life, whatever thread it runs on: what it waits for has happened when it goes on |
| `TaskTree` | frames, handles, awaiters, barriers, `InitTask` |
| `TaskTreeProofs` | its inductive invariant and theorems |
| `TaskTreeLifeProofs` | three more invariants, `PoolKnown`, refinement of `TaskLife` |
| `Pool` | the thread pool from construction to destruction |
| `PoolProofs` | its inductive invariant and theorems |
| `FrameHeap` | what operator new and delete of the promises owe the coroutines |
| `FrameAlloc` | `CoroAllocator`: segregator, slabs, free lists, end of a thread |
| `FrameAllocProofs` | its inductive invariant and theorems |
| `MCResourceNode`, `MCTaskTree`, `MCFrameAlloc` | values of the constants for TLC |

How they fit: `TaskTree` uses of the nodes what `TaskOrder` promises (a task is
`Ready` when the earlier ones of its resource were taken off), and
`ResourceNode` is proved to implement `TaskOrder`. `Pool` uses of the deques what
`WorkDeque` promises, and `Deque` is proved to implement it. `Pool` in turn
knows of frames just what its own loop needs: who waits for whom. What both say
of tasks is `TaskLife`: `TaskTree` is proved to implement it with every access to a
promise, `Pool` with every access to a deque. `ResourceNode`
lets an allocator reuse the address of a freed frame but not that of a live one,
which is what `FrameHeap` promises and `FrameAlloc` is proved to implement.

### ResourceNode

The dispatching thread is one process (`dpc`, `dtask`, `dk`): `Dispatch` makes the frame
and raises the counter, then `AddPublish`, `AddLoadFNR`, `AddLoadFirst`, `AddCAS` and
`AddDec` are the accesses of `add_task` for each element of the access list, and
`FinishRegistration` subtracts the sentinel: if nothing else was left, the task is
handed out here. Every task is another process (`pc[t]`): it runs, ends (`Finish`, that
is `~promise_type`) and goes through `remove_task` on each of its nodes:
`RemoveLoadFirst`; `RemovePop` and the sweep over marked entries when it is the first;
`Scan` and `MidCAS` when it is not; then from `LoadReady` on the wake-up of the next
entries. `compare_exchange_strong(cur, ++cur, ..)` is modelled by what it does:
`expected` is a reference to `cur`, which has been incremented by then (`CasExpected(c)
== c + 1`). `tasks[i].handle == handle` compares addresses; an address may be that of an
earlier frame that was freed (`AllocatorChoices`). The scan of a task may then stop at
the entry such a frame left behind (`MatchingSlots`), mark it a second time and never
mark its own: `RemoveFindsTask` says that its own entry lies ahead of it, and that
whatever it takes belongs to itself or to a task that is gone.

`owed[t]` (which counts of `waitCounter` are still to be taken) and `handed[t]`
are history variables, which nothing reads.

### TaskLife

A task is not dispatched yet (`none`), `waits`, `runs`, is `over` (its result is
there), or `gone` (off its nodes). `waitsFor` holds the events a task waits for,
each a task and how far it must be. A step takes any number of tasks one step
further (`Next`), since the end of one may let others go on; none may go on before
its events have happened, and none may come back once it is over. `TaskTree` refines it
with `Phase` and `WaitsFor`: a task that has not begun waits for the earlier ones it
conflicts with to be gone (`Ahead`), one that awaits for the task to be over, one at
a barrier for all that have it as `parent` to be gone. (That a child without a
parent escapes a barrier is the subject of `tree_temp` and `BarrierWaits`.)
In `Pool` a blocked job waits for its older siblings, one at a barrier for
all jobs it has dispatched that hold its frame.

### TaskTree

`co[t]` is where a coroutine is, `at[t]` the task it is busy with, `tokens[t]` how
many resumptions of it are in deques or transfers. `refs`, `coroOutsideTask`,
`workingState`, `parent`, `pool_p` are the members of the promise. `holder[t]` is
where the creator's handle is: in the awaiter, in a `Task` object of the body, in
a `GetAwaiter`, or half-way through its destructor. A dispatch is a record of
`Form`; its `named` says which overload of `await_transform` it reaches: with a
named awaiter, the one that sets `pool_p` and `parent`; with a temporary, as in
all tests and examples, the forwarding one. Its `acc` says which resources it names
and how it accesses each; reading, adding and multiplying are one mode here,
parallel among themselves. A barrier writes to the resources it is given, one or a
container of them. A program is any sequence of dispatches of `Forms`, awaits,
drops and assignments. `Assigns` says whether a body may assign to `Task` objects:
`Assign` lets the old handle go without clearing the flag of its task, and stands as
well for the destructor of an object that was moved from and assigned to again, whose
`isMoved` is never reset. The awaiter of a synchronous dispatch that is a variable
stays with the body to the end of its scope, and the handle with it (`Keep`), so that
the body may wait for itself there too; a temporary goes at once (`Take`). That a body
calls `get()` on the handle in such an awaiter is not modelled.

`~promise_type` takes a task off its nodes (`Deregister`) and lets go of the parent
(`Free`); a task without resources has nothing to be taken off (`Dying`). The code
takes it off one node after the other (`Task.hpp:131`), and `operator delete` follows
after the parent was let go of; `Deregister` is one step, and `Free` says nothing of
the memory, for which nobody waits (see FrameAlloc).

### Deque and Pool

`Deque` keeps all ring buffers (`rings`), since the code keeps outgrown ones in
`_garbage`; a cell that is being written holds `Garbage`. A pop or steal takes effect
where it wins its item; `taken` records the items in that order. `Pool` has jobs in
place of coroutine bodies; `DispatchBlocked` and `End` stand for the nodes. `uses` is
`sharedOwnerCounter` without the handles of the creators, which are taken to be dropped
before a body ends or comes to a barrier: a job holds its own frame until its end, and
the frame of its creator (`parent`), if it was dispatched by name, until its own is
freed (`Free`). `Leave` waits for the use count of the init frame, as `~InitTask` does,
and a barrier for that of its own (`ChildrenDone`). A dispatch through a temporary
counts for nobody, so that the pool may be destroyed with such jobs left over; what
`NothingLeftToRun` and `EveryJobEnds` say is about `rooted` jobs, which hold the frame
of their creator, as does the creator, up to the init coroutine. A blocked job waits for
all its older siblings, is woken when they end, and so one at a time; in the code
whoever drops the last handle of the older one wakes it. The machine has as many cores
as the pool has workers, or one less: then the constructor throws before there is a pool
(`Refuse`). A worker pins itself (`Pin`) before it first looks at its deque. The draw of
a victim is nondeterministic; `random.hpp` replaces a seed of 0, so that the generator
never gets stuck and draws every victim again and again.

### FrameAlloc

`userPtr` and `unusedIdx` are the members of the thread-local `CurrentBlock`,
`list` is the free list of a thread, `header` the word in front of each chunk,
which `deallocate` counts up. A pointer is a pair of a piece of memory from
operator new and a chunk in it; sizes only matter against the threshold. The
header of a chunk in new memory holds any word of `Leftover`: no code writes it.
When it holds `Capacity - 1`, `deallocate` treats bytes of the neighbouring frame
as the address of a free list; the behaviour is undefined from there
(`undefined`), and the model stops. `DestroyStack` and `DestroyCurrentBlock` are
the destructors of the thread-locals in the order the program runs them
(`StackFirst`). A thread may end at any time, also while frames in its block are
alive, which another thread deletes later: `~InitTask` does not wait for the tasks of
temporary dispatches (run `tree_temp`), and of the others a child lets go of its
parent (`Task.hpp:102`) before its memory is deleted (`Task.hpp:222`). Nothing is
assumed about which frames are left then.

## Runs

`pass` runs (distinct states; seconds with two TLC workers):

| run | question | checks | size |
|---|---|---|---|
| `nodes` | three tasks on two nodes, addresses used again | `ProgramOrder`, `HandedOnce`, `TakeoverNeverSucceeds`, `NoLateWake` (no count is taken from a task that was handed out), `OneWakerPerSlot`, `RemoveFindsTask`, `IInv`, refinement of `TaskOrder` | 256 k, 15 s |
| `writers` | writers only | every task runs (`EveryTaskRuns`), no deadlock | 68 k, 12 s |
| `deque` | two thieves, growth | `EveryItemOnce`, `WinnerReadsOldest`, refinement of `WorkDeque`, `EventuallyTaken` | 121 k, 15 s |
| `tree_await` | gets and synchronous dispatches, with and without a parent, readers and writers, move assignment | `NoUseAfterFree`, `ResumedOnce`, `ResultBeforeUse`, `RefsExact`, `PoolKnown`, refinement of `TaskLife` | 637 k, 24 s |
| `tree_barrier` | barriers at every level, move assignment | `BarrierWaits`, `RootWaits`, `RefsExact` | 851 k, 22 s |
| `tree_live` | every kind of dispatch, barriers over two resources, `InitTask::get` | `AllEnds` (every frame is freed, `~InitTask` returns), refinement of `TaskLife` | 29 k, 11 s |
| `pool` | two workers, three jobs that count or do not, from construction to destruction, enough cores or too few | `HandleInOnePlace`, `NothingLeftToRun`, `OwnCore`, `EveryJobEnds`, `PoolStops`, refinement of `TaskLife` | 44 k, 25 s |
| `frames` | two threads, three frames, sizes around the threshold, threads that end while frames are alive | refinement of `FrameHeap`, `FrameInOwnMemory`, `BlockOutlivesThread` | 123 k, 52 s |

Some say where the code keeps less than one would think, and hold because they name the
exception: `BarrierWaits` excepts a task whose own `Task` object was assigned over
(`Adrift`; `operator=` and the destructor of a moved-from object leave its
`coroOutsideTask` set, so that one child too many is forgiven); `NoUseAfterFree` excepts
the thread in the `await_suspend` of a synchronous dispatch of a blocked task that has
ended meanwhile (`Overtaken`: the task has resumed the body, whose frame, with the
awaiter the thread still reads, may be gone, `dispatchTask.hpp:44`, run `tree_sync`);
`RemoveFindsTask` allows for entries of tasks that are gone; `NothingLeftToRun` and
`EveryJobEnds` are about tasks that count for the init coroutine (no task of a temporary
dispatch does, run `tree_temp`); `PoolKnown` is about tasks that were ready when they
were dispatched by name, all the way down from the init coroutine (a blocked task may
run before its creator has reached `await_transform`, `Task.hpp:188`); `AllEnds` excepts
a body that waits for an object it holds (`SelfWait`: `dispatchTask.hpp:231` says that
final_suspend takes a task off its nodes, but it is `~promise_type`, when the last
handle goes), and main asleep in `get()`, whose condition variable nobody notifies
(`initTask.hpp:252`).

`violation` runs, each a property that a comment of the code states and the code
does not keep:

| run | property | why it fails |
|---|---|---|
| `readers` | `EveryTaskRuns` | the compare-exchange of `ResourceNode.hpp:167` expects the value it would store; a wake-up is lost when a reader that is not the first ends last |
| `tree_temp` | `RootWaits` | a temporary awaiter sets no parent; `~InitTask` does not wait |
| `tree_sync` | `AwaiterOutlivesSuspend` | `await_suspend` reads members after it has published the continuation |
| `slabs` | `FullBlockComesBack` | `deallocate` counts in the header of the chunk it is given, which counts that chunk alone, not in the block's |

Other places where the code does something else than its comments, or than a
reader would expect, which the models follow and no run is about:

* `ResourceNode.hpp:112` "removes all active tasks from the list": after the failed
  exchange the marked entry stays, until a later remover sweeps over it, if any does.
* `ResourceNode.hpp:160`: `tasks[cur].handle == handle` takes the entry of a freed frame
  for that of the task which has its address now; the earlier entry is marked again, the
  own one is never marked.
* `Task.hpp:394`: `await_transform` of `Task<void>` takes the `Synchronous` parameter
  of the awaiter for `finishedOnReturn`; a synchronous dispatch gets no parent.
* `Task.hpp:211`: a temporary awaiter leaves `pool_p` null; a barrier of such a task
  would dereference it, which the guard of `Create` excludes.
* `SlabTLS.hpp:58` wants `~CurrentBlock` before the destruction of the allocator under
  it; it comes after, so that the last block of a thread goes to a list that no longer
  exists, and is lost. (In the other order it would be deleted under the frames that
  are left in it, the mutant of `BlockOutlivesThread`.)

### Bounds

Three tasks in `nodes` (`NumTasks`): a hazard of the nodes needs a task that ends, one
before or after it that is being removed, and one that waits. The theorems hold for
any number, so that TLC only has to show that the formulas say something and that
every action is reached. Arrays (`Capacity`) are as long as the tasks need, the 1024
of the code being out of reach; `InvalidWaitState` only has to exceed the accesses of
a task. A task names nothing, adds to the first node, writes to it, or names both
nodes, in one order with a read and a write, in the other with two writes: enough for a
task that is blocked on both, on the first only or on the last only. A frame gets an
address of its own or that of the task before it, once that one is freed: an entry is
then mistaken for its neighbour, if for any. `nodes` and `readers` may end with tasks
that were never woken, so that deadlock is not checked there; in the `tree` runs a body
may wait for itself (see above).

In the runs of `TaskTree` only the init coroutine names resources (`Nested = FALSE`): what
a child may name is up to the program, and a child that names its parent's resource
waits for itself. The theorems hold for either value. Two tasks
are enough for an order, a third for a group of readers (`tree_await`), for a child of
a child, or for a barrier after one child and before another (`tree_barrier`). Liveness
is checked with two (`tree_live`): one waits for the other, in every way there is, and
accesses are writes there: the wake-ups that readers lose (`readers`) are a matter of
`ResourceNode`. A deque that starts with one cell
(`InitCap`) and takes four items (`MaxItems`) wraps and grows twice; two thieves
race each other and the owner. `Pool` makes two attempts to steal per round in
place of 64: a round differs only in how often nothing is found; two workers and
the main thread are the three kinds of deque a worker looks at, and three jobs
make a chain of a job that awaits one that waits at a barrier for another.
`FrameAlloc` has three chunks to a block in place of 8, three pieces of memory (two
threads with a block each, and one that begins its second or makes a large frame), and
one size on either side of the threshold. The threads may end, and the frames may all be
deleted: the run stops when memory or threads are used up. The jobs of `Pool` may count for
their creators or not (`Counting`), each as it likes.

### Fairness

Threads go on (weak fairness of each step). An executor that looks for work
again and again finds it: strong fairness of a steal from a given victim, because
victims are drawn at random, every one again and again, and each lost race is another
thread's gain. Barriers
are looked at again and again (strong fairness of the mutex-protected check:
a mutex gives no stronger promise, but only idle workers compete for it). Bodies
end: the code cannot promise that, programs have to. `InitTask::get` gets no
fairness for a spurious wake-up.

### Memory model

All modules are sequentially consistent. The deque has the fences of the published
algorithm around `top` and `bottom`, but publishes an outgrown ring's successor with a
relaxed store (`dequeue.hpp:182`): that a thief which sees the new ring sees its cells
as well is taken for granted by `PushGrow`, as it is on x86. The nodes rely on a
handshake: a thread writes one cursor and then reads another, while a second thread does
it the other way round. It is written with `acq_rel`, which C++ does not order; the
writes are read-modify-write operations, which are full fences on x86. A weaker machine
is outside these models.

## Proofs

Every invariant that a `pass` run checks is a theorem, for every value of the
constants, and so is every refinement. Each component has one inductive invariant
`IInv`, a conjunction of named parts (TLC has checked it on the bounds of the
component's run before it was proved), with a lemma per action and, under it, a
step per part the action can disturb; the theorem `Invariance` is `Spec => []IInv`,
and the others follow from it.

| module | theorems | beside the constants' types, assumes |
|---|---|---|
| `ResourceNodeProofs` | `TypeCorrect`, `ProgramOrderHolds`, `HandedOnceHolds`, `NoLateWakeHolds`, `OneWakerHolds`, `RemoveFindsTaskHolds`, `TakeoverIsDeadCode`, `Refinement` of `TaskOrder` | `InvalidWaitState` exceeds the accesses of a task (`SentinelAssumption`), one dispatch names a resource once (`DistinctNodesAssumption`) |
| `TaskTreeProofs` | `TypeCorrect`, `RefsExactHolds`, `NoUseAfterFreeHolds`, `ResumedOnceHolds`, `ResultBeforeUseHolds`; `RootWaitsHolds`, `BarrierWaitsHolds` | barriers write (`FormsAssumption`); `CountedForms` for the last two |
| `TaskTreeLifeProofs` | `PoolKnownHolds`, `LifeRefinement` | `NeverAdrift` for the second |
| `DequeProofs` | `TypeCorrect`, `EveryItemOnceHolds`, `WinnerReadsOldestHolds`, `Refinement` of `WorkDeque` | first capacity not 0 |
| `PoolProofs` | `TypeCorrect`, `HandleInOnePlaceHolds`, `NothingLeftToRunHolds`, `OwnCoreHolds`, `LifeRefinement` | a worker and an attempt at least |
| `FrameAllocProofs` | `TypeCorrect`, `FrameInOwnMemoryHolds`, `BlockOutlivesThreadHolds`, `Refinement` of `FrameHeap` | a block has two chunks at least, null is no address (`NullAssumption`) |

Two hypotheses are not types, but say which programs a theorem is about.
`CountedForms`: every dispatch counts for its parent, that is, it is by name and
without what `await_transform` takes for `finishedOnReturn`. The run `tree_temp`
shows that `RootWaits` fails otherwise, and so does the comment on `BarrierWaits`
for a child without a parent. `NeverAdrift`: bodies assign to no `Task` object, or
use no barrier; otherwise a body whose own object was assigned over leaves a
barrier early, as `BarrierWaits` says. The configurations of `tree_barrier` satisfy
the first, those of `tree_await` and `tree_live` the second.
`Capacity` of a node is respected because `SlotBound` guards `AddPublish`; the code
has no such check. The free choice of an allocator among the addresses of freed
frames, of the words in new memory, of who steals from whom and of the program that
a body runs is left open by the models, and the theorems hold for all of them.

**Resource nodes.** `ProgramOrder` says nothing of what the cursors mean between
two accesses. `IInv` adds which slots hold which task (`SlotInv`, sorted by program
order in `SortedInv`), what a slot below `first`, `firstNotReady` and `last` tells of
its task (`PoppedInv`, `WindowInv`: all entries in the window are pairwise
parallel), what each half-finished operation has read and may still rely on
(`AddInv`, `RemoveInv`, `PopInv`, `ScanInv`, `ReadyInv`, `ExtendInv`), that live tasks
have distinct addresses (`HandleInv`), and that a `waitCounter` is the number of
counts still owed (`CountInv`, `OwedInv`).

**Frames and awaiters.** `RefsExact` is about counts alone and does not say who may
drop one. `IInv` tells where every handle is and which coroutine is busy with it
(`BusyInv` and, the other way round, `HolderInv`), so that a frame is dropped once by
each; `RefsInv` sums them up, one's own, the creator's, and the children (`Kids`).
`ResumedOnce` needs to know who owes a resumption: the awaited task once
`workingState` is 2 (`ContinuationInv`), the dispatcher of a task that was ready
(`StartInv`), the thread still in `await_suspend` (`TailInv`), the barrier queue or
the barrierTask (`QueueInv`); no two of them at once. `BarrierWaits` rests on
`CheckInv`: while a child is left, the count that was read is at least one too many
for the flag as it is read later, since flag and handle go in this order. `RootWaits`
takes the oldest task that is left: what it counts for is older and left too.
`TaskTreeLifeProofs` adds that a ready task stays ready (`ReadyInv`), that a flag
still set names a return object (`FlagInv`), and that a task down a line of ready
ones has its pool or is about to get it (`PoolInv`). A step of `TaskTree` is then, for
each task on its own, one of the steps of `TaskLife` or none (`Lives`).

**Deque.** `EveryItemOnce` does not say where items are. The live elements lie
between `top` and `End`, all in distinct cells of the newest buffer, since their
positions are less than a capacity apart (`Distinct`, a lemma on remainders); the
owner's stale copy of `top` only makes it think that there is less room than there
is (`OwnerInv`); what a thief has read is the oldest item for as long as `top` is where
it was, for whatever was pushed, copied or popped in between (`ThiefInv`). Each step
is one of four effects on the abstract queue: none, an item added, the newest taken,
the oldest taken.

**Pool.** A handle is in one place because deques hold none twice, are disjoint, and
hold together with the workers just the jobs that are ready (`HandleInv`). The end of a
job wakes at most one blocked sibling and one that awaits it (`OneEach`), so that one
push is enough for each. `NothingLeftToRun` cannot be read off `Leave`, which looks at
one counter. `RefsInv` says what a counter is, one for the job itself until it ends, one
for each job that has it for a parent and is not freed, and one of the InitTask; of the
`rooted` jobs that are not freed the first one has its parent freed, so that it is the
init coroutine, whose counter said that it was over and had no child left.

**Frame allocators.** The invariants of the run say nothing of unused memory. `IInv`
adds that the block `CurrentBlock` points into belongs to one thread and that no
frame lies at or behind `unusedIdx` (`CurrentBlockInv`, `FrameInv`), and that free
lists are empty until `~CurrentBlock` has run (`ListInv`), so that every block comes from
operator new and `~Stack` has nothing to give back.

Model-checked only: liveness under fairness (`EveryTaskRuns`, `EventuallyTaken`,
`AllEnds`, `EveryJobEnds`, `PoolStops`), which is beyond the prover, and the four
violations, which are about a counterexample.

## Not modelled

* `MPMCQueue.hpp` (vendored; its include is commented out) and the allocators
  `CoroAllocator` does not use (`Slab.hpp`, `FreeList.hpp`, `Back.hpp`,
  `CounterAllocator.hpp`, `AlignedAllocator.hpp`, `Singleton.hpp`): no program of the
  repository instantiates them.
* hwloc beyond the number of cores, the arithmetic of the random generator,
  compile-time helpers, tests and examples.
* Exceptions: `unhandled_exception` terminates; a pool that cannot pin a worker
  terminates too.
* More than one pool: `thread_queue_p` is one per thread, not per pool.
* Memory weaker than sequential consistency.

## Plan

Done: `TaskOrder`, `ResourceNode`; `WorkDeque`, `Deque`; `TaskLife`, `TaskTree`, `Pool`;
`FrameHeap`, `FrameAlloc`; of each the inductive invariant, its proof, the invariants
of the runs and the refinement.

1. `RootWaits` and `BarrierWaits` for programs that mix dispatches that count with
   others: of those that count, all the way up, each is waited for, as
   `NothingLeftToRunHolds` says of `Pool`.
2. A composition of the nodes with the frames in place of `Ready`. TLC does not reach
   it (the nodes alone have 256 k states with three tasks); the proof of `Refinement`
   and the use `TaskTree` makes of `TaskOrder` stand for it.
