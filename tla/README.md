# PrimJS: a verification development of its memory management

PrimJS is a JavaScript engine derived from QuickJS.  Its language (parser, bytecode,
builtins) runs on one thread; what is concurrent in it is below the language: a garbage
collector that marks and sweeps on worker threads while the program runs, the allocator it
sweeps, the thread pool it uses, the asynchronous work and the thread-safe functions of the
native API, and a bytecode cache that several runtimes and processes share.  This directory
models those parts in TLA+, checks the models with TLC on small instances, and proves with
TLAPS, for pools, heaps, queues and caches of any size, most of what TLC checks.

    cd tla
    tlc -workers 2 -config ConMark.cfg MCConMark     # one run
    tlapm ConMarkProofs.tla                          # all proofs of a module

`PROJECT.json` lists the runs, the hazards of the code and the properties that cover them,
and, for each definition that models code, the lines it stands for.

## 1. The system

| Part | State | Operations | Used by |
|---|---|---|---|
| Thread pool, `gc/thread_pool` | task queue, counters of active and waiting threads, `running`, `exit`, `notify_func` | `AddTask`, `Start`, `Stop`, `WaitFinish`, `SetMaxActiveThreadNum`, `SetNotifyFunc`, `Exit` | the collector |
| Collector, `gc/collector_ms` | phase (`con_mark_state`, sweep state, `forbid_gc`), `should_mark_new_obj`, recorders | concurrent mark, remark, finalizers, concurrent sweep, parallel collection, fast termination | allocator (triggers), interpreter (barrier) |
| Mark stack, `gc/mark_stack`, `gc_work_stack`, `gc_marking` | free and retired nodes, two nodes per thread, the node of the barrier | `push_back`, `PopOutNode`, `FinishNode`, `RetireNode`, `EnsureAvailNode`, prologue and epilogue | collector, barrier |
| Write barrier, `gc/collector.h` | - | store, then mark and push the value | every store of the interpreter into the heap |
| Allocator, `gc/ros_allocator*`, `space`, `ros_alloc_run.h` | runs of slots per size class, large and huge objects, heap limit | allocate, shrink, sweep a run, trigger | interpreter, sweep tasks |
| Page maps and groups, `gc/page_*`, `cartesian_tree.h`, `mem_map` | kind of each page, free pages, mark bitmaps | reserve, release, snapshot for the sweep | allocator, sweep |
| Handles, `gc/global-handles`, `persistent-handle.h`, `qjsvaluevalue-space` | blocks of handles, free list, weak state | create, destroy, make weak, finalize | N-API, embedder; a root of the collector |
| Pointer set, `gc/pointer_set.h` | open-addressing table | `Insert`, `Erase`, `RetainIf`, `Drain` | finalizer set, allocation set of the reference-counted mode |
| Weak records, `quickjs_gc.cc`, `quickjs.cc` | the records of `WeakRef`, weak collections, `FinalizationRegistry`; recorder of watched objects | insert, delete, reset at an object's death | finalizer phase |
| Generators and async functions, `quickjs_gc.cc` | frames suspended in the heap; `async_obj_recoder` | resume, suspend | remark |
| Code cache, `napi/common/code_cache` | entries, size, `dirty_`; the cache file | `insert`, `find`, `remove`, `input`, `output` | runtimes on several threads, several processes |
| N-API runtime, `napi/env/napi_runtime` | worker thread with its queue, state of each work, the runner, queue and thread count of each thread-safe function | queue, cancel, delete a work; call, acquire, release, abort, delete a function; detach | native modules, on any thread |
| N-API references, `napi/quickjs` | count and three flags of each reference, the lists of an environment | create, count up and down, delete, wrap, finalize, close | native modules; weak handles |
| Debugger, profilers, `inspector` | message queue, breakpoints, samples | - | embedder |
| Other bindings (values, wasm), parser, compiler, template interpreter | - | - | sequential |

How they meet.  The interpreter's thread is the only one that starts a phase of a
collection, from an allocation that crosses a threshold.  It posts tasks to the pool, and
either goes on running the program (marking, sweeping) or waits with `WaitFinish`, taking
tasks itself (root scans, remark, finalizers, parallel collections).  While workers mark,
the program stores into the heap and the barrier marks what it stores; the two share the
mark bitmap and the lists of nodes, and nothing else.  The finalizer phase runs on the
interpreter's thread and calls back into the embedder, into native modules and into the
program.  While workers sweep, the program allocates: the two share the labels of the pages
and the tree of free ones (under `globalLock`), and the lists of runs, which the program
leaves alone until the sweep has ended.  Native threads reach the interpreter only by tasks
that they post to it.

What is hard:

- *Interleaving.*  Visits of an object's fields, stores into them, the barrier that
  follows each store as a separate step, and allocation, all without a lock.
- *Roots without a barrier.*  The stack, the handles, and the frame of a suspended
  generator are written with no barrier; remark scans them again, the frames because each
  one is recorded when it is suspended.
- *Marking that is abandoned.*  In the pause suppression mode a marking that has ended is
  thrown away: the bitmap is reset, the entries in retired nodes stay.
- *Finalizers.*  They see objects that are about to be reclaimed, and callbacks of a
  `FinalizationRegistry` run before the sweep begins with the barrier switched off.
- *Walks over what changes.*  A collection walks over the blocks of handles while the
  finalizers it calls delete and create handles; the sweep walks over pages that are freed,
  reused and labelled anew.
- *Deletion.*  References, works and runners are deleted by callbacks, by tasks that are
  still queued, or when the environment closes, whichever comes first.
- *Condition variables.*  Four counters decide who sleeps, who waits and who is told that
  all work is done; some are read without the lock.
- *Files.*  Snapshots are written outside the lock, writes fail, processes end.

What makes each part correct: the pool executes a task once, `WaitFinish` does not return
early and always returns, `notify_func` means that nothing is queued or running; no node of
the mark stack is in two places and no entry is lost; an object is reclaimed, or announced
dead, only if the program cannot get at it; every collection ends; the cache never loses a
change, publishes an older snapshot over a newer one, or leaves a torn file; the pages and
slots of the heap are each in one place and two objects never share a cell; every handle of
a reclaimed object is found, and no finalizer is called twice; work that was queued is
completed with the right status, and what a thread-safe function accepts is delivered once,
in order, to callers that do not wait for ever.

## 2. The modules

| Module | Models | Abstract specification | Proofs |
|---|---|---|---|
| `ThreadPool` | `MplThreadPool`, every operation | `TaskPool` | `ThreadPoolProofs` |
| `MarkStack` | `PageList`, `GCWorkStack`, `GCMarking` and the order of tasks and waits in `collector_ms.cc` | `Worklist` | `MarkStackProofs` |
| `ConMark` | the heap, the interpreter's operations on it, the workers, the phases of `MarkSweepCollector` | `Heap` | `ConMarkProofs` |
| `RunList`, `Allocator` | `ThreeTierList`; runs, large objects, labels, and the sweep of `RosAllocImpl` | `ObjectStore` | `AllocatorProofs` |
| `GlobalHandles`, `References` | blocks of handles and the walk over them; the references of N-API on top | `WeakReferences` | `ReferencesProofs` |
| `NapiRuntime` | the worker thread, async work, a thread-safe function, `napi_detach_runtime` | `Mailbox` | `NapiRuntimeProofs` |
| `CodeCache` | `CacheBlob` and the file | - | `CodeCacheProofs` |
| `PointerSet` | `PointerSet`, every operation | `RegisteredSet` | `PointerSetProofs` |

The modules rest on each other by what they promise, not by sharing variables.  `ConMark`
has a set of entries where the code has nodes, and ends a wait for the workers when that
set is empty: that this is what happens is what `MarkStack` shows (`ImplementsWorklist`).
`MarkStack` ends a wait when no task is queued or running: that is what `ThreadPool` shows
(`ImplementsTaskPool`, `StoppedIsQuiet`).  `ConMark`'s `finalizerSet` is a set from which
the finalizer phase takes the dead; that the table behind it is one is `ImplementsSet`.
`ConMark` sweeps one object per step and ends the sweep when no unmarked one is left; that
the tasks over pages, runs and slots reclaim the unmarked objects, all of them and no others,
while the program allocates, is `ImplementsStore`, in which marking is any choice.  There in
turn a sweep ends when no page is left: the stopped pool is what `IsStopped` and `WaitFinish`
tell the collector (`IsStoppedMeansIdle`, `WaitFinishReturns`).  `References` composes
`GlobalHandles`, whose operations it EXTENDS, with a collection of one step for marking and
one for sweeping.

**ThreadPool.**  One action is one critical section under `taskMutex`, from the lock or the
wake-up to the unlock or the wait; `pc` says where each worker is in `WorkerFunc`, `client`
where the client thread is.  The mutex stays held between steps only while `notify_func`
is called.  A thread is blocked on a condition variable if its counter says so, and must
take the mutex again once notified; spurious wake-ups are bounded by `MaxSpurious`.  The
client obeys the two rules its callers obey: `SetMaxActiveThreadNum` on a stopped pool, and
no `WaitFinish` while `notify_func` is set.  Left out: `WaitFinishAndKeepNotifyFunc` as a
whole (it is `SetNotifyFunc` and `WaitFinish`), priorities, names, scheduling statistics.

**MarkStack.**  `inNode` and `outNode` are the nodes of each work stack, and
`inNode[Barrier]` is `PageGroups::node`.  Filling a full node is two steps, `PushBack` (the
node is retired) and `RefillNode` (another is taken, a task is posted or not), because
between them another thread may take and free the node.  `CheckCanDistributeTask` reads
counters with no lock, so both answers are possible (`PostInNode`).  A visit may push any
object that is not marked.  `mapped` and `pageCount` follow `CreateFreeNodeList` and
`ResetIfNeeded`; the node that an abandoned marking leaves to the barrier is forgotten, as
in the code, until the page list is reset.

**ConMark.**  `alloc`, `ref` and `roots` are the heap: the allocated objects, their fields,
and what the interpreter holds on the stack, in handles or in contexts.  `watched` are the
objects in `obj_finalizer_recoder` (a weak record refers to them, or their class has a
finalizer of the embedder), `finalizerSet` those with a finalizer of the runtime, and
`async_obj_recoder` the frames suspended while marking.  The interpreter has one action per
operation: `Alloc`, `Load`, `Drop`, `Deref` (of a `WeakRef`), `Watch`, `Register`,
`Unregister`, `SuspendFrame`, `HeapObjStore`, and `WriteBarrier` as a step after the store.
A worker takes an entry (`TakeEntry`) and visits one field at a time (`VisitField`).  The
phases are "idle", "mark" (the program runs), "remark", "final" (finalizers), "drain" (what
the finalizers keep is visited), "sweep"; a parallel collection goes from "idle" to
"remark".  `Host`, `Native`, `Frame` and `Targets` say which part each object may play.
`CallbacksStore` says whether a callback may change the heap, `BusyMode` whether markings
may be abandoned.  `phase = "undefined"` stands for what a collection does that reads the
frame of a reclaimed object.

**RunList, Allocator.**  A list of runs is a record with the links of the code, operations
are operators on it; the tier of a run comes from its utilisation and is left open.  A page
holds one run (`kRosimplDefaultPagePerRun` is one) or a part of a large object; an object is
the set of its cells, so that sharing is intersection.  The mutator has one action per path
of `AllocFromLocalRun`; where it takes pages, taking them and labelling them are separate
steps.  A worker is a program counter over one page: look at the label (of the snapshot),
lock the class, sweep the slots, update the list, clear the label, give the page back,
unlock; a large object is cleared label by label.  `globalLock` guards single steps.  A
failed allocation (`AllocRunFails`) may come at any time, as the heap limits decide.

**GlobalHandles, References.**  A node is a block and an index; `usedNodes`, `nextUsed` and
`prevUsed` are the list of blocks in use, `iterator` where `GlobalRootsFinalizer` stands.
Every callback of a finalizer is an interval between two steps in which the native module
may call any operation on references: create, get, count, delete, wrap and unwrap.  In a
finalizer that the closing of the environment calls it may also allocate and start a
collection; in one that a collection calls it allocates nothing, and does not close the
environment (the closing begins outside of collections).  A module uses what it was given
until it deletes it, and removes no wrap in the middle of that wrap's finalizer.
`Available` says that modules do not do what the code does not prevent: count up a reference
whose target is gone, and, in a finalizer that a collection calls, get or count up what
nobody leads to, from a weak reference whose handle the walk has not come to.  The run and
the theorems assume it; section 5 says what happens otherwise.  What is marked a finalizer
may get in either case.

**NapiRuntime.**  The JS thread executes the tasks of the host one after the other and is in
a callback between two steps; the worker thread, native threads and the JS thread call the
function.  What is posted to the host is a task that names what it points to, and
`TasksAreLive` says that it still exists when the task may run.  External, as the headers
ask: the host runs tasks in order and drops them when the runtime is detached; no blocking
call is made on the JS thread or, since detaching joins it, on the worker.  The phases of
`napi_detach_runtime` are "stopping" (it joins the worker), "closing" (it closes what is
registered, and callbacks run), "joining" (`~WorkerThread` stops and joins once more) and
"detached".  `LateWorker` says whether a callback in "closing" may queue the first work of
all, which creates a worker when the loop relies on there being none: finding 3 is what
happens then.  Works queued in "closing" when there was a worker are modelled in either case:
nobody executes them.  Left out are the other tasks of the worker (`napi_post_worker_task`
and the like): that they, too, create it is the same hazard.

**CodeCache.**  What happens under `mutex_` is one step; `output()` is a step for each of
`publish_mutex_`, the snapshot, the write, the rename and the end, so that other threads
run in between; a write or a rename may fail, and `Restart` ends a process between any two
steps.  Processes share `file` only.  A member of `Data` is a script with its hash.

**PointerSet.**  A table is a function from slots to pointers, its capacity the number of
slots.  `FindSlot`, the loop of `Erase` and `InstallTable` are operators on tables; where the
code loops over slots they are recursive functions of the number of rounds.  `RetainIf` and `Drain` are a step to begin and a step whenever the
callback returns (`KeepReturns`, `FnReturns`), so that `Insert` happens in between, as the
class allows; `old_slots` is what is left of the old table.  `Hash` is any function into
`HashValue`, chosen at the start.  A call that changes nothing (a pointer inserted twice, an
allocation that fails in `TryReserve`) is no step.

## 3. What is checked

| Run | Instance | Shows |
|---|---|---|
| `threadpool` | 3 workers, 3 tasks, 1 spurious wake-up; 240,744 states | safety of the counters and the queue, no lost wake-up, `WaitFinish` and the destructor return, `TaskPool` is implemented |
| `mark_stack` | 1 worker and the client, 3 objects, nodes of one entry; 321,395 states | no node in two places, no entry lost, `Worklist` is implemented |
| `conmark` | 2 objects, a generator, 2 workers, abandoned markings; 1,817,418 states up to symmetry of the workers | reachable objects are marked when the sweep begins; `Heap` is implemented |
| `finalizers` | a host object and one with a native finalizer that is registered, a field and a record, 2 workers, abandoned markings; 174,297 states | nothing the finalizer phase announces, keeps or leaves in its sets or on the mark stack is reachable, lost or freed; each collection and each sweep ends |
| `allocator` | 3 pages of 2 cells, classes of 1 and 2 slots, large objects of 1 and 2 pages, 2 workers; 1,517,384 states | pages, slots, lists and locks are in order at every step; `ObjectStore` is implemented |
| `references` | 3 references to 2 objects, blocks of one node; 1,167,565 states up to symmetry | handles and references match, in the middle of deletions too; what has a count is not reclaimed; `WeakReferences` is implemented |
| `napi_runtime` | 2 works, 2 items, a native thread beside the worker and the JS thread, a queue of one; 938,275 states | no task points to what is deleted, status and count are true, work completes, calls return, `Mailbox` is implemented |
| `code_cache` | 2 processes of different capacity, 2 threads, 2 names; 1,981,674 states | capacity, order of publication, no change lost, no torn file |
| `pointer_set` | 4 pointers, every hash modulo 8, tables of 4 to 16 slots; 316,331 states | half of the table is empty, every probe finds, a set is implemented |
| `registry_callbacks` | `CallbacksStore`, 3 objects | finding 1 |
| `stale_frames` | `BusyMode`, an object and a generator | finding 2 |
| `late_worker` | `napi_runtime` with callbacks of `napi_detach_runtime` that queue the first work | finding 3 |

**Bounds.**  *Pool*: `kThreadNumber` is two; three workers let two wait while one runs, and
three tasks let one be queued while another is posted by a third.  *Mark stack*: with nodes
of one entry every second push retires a node, so three objects fill the own node of a
thread, the barrier's and one retired one at a time; with the client, two threads execute
at once.  Two workers and two objects (184,475 states), and two workers and three objects
(2.7 million), pass as well.  The page list is reset once it has two pages instead of a
hundred: that is reached because abandoned markings forget nodes.  *Heap*: a lost object
needs a marked object, a value and something that hides it (a store, a load into the stack,
a frame, a weak reference); three places and one field, reused over any number of
collections, hold each of those, and two workers visit at the same time; weak references to targets are made
in `finalizers`, not in `conmark`.  In `conmark` the workers are interchangeable, and
symmetry is sound for its safety properties.  No run bounds the
number of collections, stores or allocations.  *Allocator*: a run of two slots
can be full, half used or empty, and a second class takes over its page while the first one's
worker still holds the lock; three pages let a list have a first, a middle and a last run, and
a large object of one page be cleared next to one of two that is being labelled.  No run
bounds the number of allocations or collections.  *References*: a block of one node leaves the
list with each handle and comes back at its head with the next; three are needed for a walk
whose block, and whose successor, both move.  *N-API*: one work can run while the other is
queued; a queue of one refuses and accepts; a native thread can wait while another caller
closes.  *Cache*: with two names and a file that may
hold entries at first there are hits, replacements, evictions and merges; `MaxOutput`
snapshots tell older from newer, `MaxUsed` orders evictions.  *Pointer set*: with an initial
capacity of four, two pointers fill a table of four and four one of eight, and every pattern
of homes in eight slots occurs: clusters of four, wrapped in every way, with two homes or more.
Pointers are interchangeable but for their hash, so symmetry is sound for these safety
properties.

**Fairness.**  Safety needs none.  `ThreadPool`: each worker goes on as long as it has the
processor (`WF` of its next step), and the client goes on inside an operation; nothing
obliges it to call one.  `NapiRuntime`: the worker thread goes on while it has a task or is
told to stop, the host goes on with the tasks it was given and callbacks return, and a caller
whose promise is set wakes up; no module is assumed to call anything.  The mutex is modelled by its critical sections, and weak fairness
suffices since none of the waits depends on winning it infinitely often.  `ConMark`: some
worker goes on while there is an entry (the pool wakes one, `NoLostWakeup`), the collector
goes on once it has entered a phase, and a callback returns.  The program is not assumed to
do anything, not even to trigger the next phase: so a marking that nobody completes may stay
for ever, and liveness starts at remark.

**Mutants.**  Each property of a passing run is broken by a plausible bug in the code (a
counter decremented twice, a missing notify, a dropped root, a task that is not posted, a
node freed twice...), one definition replaced by another; `PROJECT.json` lists them.

## 4. What is proved

Each theorem holds for every value of the constants that the named assumption of its module
admits.  The assumptions are what the code fixes: a node holds an entry at least, the pool
has a thread at least, the slots of a size class share no cell and fill
the page, `RootTasks` is at least one (the code posts four or five root tasks), a thread-safe
function is created with a count of at most `MaxCount`, the names of scripts are finitely many, the
initial capacity of a pointer set is a power of two and two at least.

| Module | Theorem | States |
|---|---|---|
| `ThreadPoolProofs` | `PoolTyped`, `PoolCounts`, `PoolStops`, `StoppedPoolIsIdle`, `NoWakeupIsLost`, `NotifiedWhenIdle` | `TypeOK`, `CountersExact`, `StoppedIsQuiet`, `IsStoppedMeansIdle`, `NoLostWakeup`, `NotifyOnlyWhenIdle` |
| | `ClientNeverWaitsInVain` | while the client waits, the mutex is free and a thread it waits for is awake |
| | `PoolImplements` | `Spec => ImplementsTaskPool` |
| `MarkStackProofs` | `StacksTyped`, `NodesAreSeparate`, `MarkedIsNeverLost` | `TypeOK`, `NodesInOnePlace`, `NothingLost` |
| | `StackImplements` | `Spec => ImplementsWorklist` |
| `ConMarkProofs` | `TypeCorrect`, `SweepIsSafe` | `TypeOK`; while the sweep runs, what the program can get at is marked |
| | `NothingReachableIsReclaimed`, `NoWorkerVisitsReclaimed`, `NoFinalizerOfReclaimed` | what is reclaimed is not reachable, not an entry, and in no finalizer set |
| | `ConMarkImplementsHeap` | `Spec => Heap!Spec` |
| `ReferencesProofs` | `ReferencesTyped`, `HandlesAlwaysMatch`, `CountedStaysPinned` | `TypeOK`, `HandlesMatch`, `CountedIsPinned` |
| | `ReferencesKeepPromise` | `Spec => ImplementsReferences` |
| `NapiRuntimeProofs` | `RuntimeTyped`, `TasksNeverDangle`, `StatusIsNeverWrong` | `TypeOK`, `TasksAreLive`, `StatusIsTrue` |
| | `QueuedWorkIsNotForgotten`, `BlockedCallIsNotForgotten` | who is to complete a work that is queued, and to answer a call that waits, is there and awake |
| | `RuntimeIsMailbox` | `Spec => ImplementsMailbox` |
| `AllocatorProofs` | `InsertKeepsList`, `EraseKeepsList` | what the operations of `ThreeTierList` leave is a list with the same runs and one more, or one less |
| | `HeapAlwaysInOrder` | `HeapInOrder` |
| | `HeapImplementsStore` | `Spec => ImplementsStore` |
| `CodeCacheProofs` | `CacheTyped`, `SizeIsExact`, `StaysWithinCapacity` | `TypeOK`, `SizeExact`, `GrowsWithinCapacity` |
| | `NoChangeIsLost`, `NeverGoesBack`, `ReplacedByWhole` | `CleanMeansPublished`, `PublishedInOrder`, `NeverTorn` |
| `PointerSetProofs` | `TableAlwaysOK` | `TableOK` |
| | `TableImplementsSet` | `Spec => ImplementsSet` |

Three modules have hypotheses.  The safety theorems of `ConMark` but for the first assume
`CallbacksStore = FALSE`, and must: finding 1 is a counterexample otherwise.  Those of
`References` assume `Available = TRUE`: section 5 has counterexamples to `CountedIsPinned`
otherwise, and JavaScript may then hold reclaimed objects, against `TypeOK`.
`TasksNeverDangle` and `StatusIsNeverWrong` assume `LateWorker = FALSE`: in the trace of
finding 3 a worker has a work in its hands that is told it was cancelled, and then deleted.
The other theorems of `NapiRuntime` hold with a late worker, too.  The markings that are
abandoned and the undefined step after finding 2 are included in what is proved.  What the
theorems name the runs check on an instance; `SizeExact` is proved only, as `code_cache`
compares the sizes with the capacity already.

None of these properties is inductive.  Each module of proofs states an inductive invariant,
one named conjunct per idea, shows that every action keeps it (a lemma per group of actions,
one step per action), and derives the properties from it.  TLC checked each invariant on the
instances of the runs before it was proved.

**The pool** (`PoolInv`).  The counters are the cardinalities of sets of program counters;
`Recount` says what one thread that joins or leaves a set does to them.  A wake-up is not
lost because of two facts at once: no thread sleeps while fewer are active than may be
(`EnoughAwake`: `AddTask`, `Start` and `SetMaxActiveThreadNum` wake one per place), and
while a task is queued a thread is awake or about to be, or there is room for another
(`SomebodyLooks`).  `notify_func` is called by a thread while all others wait and nothing is
queued (`CallerIsLast`): the mutex stays held, so nothing changes under it.  `StillGoing` adds
what the three places need where the client waits (`WaitFinish`, `Stop()`, the destructor):
that not all active threads wait while it waits for them to be done, that one is active while
it waits for the pool to stop, and that none waits or sleeps once it is told to exit.  It is
kept because the last thread to wait, to sleep or to leave tells the client (`LastTells`).

**The mark stack** (`StackInv`).  `Places` is where a node may be, a clause for each pair
of places.  `EntriesAreOwned` says who may be filling a node when: from it follows that the
epilogue finds the nodes empty.  `RetiredAreExpected` is what ends in `Worklist`'s promise:
from remark on, while there is a retired node, a task is queued or executed, or the client
or the barrier still is to retire its own node, which posts one.  `PendingIsCarried` follows
each marked object through nodes and hands until it is visited.

**The collection** (`SafetyInv`).

1. `HeldIsAllocated`: whatever the interpreter, a worker, a node or a recorder holds is
   allocated, and outside a sweep an allocated object refers to allocated ones only;
2. `PhasesAreClean`: which stacks are empty and which flags are set in each phase;
3. `MarkedLeadToMarked`: while marking, a field of a marked object leads to a marked one,
   unless the object is still an entry, or the field is still to be visited, or the value
   stored has its barrier pending, or the object is a recorded frame;
4. `MarkingKeeps`: roots are marked from remark on; in the finalizer phase some marked set
   that holds the roots is closed under references (the finalizers mark single objects
   without what they refer to, so the marked set itself is not); while the sweep runs, the
   marked set is closed.

Clause 3 is the tri-colour invariant of this collector, and each exception is a race the
code resolves: stacks by the wait for the workers, pending barriers because phases begin at
safepoints only, frames by the recorder that remark reads.  At the end of remark the
exceptions are gone and 3 gives 4, which is what the sweep and `Heap` need.

**References** (`RefInv`).  That a walk over the list of blocks comes to a block is
`Reaches`: every set of blocks that contains the first and is closed under `nextUsed`
contains it.  This says what a walk says without its length, so that linking a block at the
head and unlinking one anywhere are lemmas of first-order logic.  The heart is
`DeadAreAhead`: in the middle of a collection, whatever the finalizers have created,
deleted or reset, every handle of an unmarked object is in what is left of the walk.  It
holds because a block enters the list at its head, behind the iterator, with handles of
objects that somebody holds; and because `ReleaseNode` of the very block the iterator is in
leaves `nextUsed` of that block as it was.  `HandlesOwned` ties each node to one reference;
`FinalizedStay` keeps the reference whose finalizer runs from being freed under it.

**The N-API runtime** (`RuntimeInv`).  A task that is posted is an index into a sequence;
`WorkTasks` says that a work is in one of the four places it can be (the worker's queue, its
hands, the host's queue, the JS thread's hands), and only there, with the state that goes
with it; `RunnerTasks` that the `Finalize` of the runner is posted once and last.  Both hold
until `napi_detach_runtime` has joined the worker, when the host drops what is left.  What is
said of the worker's hands holds beyond that if no late worker is created (`NoLateWorker`).
`History` relates the states to what `execute_` and `complete_` saw.
`WorksInHands` is the converse of `WorkTasks`: a work that was queued and not completed is in
one of those places, and with `WorkerIsAwake` nothing lies in the queue of a worker that waits,
although `PostTask` notifies it only for the first task.  `QueueIsAwaited` is the same for the
thread-safe function, which posts a task only for the first call: while the queue holds calls
and the host runs tasks, one of its tasks takes the queue.

**The lists of runs.**  `IsList` says that some numbering of the runs in the list agrees with
the links in both directions and that the heads of the tiers are at the positions they must
be: that needs no walk, hence no recursion.  `SpliceIn` and `SpliceOut` give the numbering
after `Link` and `Unlink`; what is left is where the tiers begin, case by case (`BeheadIs`).

**The heap** (`AllocInv`).  It has two halves.  `HeapKept` is about pages: `HeapInOrder`,
what may be taken (`TakenTyped`), that every object in use is a slot of a run or a large
object that stands somewhere (`ObjectsArePlaced`), and `LargeInv`: large objects stand apart
from each other and from the pages the mutator has just taken, carry their labels but for
those a worker has cleared, and no label belongs to none.  The last part is why
`ClearLargePage`, which reads labels until one is not "large rem", stops where the object
ends although the mutator may be labelling the next pages: a first page never has that label.
`SweepKept` is about workers: two never have the same page, nor one that is still pending
(`WorkersApart`); a worker at a run knows whether the run is in the list, local, or was full
(`WorkersAtRuns`); a page still pending is what its snapshot says, although other pages
change (`SnapshotHolds`); and each object in use that is not marked is in a page that is
pending, or that a worker is about to sweep (`GarbageIsAhead`).  From the last follows that a
sweep ends with nothing left to reclaim, and from `ObjectsArePlaced` with `RunsInOnePlace`
that a slot that is free shares no cell with an object in use, which is `ObjectStore`.

**The code cache** (`CacheInv`).  `publish_mutex_` admits one thread of a process at a time
(`OnePublisher`), and a snapshot that was taken is newer than what was published
(`Snapshots`): that is the order of publication.  `SnapshotIsKept` is the race between
`output()` and the other threads: as long as nobody dirties the blob, it agrees with the
snapshot that is being written; `CleanIsKnown` carries that over the rename, a failed write
and a restart.  The sizes (`Sized`) rest on that.  `SizeOf` is the number of bytes of a set of
entries, and `SizesAdd`, `SizeOfOne` and `SizeWithoutSome` say how it changes with the set;
`current_size_` is corrected by differences, `make_room` relies on its being exact, and that
it is makes the last entry evicted leave room.

**The pointer set** (`SetInv`).  `Valid` says that a probe for what is stored meets, before
it gets there, neither an empty slot nor the same pointer; with half of the slots empty every
probe ends (`ProbeEnds`) and finds what is stored (`ProbeFinds`), and there is one slot for
each pointer.  `Shifted` is the invariant of the loop in `Erase`: after d rounds, the hole is
at most d slots behind the first one, the pointers but the erased one are in the slots but
the hole, and only probes for what is more than d slots behind the first hole pass the hole.
A round keeps it (`RoundShifts`), and the cluster ends before the loop has gone around
(`ClusterEnds`), whether or not it wraps around the end of the table.  The provers have no
induction over data; but that there is no infinite descent in finite sets is a fact of the
library, from which `Least` and `Induction` follow for a set of numbers, and `LoopRuns` for
a function defined by rounds.  Capacities are the initial one times a power of two
(`Powers`), which is why doubling from below ends at one that holds the size and no more
(`DoubledHolds`).

Only model-checked: liveness (`WaitFinishReturns`, `DeleteReturns`, `CollectionReachesSweep`,
`SweepEnds`, `WorkCompletes`, `CallsReturn`).  Fairness and `ENABLED` are out of the prover's
reach.  What is proved of the first two and the last two is the part that needs neither: at no
time has everybody gone to sleep, or forgotten, while somebody waits (`ClientIsServed`,
`QueuedWorkIsServed`, `BlockedCallIsServed`).  These three are defined with their proofs;
the runs check the liveness itself.

## 5. Findings

1. **A FinalizationRegistry callback can resurrect an object that the sweep reclaims**
   (`quickjs_gc.cc:31238`, run `registry_callbacks`).  `reset_weak_ref_gc` calls the
   callback inside `DoFinalizerPhase`, after `con_mark_state` was cleared.  Objects whose
   finalizer comes later in the loop are unmarked and still lead from their `WeakRef`s.  A
   callback that dereferences one and stores it into a marked object makes it reachable with
   no barrier.  `CheckConMark`, which the collector runs at the end of the phase in checking
   builds, states the opposite (`collector_ms.cc:819-820`).
2. **Recorded frames outlive the objects** (`collector_ms.cc:763`, run `stale_frames`).
   `async_obj_recoder` is cleared by concurrent collections that complete, and by no other.
   After an abandoned marking, a parallel collection may reclaim a recorded generator; the
   next concurrent collection reads it.

3. **A worker created while the runtime is detached** (`napi_runtime.cc:262`, run
   `late_worker`).  `~napi_runtime__` stops the worker it finds "to prevent data racing"
   (213), then calls callbacks; if no work was queued before, the first that such a callback
   queues creates a worker, which nobody stops until everything is closed.  `onClose` takes no
   lock "since the worker thread is stopped" (332): it cancels, completes and deletes a work
   that the worker is about to execute or executes.  `StatusIsTrue` and `TasksAreLive` do not
   hold then either.

What the code does not prevent, and the run `references` excludes with `Available`
(`js_native_api_QuickJS.cc`).  With `Available = FALSE` in `References.cfg`, TLC finds
`CountedIsPinned` violated; there are three ways, each found with the other guards kept.

- `napi_reference_ref` (1954) never looks whether there still is a target.  The comment above
  it (1951-1953) promises an error for one that is unavailable, and a pinned object otherwise;
  the count becomes 1 and nothing is pinned.
- In a finalizer that a collection calls, the same call makes the handle of an unmarked object
  strong, and the sweep reclaims it.
- There, `Reference::Get` (404) gives out the unmarked target of any weak reference whose
  handle the walk has not come to.  A finalizer that creates a strong reference to it keeps a
  handle of an object that the sweep reclaims.  The comment of `napi_get_reference_value`
  (1985-1987) promises NULL for what is no longer available.

Observed, and not claimed as errors: what `input()` reads on one thread while another is
between the snapshot and the end of `output()` is missing from the file although the blob
is clean afterwards (`CleanMeansPublished` excepts it); `input()` may exceed the capacity;
an abandoned marking loses the barrier's node until the page list is reset; a weak reference
with a finalizer that is deleted before its object dies is freed only when the environment
closes; an empty local run is given back by a parallel collection only.

## 6. Not modelled

- The language, the template interpreter, the wasm binding and the conversions of N-API:
  sequential, and nearly all of the repository's 200,000 lines (the interpreter and its
  generated variant, Unicode tables, three engine bindings, a vendored wasm runtime).  What
  they do to the heap is the interpreter of `ConMark` and the mutator of `Allocator`; a model
  of the rest would be a transliteration, and the part of the lines that the models stand for
  is small for that reason.
- The profilers and the debugger: see the components of `PROJECT.json`.
- Inside the collector: the second visit of embedder's references after the finalizers, and
  its wait (`collector_ms.cc:751-761`); the words of the bitmap, torn reads of 16-byte values, iteration over
  recorders that a callback changes, and the choice of the next phase (thresholds, eagerness,
  `forbid_gc`).
- Inside the allocator: huge objects, reallocation and shrinking in place, heap limits and
  accounting, page groups, the Cartesian tree behind the set of free pages, the order of the
  free lists.
- Handles of atoms and plain values, which are never weak; N-API references in the
  reference-counted mode and in the other engines.

The hazards of `PROJECT.json` that no property covers say what each could hide.

## 7. Plan

What is left.

| Module | Question | Theorems, abstract specification |
|---|---|---|
| `Collector` | which phase follows which; may a collection start in one; when is an allocation given up? | phase machine of `ConMark` |
| `FreeRegions` | the Cartesian tree of free regions: split, merge, best fit | a set of pages, as in `Allocator` |
