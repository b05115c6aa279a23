# A TLA+ development of the Task-Aware MPI library

TAMPI makes MPI calls from tasks safe and cheap: instead of blocking a CPU in
MPI, a call is turned into a non-blocking MPI operation that is *delegated* to a
polling task. The calling task is blocked in the tasking runtime (blocking mode,
`MPI_TASK_MULTIPLE`) or gets an external event that delays its completion
(non-blocking mode, `TAMPI_I...`). This directory holds models of the parts of
the library in which that can go wrong, the configurations that model-check
them, and machine-checked proofs.

## 1. Inventory of the system

| part | state | operations |
|---|---|---|
| wrappers (`src/c/*.cpp`) | none | decide by the modes: delegate, call native MPI, or fail |
| `Operation`, `CollOperation` | the arguments of a call, partly in unions | construct in an object of the pool, issue the non-blocking MPI function |
| `Environment`, `InitFinalize.cpp`, `Utils.cpp` | `State` (preinitialized, initialized, autoInitialize, thread level, both modes), a mutex, a thread-local awareness | initialise and finalise, automatically with MPI or explicitly; get and set properties |
| `TaskingModel`, `Polling` | the symbols of the runtime, two polling instances (`_mustFinish`, `_finished`) | load the symbols, choose the polling function; register and unregister polling tasks; events, block and unblock of the runtime (ALPI) |
| `OperationManager`, `TaskContext` | the context of a call | bind an event, allocate the operation, push it, block |
| pre-queues (`MultiLockFreeQueue`, `BoostLockFreeQueue`) | a ring per CPU, one for collectives | push by the task on its CPU, pop by the polling task |
| `Allocator` | central queue, a cache per CPU | alloc by tasks, free by the polling task |
| `TicketManager` | capacity, pending count, local arrays of a batch | pop, issue, test, hand over |
| `TicketManagerInternals`, `Ticket` | requests, tickets, mappings by position | append, look up, move |
| `TicketManagerCapacityCtrl` | capacity, saturation epoch | grow when saturated for too long |
| `CompletionManager` | queue of contexts | hand over by the polling task, process by the completion task |
| `PollingPeriodCtrl`, `SlowStart...` | period, misses | next polling period |
| `SpinLock` | cells, head, next | lock, try_lock, unlock |
| `EnvironmentVariable`, `StringSupport` | the text of a variable | split, parse |

Who runs concurrently: the user tasks (any number, one per CPU at a time), the
polling task, the completion task (optional), and MPI itself. User tasks and the
polling task meet in the pre-queues, the modes and the allocator; the polling
task and the completion task in the completion queue; the completion (or
polling) task and the user tasks in the runtime's events and blocked tasks.

The behaviours that are hard to get right, with the line where they bite, are
listed under `hazards` in `PROJECT.json`.

## 2. Modules

| module | models | role |
|---|---|---|
| `ALPI` | the runtime: events of a task, block and unblock with one remembered unblock | used by `TicketManager` |
| `MPI` | requests: issued, completed by MPI when what they need was issued, released by a test; an operation may return a null request | used by `TicketManager` |
| `TicketManager` | the way of an operation from `OperationManager::process` to `completeEvents` | the core |
| `TaskAware` | what the library promises: an operation is started, finished by MPI, released; a task completes after its operations | abstract specification |
| `RequestArrays` | the arrays with positions, tickets, batches, holes and the replacement | detail of the core |
| `RequestSet` | the set of requests in flight | abstract specification of `RequestArrays` |
| `SpinLock` | the ticket-array lock | component |
| `MultiLockFreeQueue` | the P2P pre-queues: a ring per CPU, cached counts, both pop policies | detail of the core |
| `FifoQueues` | bounded FIFOs | abstract specification of `MultiLockFreeQueue` and `BoostLockFreeQueue` |
| `BoostLockFreeQueue` | the pre-queue of the collectives, composed with `Allocator` and the CPUs | detail of the core |
| `Allocator` | the pool of operation objects: caches over a central queue | component |
| `Operations` | every wrapper, every constructor, `issue`: what becomes of the arguments of a call | component |
| `TaskingModel` | loading and calling the runtime's functions, both forms of polling task | component |
| `TicketManagerCapacityCtrl` | `TAMPI_CAPACITY`, its timeout and `evaluate`, under the polling loop | component |
| `PollingPeriodCtrl` | `TAMPI_POLLING_PERIOD` and the slow start policy | component, used by `Polling` |
| `Polling` | a call of the polling function: the check of the requests, then the period it returns | composes the last two |
| `StringSupport` | texts of environment variables and how they are parsed | used by the last three |
| `Environment` | life cycle, modes, properties, polling tasks, CPUs and the mutex | component |
| `MCTicketManager` | programs and constants for TLC | instance |
| `TicketManagerInv` | the inductive invariant `IInv` of the core | proofs |
| `UserTaskProofs` | lemmas about the core's operators; the steps of the user tasks, the completion task, MPI and the clock | proofs |
| `TicketManagerProofs` | the steps of the polling task and the core's theorems | proofs |
| `RequestArraysProofs` | theorems about the arrays | proofs |
| `LockFreeProofs` | theorems about `SpinLock` and `MultiLockFreeQueue` | proofs |
| `BoostLockFreeQueueProofs` | theorems about `Allocator` and `BoostLockFreeQueue` | proofs |
| `RuntimeProofs` | theorems about the capacity, the period (`Polling`) and `TaskingModel` | proofs |
| `EnvironmentProofs`, `OperationsProofs` | theorems about these components | proofs |

### TicketManager

Three kinds of processes.

* A *user task* `t` runs `Program[t]`, a sequence of operations. `Call` is
  `process` up to the push (context, `bindEvents`, allocation), `AddOperation`
  the push (one atomic store publishes the element; a full queue makes the
  library fail or the caller spin, by `FullFailure`), `WaitEventsCompletion` the
  block of the blocking mode, `Finish` the end of the body.
* The *polling task* runs `checkRequests`; `ppc` and `stage` say in which loop it
  is. `PollBegin`/`LoopHead`, `Pop`, `PopEnd`, `Issue`, `ImmediateTest`,
  `Deliver`, `TransferEnd`, `CheckBegin`, `TestBatch`, `BatchEnd`, `LoopEnd`
  follow the code in order. `Evaluate`, called by `LoopEnd`, is the capacity
  control; `TimeoutElapses` is the clock.
* The *completion task* runs `process` (`ProcessBegin`, `ProcessContext`).

`Progress` is MPI. Abstractions: the operations a stage pops are taken one at a
time from the front of any of its queues, which includes the cyclic order of the
code; contexts are handed over one at a time; the general arrays are the set of
their operations (justified by `RequestArrays`, which is proved to implement
that set); one manager stands for both languages, whose code is the same
template; the exhaustion of the allocator is left to `Allocator` and
`BoostLockFreeQueue`. `unissued` and `notified`
are history variables.

### RequestArrays

`AssociateRequest` appends, `Complete` is MPI, `TestBatch` is one iteration of
the do-while loop of `internalCheckRequests` (MPI nulls what it reports, the
tickets are completed), and `SkipHole`, `FillHole`, `LeaveHole` are the
iterations of the two nested loops of the replacement. MPI reports positions in
ascending order within one call: the replacement depends on it, and the MPI
implementations do so; with `MPI_Testany` and `MPI_Test` the code builds the
list in that order itself. Memory that the code does not initialise is null
here and never read before it is written.

### SpinLock

Each atomic access is a step, as are the two halves of `unlock`. The model is
sequentially consistent. `MaxTicket` bounds the tickets in TLC; the proofs hold
for every bound. The code's 64-bit tickets do not wrap in the life of a process.

### MultiLockFreeQueue

A producer looks at the tail (`Push`), fills the cell (`FillCell`) and publishes
the head (`StoreHead`). The consumer is in `pop`: it looks at one head after the
other (`UpdateRemaining`), shares the elements out (`Share`, cyclic policy only),
copies cells (`CopyCells`) and publishes the tail (`StoreTail`). A CPU runs one
task at a time, so a queue has one producer at a time. The producer loads the
tail with relaxed order; that it does not fill a cell before it has read the
tail rests on the branch in between, which the model takes for granted. The
library only uses the cyclic policy, and pushes one element at a time; `MultiInit`
picks the policy and what a push does on a full ring. `total` is the local sum
of `updateRemaining`. `totalRemaining` is private to the consumer and is deducted
at the start.

### Environment

Tasks share `NumCPUs` CPUs without preemption. A task leaves its CPU when it
waits in the runtime (`AwaitFinished`, a delegated communication, a polling task
between two calls) and keeps it while it waits for the `std::mutex`. `Main` calls
the init and finalize functions; every user task may get and set properties and
communicate. The critical sections that only assign are one step; `initialize`
and `finalize` are one step per store that another task can observe, with the
mutex held. `genericPolling` and `suspendPolling` coincide at this level. Assumed
of the program: MPI is initialised once, the library is not initialised again
while it is, and nobody communicates during a finalisation.

### Operations

A value is the pair of a task and the name of one of its parameters, or a
literal, so that a wrong, missing or stale argument is visible. Each wrapper is
the list of its parameters and the list of what it passes to `process`; each
constructor is the list of the members it writes; `issue` is a table from codes
to functions and members. An object keeps what a constructor does not write, and
a member of a union that was written as the other member reads as garbage.
Overload resolution (`Viable`) tells pointers from everything else, and
`OverloadAssumption`, which TLC evaluates, says that it finds one constructor for
every call. `MPI_Call` and `MPI_CallNative` are the two branches of `MPI_X`,
`TAMPI_ICall` is `TAMPI_IX`. Point-to-point operations and collectives share no
object and no table entry: each behaviour is about one kind.

### Allocator and BoostLockFreeQueue

`alloc` is one step when the cache has an object, otherwise `AllocMiss`, `Lock`,
the two halves of the central queue's pop (`PopCopy`, `PopPublish`), `Unlock` and
`Fill`; the lock is the one of module `SpinLock`. Containers are sets. `Free` is
the polling task. `BoostLockFreeQueue` composes the collective pre-queue with this
pool: a task allocates (`Begin`, `GoOn`), pushes what it got (`Push`) and does not
leave its CPU meanwhile; the polling task, on a CPU that is idle, takes
operations (`TakeCopy`, `TakePublish`) and frees them. Boost's
single-producer single-consumer queue is external: each side writes or reads the
cells and then publishes its index. The library's pool has fewer collectives
(8000) than the queue has cells (32K); the instance has the same number of both,
the worst case of that relation.

### TaskingModel

`called` holds the runtime's functions called in the last step and `loaded` the
symbols that are not null. `Init` picks any runtime (version, missing groups,
suspension) and any `TAMPI_POLLING_MODE`. `Initialize` is
`TaskingModel::initialize` and the registrations after it, `Poll` an iteration of
`genericPolling` or an execution of `suspendPolling`, `AskToFinish` and
`AwaitFinished` the two parts of `unregisterPolling`; any checked call may fail
(`CallFails`). A runtime that claims a version or a feature provides its
functions.

### TicketManagerCapacityCtrl, PollingPeriodCtrl and Polling

A text is a sequence of components, each a number, a word or empty; `splitKeepsAll`,
`getlines`, `parse` and `EnvNumber` say what the library makes of it. A number
that `parseCapacities` leaves uninitialised is any of the numbers. The capacity
control runs under `checkRequests` (`CallPolling`, `Insert`, `Check`,
`Evaluate`) with a program whose first operations cannot finish before operation
`Needed` is issued, and which may `Repeat`. In `Polling` the call of `getPeriod`
follows the evaluation of the capacity in the same step of the polling task,
with the number of requests the check has completed; the period control is
constructed when the library is loaded, the ticket manager at its first use. The
completion task's period control is a second instance of the same class, fed by
`CompletionManager::process`, and not composed. The periods are doubles in the code and multiples of
1/`Unit` here, rounded down; the factor is kept exactly. The rounding may reach
the minimum a check earlier than the double does.

## 3. Runs

| run | instance | properties | shows |
|---|---|---|---|
| `core_safety` | 2 tasks, 4 operations (blocking, non-blocking, a collective), 2 CPUs, capacity that grows, no completion task | `ReleasedOnlyWhenFinished`, `StatusSavedOnRelease`, `HandlesAlive`, `ExactlyOnce`, `OneUnblockAhead`, `CapacityRespected`, `IssueOrder`, `AllocatedWhileInUse`, `IInv` | all safety properties, and `IInv` |
| `core_liveness` | a capacity of 1 filled by a receive that needs later operations; completion task, `MPI_Testany`, no immediate test, spinning pushes, null requests | `ExactlyOnce`, `TasksComplete`, `KeepsPromise` | none lost, every task completes, the library implements `TaskAware` |
| `core_null_status` | MPI returns a null request | `StatusSavedOnRelease` | **violation**: the status is not stored |
| `spinlock` | 3 threads, 2 cells | `MutualExclusion`, `NoOvertaking`, `Served` | exclusion, order, every waiter is served |
| `request_arrays` | 5 requests, 4 positions, batches of 2, `MPI_Testany` | `ArraysCompact`, `TicketFollowsRequest`, `ReplacementInBounds`, `ImplementsSet` | compact arrays, own tickets, refinement to `RequestSet` |
| `environment` | 2 tasks, 2 CPUs, two initialisations | `ModesServed`, `NoUseAfterDelete`, `QuietWhenFinalized`, `ProvidedHonestly`, `FinalizedWithMPI`, `FinalizeReturns`, `DelegatedServed` | modes served, no use after delete, clean finalisation, finalisations end, delegated communication is served |
| `environment_one_cpu` | the same on 1 CPU | `FinalizeReturns` | **violation**: a finalisation hangs |
| `p2p_queue` | 2 rings of 3 cells, 4 pushes on each, pops of 2 and 3, both policies, spinning and failing pushes | `StaleIsSafe`, `CyclicFair`, `ImplementsFifos`, `PopReturns` | stale counts are safe, fair shares, every pop returns, refinement to `FifoQueues` |
| `operations` | 2 tasks, all 22 procedures, one object of each kind | `IssuedAsCalled` | what is issued is what was called |
| `collective_queue` | 2 CPUs, 3 objects in batches of 2, a ring of 3 elements, 5 operations | `OneOwner`, `FailsOnlyWhenExhausted`, `ImplementsFifo`, `PushReturns` | one owner per object, failure only when the pool is exhausted, refinement to `FifoQueues`, every push returns |
| `polling` | settings of up to 3 components over 3 numbers and 2 words, for one of the two controls; 6 operations, the fourth needed by the first | `CapacityHolds`, `PeriodInRange`, `DeadlockBroken`, `PeriodAdapts` | the capacity holds, a saturation ends, the period stays in its range and adapts |
| `tasking_model` | 3 initialisations, runtimes 1.0 to 2.2, all polling modes | `NoNullCall` | no null function is called |

Bounds. Two tasks and four operations let a batch hold operations of both tasks
and both kinds, leave some in the queue, and let the completions overtake the
issue order; a queue of length 1 or 2 gets full; capacities from 1 to 3 with
batches of 1 or 2 give full arrays, several batches per pass and a growth. Three
threads on two cells make two waiters share a cell. Four positions in batches of
two give every pattern of holes before, behind and between live requests over
two batches. `MaxPolls = 4` polling instances allow two initialisations with
both tasks, so that leftovers of the first would be seen in the second.

Rings of three cells with four pushes get full and wrap around in the middle of
a pop, and a pop of 2 from two queues with more elements leaves a rest that the
cyclic policy has to share fairly.

One object per kind in `operations` makes every pair of procedures use it one
after the other, which is the case in which a stale member could matter. In
`collective_queue` three objects in batches of two let the central queue run out
while the cache of the other CPU still holds one, the tasks can occupy both CPUs,
and five operations go around the ring's four cells. The numbers of `polling`
are 0, 1 and one above both `CapacityLimit` and `MinBase`: minima of 0, maxima
below and above what the program needs, periods of 0, static and dynamic ranges,
and settings the constructors reject. Only one of the two controls is configured
at a time, the other has its default; the program repeats, so that checks that
always complete something and checks that never do both go on for ever. Two
initialisations leave symbols loaded for modes the third does not ask for.

Deadlock is not checked: programs end, the pushes, the lock's tickets and the calls of the
environment are bounded, and `ErrorHandler::fail` stops the execution.

Fairness. In `core_liveness` the runtime runs each ready task, the polling task
and the completion task (weak fairness of their steps), MPI progresses what it
can complete, and the clock advances. In `spinlock` a thread that spins or holds
the lock keeps running; nobody is obliged to call `lock`. In `environment` the
runtime dispatches every ready task again and again and the mutex is granted if
it is free often enough (strong fairness): the runtime's scheduler is a queue of
ready tasks, and the mutex is contended only by short sections besides
`finalize`. In `p2p_queue` the polling task keeps running while it is in `pop`.
In `collective_queue` a task on its CPU goes on, the locks serve their waiters in
turn (which `spinlock` shows), and the runtime runs the polling task if a CPU is
idle again and again (strong fairness of each). In `polling` the runtime calls
the polling task for ever, time passes, and MPI finishes what it can.

### What the violations show

1. `core_null_status` (`TicketManager.hpp:380`): an operation that MPI completes
   at once with `MPI_REQUEST_NULL` is released without a status, although
   `OperationManager.hpp:44` promises one.
2. `environment_one_cpu` (`Environment.hpp:258`, `TaskingModel.hpp:215`):
   `unregisterPolling` waits in the runtime so that a single CPU does not hang,
   but with the mutex held. A task that gets a property meanwhile waits for the
   mutex on the CPU, and the polling task never runs again.

Four smaller disagreements that the modules have, and that no run is spent on:

* `InitFinalize.cpp:41` says of the automatic initialisation in `MPI_Init` that
  "no mode is enabled"; an MPI library that provides `MPI_THREAD_MULTIPLE` by
  default gets the non-blocking mode (`EnableNonBlocking` in `Environment`).
* `Alltoallw.cpp:27`: without the blocking mode `MPI_Alltoallw` fails
  (`MPI_CallNative` in `Operations`), where the library's README (line 527) has
  blocking procedures converted to the native ones, as every other wrapper does.
* `SlowStartPollingPeriodCtrl.hpp:69`: `MinBase` is applied after the maximum,
  against the assertion at line 77; hence the premise of `PeriodInRange`.
* `TicketManagerCapacityCtrl.hpp:111`: a minimum of 0 is accepted, and doubling
  stays at 0; hence the premise of `DeadlockBroken`.

## 4. Proofs

All for every value of the constants under the named assumptions of the modules
(of the core `QueueAssumption`, `BoundsAssumption` and `ProgramAssumption`: the operations are finitely many and each is called at one place of one
program; of the others `ArraysAssumption`, `SizeAssumption`, `QueuesAssumption`,
`AllocatorAssumption` and the `QueueAssumption` of `BoostLockFreeQueue`,
`TextAssumption`, `CapacityAssumption`, `PeriodAssumption`,
`TaskingModelAssumption`, `ObjectsAssumption` and `OverloadAssumption`, and `EnvironmentAssumption`, which asks for two polling
instances at least: without them the first initialisation could not take place).
They give constants their types and say that sizes are not zero; only
`OverloadAssumption` says more, and it is about the wrappers alone: each call of
`process` compiles, so exactly one constructor is viable. TLC evaluates every one
of them in the runs.

**Core.** None of the properties is inductive: that an operation is released only
when finished depends on where it is. `IInv` says, by the state of an
operation's request, in which of the places it can be (`WhereOperationsAre`), that no place
has it twice (`NoDuplicates`), which local arrays are in use at each point of the
polling task (`LocalsInUse`), how block and unblock stand for each task
(`Handshake`), and that the room still promised to the pops fits the capacity
(`RoomLeft`). `UserTaskProofs` and `TicketManagerProofs` have one lemma per action,
with one step per conjunct the action can disturb; frame lemmas cover the rest.
`TicketManagerProofs` also combines them (`Invariant`) and derives `TypeCorrect`,
`EventsCounted`, `NotReleasedEarly`, `StatusSaved` (without null requests),
`NoDanglingHandle`, `NoneLostNoneTwice`, `UnblocksDoNotPileUp` and
`ArraysNeverOverflow`. `FreedWhenUnused` needs a further invariant, `AllocInv`:
the allocated operations are exactly those a task is about to push, those in the
pre-queues and those of the batch under way, and what a batch no longer waits to
issue was issued. `IssuedInPushOrder` needs `OrderInv`: of what was pushed on a
queue and not issued, the popped part and the queued part are each in the order
of the pushes and the first precedes the second, and no two queues share an
operation. The lemmas `OrderedBoth`, `OrderedMove`, `OrderedOther` and
`OrderedTake` say what a push, a pop and an issue do to such orders; they speak
of the places of elements, not of `SelectSeq`, so that no induction is needed.

`PromiseKept` is the refinement of `TaskAware`. The phase of an operation is a
function of its request and of whether it was called and notified. A call is a
start; `Progress`, or an `Issue` that finishes on the spot, is MPI's finish; the
notification, by either the polling or the completion task, is the release, and
completes the task as well when it fulfils the last event of a finished body; a
`Finish` with no open event completes the task; every other step changes nothing
the promise speaks of. It takes `IInv` at both ends of a step, and that a
completed task has all its operations notified (`CompletedNotified`).

**Request arrays.** `ArraysInv` is the loop invariant: indices are ascending,
exactly the reported positions are null, what lies between the hole `c` and the
position `replacement` is untouched, and the holes behind `replacement` are the
ones `reverse` has passed. From it: `CompactArrays`, `TicketsFollow`,
`ReplacementBounded`, and `ArraysImplementSet`, the refinement of `RequestSet`
step by step.

**Spinlock** (`LockFreeProofs`). `LockInv`: the tickets drawn and not served are distinct and lie in
`_next .. _head - 1`, the holder's is `_next`, no cell is ahead of `_next`, and
between the two halves of `unlock` every cell is behind it. From it: `LockExcludes` and `LockIsFifo`, for any number of threads, also
more than cells.

**P2P rings** (`LockFreeProofs`). `RingsInv`: the places a producer counts on and
the cell it has filled are beyond the elements in the ring, the elements the
consumer counts on are in it, and what it has copied are the oldest. From it
`StaleCountsAreSafe`, and `RingsImplementFifos`, in which only `StoreHead` and
`StoreTail` are steps of the FIFO. `ShareInv` is the loop invariant of
`cyclicRoundRobinPop`: the queues with elements left have given the same in this
round, a share more if they were visited, no other has given more, and a round
of more than one element per queue has enough requests left to reach all of
them. Hence `CyclicPopIsFair`.

**Allocator** (`BoostLockFreeQueueProofs`). `PoolInv`: only the holder of the lock is between the pop and the
unlock (`OneConsumer`), what it has copied is still in the central queue until it
moves the read index (`CopiedStillThere`), and the central queue, the caches, the
batches in hand and the objects in use partition the pool (`Everywhere`,
`Disjoint`). The second is why the lock has to span the whole pop. From it:
`PoolHasOneOwner`, for the pool alone and under the queue. With `CachesBounded` (a
cache is filled only when empty, with a batch less one) the objects of the other
CPUs can be counted: `AbortsOnlyWhenExhausted`.

**Collective queue** (`BoostLockFreeQueueProofs`). `RingInv`: who writes holds
`_adderMutex`, what was written is in the free cell at the write index, and what
the polling task has copied is the oldest part of the queue. From it
`QueueImplementsFifo`.

**Capacity and period** (`RuntimeProofs`). `CapacityInv` adds types, and that nothing is in flight before the
constructor has run, to the bounds; `ExtractedNat` and `GetlinesComponents` say
what the parser can produce from any text. From it: `CapacityNeverExceeded`.
`PeriodInv` adds to `PeriodInRange` that the limits an accepted setting leaves are
numbers, in order; the rest is arithmetic on the rounded division. From it:
`PeriodStaysInRange`.

**Environment.** `EnvironmentInv` says for each place of `Main` in the
initialisations and finalisations what the flags and the mutex are (`LifeCycle`),
which modes are on (`Modes`) and which polling tasks exist and are not asked to
stop (`PollingTasks`); `InstanceAndTask` ties each instance to where its task is,
and `Used` counts the instances, so that a new one is really new. It is needed
because each property relates two of these: that a mode has its task
(`DelegatedToLivingTask`), that an instance outlives its users
(`DeletedAfterLastUse`), that nothing is left (`NothingLeftBehind`), that the
provided level is the mode's (`ProvidedIsTrue`), and that the library ends with
MPI (`FinalizedTogether`).

**TaskingModel** (`RuntimeProofs`). `BindingInv` says for what each piece of state stands: a chosen
polling function for the basic functions and, if it is the suspending one, for
those of suspension; a mode, or an operation delegated in it, for the functions
of that mode. From it: `NeverNull`.

**Operations.** `IssuedAsCalled` is a statement about tables and about recycled
memory, and the proof keeps the two apart. The tables: one lemma per procedure
(`SendAgrees` ... `ScattervAgrees`) gives, for each argument of the call that
`issue` makes, the parameter of the constructor that sets the field and shows
that the wrapper passed its own parameter of that position for it; with
`OverloadAssumption` a constructor that is viable is the one that is used
(`ConstructorUsed`), and `SlotsDiffer` says that no constructor writes two members
of one union. The memory: `OperationsInv` says that an object in a pre-queue is of
the pool of its kind and holds, in every slot its constructor writes, the member
written and the value of its task (`Holds`). The property alone is not inductive,
as it says nothing of the objects: the invariant is preserved because `process`
builds only in objects that are in no pre-queue, and a built object holds its
operation whatever it held before (`ConstructedHolds`). From it:
`OperationsIssuedAsCalled`, for any tasks, pools and number of operations.

Only model-checked: liveness (`TasksComplete`, `Served`, `FinalizeReturns`,
`DelegatedServed`, `PopReturns`, `PushReturns`, `PeriodAdapts`,
`DeadlockBroken`), which is out of the prover's reach. Every other property of a
passing run has a theorem.

## 5. Not modelled

* Instrumentation, error messages and warnings: output only.
* Public headers, type and prototype declarations, `ArrayView`, padding and
  aligned memory: no behaviour of their own.
* Fortran: the library's code for it consists of `issue` functions that fail and
  of template instances of what is modelled for C.
* Code that nothing calls: `ObjAllocator::localFree`, `MultiLockFreeQueue::empty`,
  `StringSupport::parseIndices` and the parse of two elements.
* The inside of Boost's queue, of MPI and of the tasking runtime, which are
  external and modelled by what the library uses of them.
* Weak memory: the models are sequentially consistent. The one place where this
  may hide something, `SpinLock::try_lock`, is listed under `hazards`.
