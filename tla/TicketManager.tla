---------------------------- MODULE TicketManager ---------------------------
(***************************************************************************)
(* The path of a task-aware operation through the library:                 *)
(*                                                                         *)
(*   user task       OperationManager::process binds an event, allocates   *)
(*                   the operation, pushes it on a pre-queue and, in the   *)
(*                   blocking mode, blocks the task;                       *)
(*   polling task    TicketManager::checkRequests pops the operations,     *)
(*                   issues them to MPI, tests the requests in flight and  *)
(*                   hands over the completed ones;                        *)
(*   completion task CompletionManager::process fulfils the event or       *)
(*                   unblocks the task of each of them.                    *)
(*                                                                         *)
(* The pre-queues are FIFOs (one per CPU and one for the collectives).     *)
(* The arrays of requests in flight are the set of their operations: which *)
(* position a request has is the matter of module RequestArrays.           *)
(***************************************************************************)
EXTENDS Integers, Sequences, FiniteSets, ALPI, MPI

CONSTANTS
  CPUs,                  \* the logical CPUs, each with its P2P pre-queue
  CollQueue,             \* the pre-queue of the collectives
  Program,               \* Program[t]: the operations task t calls, in order
  Blocking,              \* the operations called in the blocking mode
  Collective,            \* the collective operations
  WithStatus,            \* the operations that have a status to store
  BatchSize,             \* TicketManager::BatchSize
  CapacityMin,           \* the bounds of TicketManagerCapacityCtrl
  CapacityMax,
  QueueCapacity,         \* elements a pre-queue holds
  FullFailure,           \* TAMPI_QUEUES_FULL_FAILURE
  CompletionSize,        \* CompletionManager::Size
  UseCompletionManager,  \* CompletionManager::isEnabled()
  GeneralTesting,        \* TAMPI_REQUESTS_TESTING
  ImmediateTesting       \* TAMPI_REQUESTS_IMMEDIATE_TESTING

Queues == CPUs \cup {CollQueue}

ASSUME QueueAssumption == CollQueue \notin CPUs

ASSUME ProgramAssumption ==
  /\ IsFiniteSet(Ops)
  /\ Program \in [Tasks -> Seq(Ops)]
  /\ \A o \in Ops : \E t \in Tasks : \E i \in 1..Len(Program[t]) : Program[t][i] = o
  /\ \A t, u \in Tasks : \A i \in 1..Len(Program[t]), j \in 1..Len(Program[u]) :
       Program[t][i] = Program[u][j] => t = u /\ i = j
  /\ Needs \in [Ops -> SUBSET Ops]
  /\ Blocking \subseteq Ops
  /\ Collective \subseteq Ops
  /\ WithStatus \subseteq Ops \ Collective
  /\ NullRequests \in BOOLEAN

ASSUME BoundsAssumption ==
  /\ BatchSize \in Nat \ {0}
  /\ CapacityMin \in Nat
  /\ CapacityMax \in Nat
  /\ CapacityMin <= CapacityMax
  /\ QueueCapacity \in Nat
  /\ CompletionSize \in Nat
  /\ FullFailure \in [Queues -> BOOLEAN]
  /\ UseCompletionManager \in BOOLEAN
  /\ GeneralTesting \in {"testsome", "testany", "test"}
  /\ ImmediateTesting \in {"testsome", "testany", "test", "none"}

VARIABLES
  next,          \* how many operations each task has called, plus one
  call,          \* where each task is inside OperationManager::process
  queue,         \* the pre-queues
  allocated,     \* the operations whose object is allocated
  ppc,           \* where the polling task is inside checkRequests
  stage,         \* which loop of checkRequests it is serving
  capacity,      \* _capacity
  saturation,    \* _saturation, and whether its timeout has elapsed
  room,          \* navailable - ntotal
  moved,         \* np2p > 0 || ncoll > 0 in this round
  again,         \* inserted > 0 || completed > 0 in this iteration
  anyCompleted,  \* totalCompleted > 0
  tmp,           \* popped operations still to be issued
  batch,         \* all the operations of the transfer under way
  reqs,          \* issued by this transfer, its request is still pending
  done,          \* found complete, still to be handed over
  inflight,      \* the operations in the arrays (0 .. _pending-1)
  unchecked,     \* those this pass has not tested yet
  finished,      \* those this pass has found complete
  cqueue,        \* CompletionManager::_queue, the contexts still to be read
  csnap,         \* contexts the current consume_all still has to process
  cheld,         \* slots it has read and not yet given back
  stored,        \* operations whose status has been stored
  notified,      \* operations whose event was fulfilled or task unblocked
  unissued,      \* history: what was pushed on each pre-queue and not issued, in order
  aborted        \* ErrorHandler::fail was called

taskVars == <<next, call>>
pollVars == <<ppc, stage, capacity, saturation, room, moved, again, anyCompleted,
              tmp, batch, reqs, done, inflight, unchecked, finished>>
complVars == <<cqueue, csnap, cheld>>

vars == <<task, events, token, request, next, call, queue, allocated,
          ppc, stage, capacity, saturation, room, moved, again, anyCompleted,
          tmp, batch, reqs, done, inflight, unchecked, finished,
          cqueue, csnap, cheld, stored, notified, unissued, aborted>>

-----------------------------------------------------------------------------

TypeOK ==
  /\ ALPIType
  /\ MPIType
  /\ next \in [Tasks -> Nat \ {0}]
  /\ \A t \in Tasks : next[t] <= Len(Program[t]) + 1
  /\ call \in [Tasks -> {"user", "ready", "wait"}]
  /\ queue \in [Queues -> Seq(Ops)]
  /\ allocated \subseteq Ops
  /\ ppc \in {"sleep", "pop", "issue", "itest", "deliver", "check", "batch", "again"}
  /\ stage \in {"p2p", "coll", "check"}
  /\ capacity \in CapacityMin..CapacityMax
  /\ saturation \in {"off", "on", "elapsed"}
  /\ room \in Nat
  /\ moved \in BOOLEAN /\ again \in BOOLEAN /\ anyCompleted \in BOOLEAN
  /\ tmp \in Seq(Ops)
  /\ batch \subseteq Ops /\ reqs \subseteq Ops /\ done \subseteq Ops
  /\ inflight \subseteq Ops /\ unchecked \subseteq Ops /\ finished \subseteq Ops
  /\ cqueue \in Seq(Ops)
  /\ csnap \in Nat /\ cheld \in Nat
  /\ stored \subseteq Ops /\ notified \subseteq Ops
  /\ unissued \in [Queues -> Seq(Ops)]
  /\ aborted \in BOOLEAN

Init ==
  /\ ALPIInit
  /\ MPIInit
  /\ next = [t \in Tasks |-> 1]
  /\ call = [t \in Tasks |-> "user"]
  /\ queue = [q \in Queues |-> <<>>]
  /\ allocated = {}
  /\ ppc = "sleep" /\ stage = "p2p"
  /\ capacity = CapacityMin /\ saturation = "off"
  /\ room = 0 /\ moved = FALSE /\ again = FALSE /\ anyCompleted = FALSE
  /\ tmp = <<>> /\ batch = {} /\ reqs = {} /\ done = {}
  /\ inflight = {} /\ unchecked = {} /\ finished = {}
  /\ cqueue = <<>> /\ csnap = 0 /\ cheld = 0
  /\ stored = {} /\ notified = {}
  /\ unissued = [q \in Queues |-> <<>>]
  /\ aborted = FALSE

-----------------------------------------------------------------------------
(***************************************************************************)
(* Helpers.                                                                *)
(***************************************************************************)

Lesser(a, b) == IF a <= b THEN a ELSE b

(***************************************************************************)
(* The task that calls o, and the operation task t called last.            *)
(***************************************************************************)
Owner(o) == CHOOSE t \in Tasks : \E i \in 1..Len(Program[t]) : Program[t][i] = o

Current(t) == Program[t][next[t] - 1]

(***************************************************************************)
(* TaskContext::bindEvents, called by task t for operation o: only the     *)
(* non-blocking mode registers an event.                                   *)
(***************************************************************************)
BindEventsNever(t, o) == UNCHANGED alpiVars   \* mutant

BindEvents(t, o) == IF o \in Blocking THEN UNCHANGED alpiVars ELSE IncreaseEvents(t)

(***************************************************************************)
(* TaskContext::completeEvents for the context of operation o.             *)
(***************************************************************************)
CompleteEvents(o) ==
  /\ IF o \in Blocking THEN UnblockTask(Owner(o)) ELSE DecreaseEvents(Owner(o))
  /\ notified' = notified \cup {o}

(***************************************************************************)
(* ErrorHandler::fail ends the process.                                    *)
(***************************************************************************)
Fail ==
  /\ aborted' = TRUE
  /\ UNCHANGED <<alpiVars, request, taskVars, queue, allocated, pollVars, complVars,
                 stored, notified, unissued>>

-----------------------------------------------------------------------------
(***************************************************************************)
(* OperationManager::process, run by the user task.                        *)
(***************************************************************************)

(***************************************************************************)
(* The task context is built, bindEvents(1) registers an event (in the     *)
(* non-blocking mode only) and the operation is allocated.                 *)
(***************************************************************************)
Call(t) ==
  /\ task[t] = "running" /\ call[t] = "user"
  /\ next[t] <= Len(Program[t])
  /\ next' = [next EXCEPT ![t] = @ + 1]
  /\ call' = [call EXCEPT ![t] = "ready"]
  /\ allocated' = allocated \cup {Program[t][next[t]]}
  /\ BindEvents(t, Program[t][next[t]])
  /\ UNCHANGED <<request, queue, pollVars, complVars, stored, notified, unissued, aborted>>

(***************************************************************************)
(* What process does once the operation is pushed: it waits in the         *)
(* blocking mode, and returns in the other.                                *)
(***************************************************************************)
AfterPushReturn(o) == "user"   \* mutant

AfterPush(o) == IF o \in Blocking THEN "wait" ELSE "user"

(***************************************************************************)
(* addOperation pushes on the pre-queue of the current CPU, or on the one  *)
(* of the collectives.  On a full queue it fails, or spins until there is  *)
(* room.                                                                   *)
(***************************************************************************)
AddOperation(t, q) ==
  /\ call[t] = "ready"
  /\ q = CollQueue <=> Current(t) \in Collective
  /\ \/ /\ Len(queue[q]) < QueueCapacity
        /\ queue' = [queue EXCEPT ![q] = Append(@, Current(t))]
        /\ unissued' = [unissued EXCEPT ![q] = Append(@, Current(t))]
        /\ call' = [call EXCEPT ![t] = AfterPush(Current(t))]
        /\ UNCHANGED <<alpiVars, request, next, allocated, pollVars, complVars,
                       stored, notified, aborted>>
     \/ /\ Len(queue[q]) >= QueueCapacity
        /\ FullFailure[q]
        /\ Fail

(***************************************************************************)
(* waitEventsCompletion blocks the task of a blocking operation.           *)
(***************************************************************************)
WaitEventsCompletion(t) ==
  /\ call[t] = "wait"
  /\ BlockTask(t)
  /\ call' = [call EXCEPT ![t] = "user"]
  /\ UNCHANGED <<request, next, queue, allocated, pollVars, complVars, stored, notified, unissued, aborted>>

Finish(t) ==
  /\ call[t] = "user" /\ next[t] = Len(Program[t]) + 1
  /\ FinishBody(t)
  /\ UNCHANGED <<request, taskVars, queue, allocated, pollVars, complVars,
                 stored, notified, unissued, aborted>>

-----------------------------------------------------------------------------
(***************************************************************************)
(* TicketManager::checkRequests, run by the polling task.                  *)
(***************************************************************************)

(***************************************************************************)
(* navailable: how many operations one iteration may transfer.             *)
(***************************************************************************)
AvailableUnbounded == 2 * BatchSize   \* mutant

Available == Lesser(capacity - Cardinality(inflight), 2 * BatchSize)

(***************************************************************************)
(* The head of the do-while loop: the pre-queues are looked at only when   *)
(* there is room in the arrays.                                            *)
(***************************************************************************)
LoopHead ==
  /\ again' = FALSE
  /\ IF Cardinality(inflight) < capacity
       THEN /\ ppc' = "pop"
            /\ room' = Available
       ELSE /\ ppc' = "check"
            /\ UNCHANGED room

PollBegin ==
  /\ ppc = "sleep"
  /\ LoopHead
  /\ UNCHANGED <<alpiVars, request, taskVars, queue, allocated, stage, capacity, saturation,
                 moved, anyCompleted, tmp, batch, reqs, done, inflight, unchecked, finished,
                 complVars, stored, notified, unissued, aborted>>

StageQueues == IF stage = "p2p" THEN CPUs ELSE {CollQueue}

(***************************************************************************)
(* What follows the transfer of one kind of operations in                  *)
(* internalCheckOperationQueues: the collectives after the point-to-point  *)
(* ones, and another round while both room and operations are found.       *)
(***************************************************************************)
NextStage ==
  IF stage = "p2p"
    THEN ppc' = "pop" /\ stage' = "coll" /\ UNCHANGED <<room, moved>>
    ELSE /\ stage' = "p2p" /\ moved' = FALSE
         /\ IF room > 0 /\ moved
              THEN ppc' = "pop" /\ UNCHANGED room
              ELSE ppc' = "check" /\ room' = 0

PopBack(q) ==   \* mutant: the queue is a stack
  /\ ppc = "pop"
  /\ q \in StageQueues
  /\ queue[q] # <<>>
  /\ Len(tmp) < Lesser(room, BatchSize)
  /\ tmp' = Append(tmp, queue[q][Len(queue[q])])
  /\ batch' = batch \cup {queue[q][Len(queue[q])]}
  /\ queue' = [queue EXCEPT ![q] = SubSeq(@, 1, Len(@) - 1)]
  /\ UNCHANGED <<alpiVars, request, taskVars, allocated, ppc, stage, capacity, saturation,
                 room, moved, again, anyCompleted, reqs, done, inflight, unchecked, finished,
                 complVars, stored, notified, unissued, aborted>>

(***************************************************************************)
(* Popping up to min(room, BatchSize) operations.  A multi-queue pop takes *)
(* from the front of each queue; how many from which one is left open, it  *)
(* only never comes back empty-handed when there is something to pop.      *)
(***************************************************************************)
Pop(q) ==
  /\ ppc = "pop"
  /\ q \in StageQueues
  /\ queue[q] # <<>>
  /\ Len(tmp) < Lesser(room, BatchSize)
  /\ tmp' = Append(tmp, Head(queue[q]))
  /\ batch' = batch \cup {Head(queue[q])}
  /\ queue' = [queue EXCEPT ![q] = Tail(@)]
  /\ UNCHANGED <<alpiVars, request, taskVars, allocated, ppc, stage, capacity, saturation,
                 room, moved, again, anyCompleted, reqs, done, inflight, unchecked, finished,
                 complVars, stored, notified, unissued, aborted>>

PopEnd ==
  /\ ppc = "pop"
  /\ IF tmp # <<>>
       THEN /\ ppc' = "issue"
            /\ room' = room - Len(tmp)
            /\ moved' = TRUE /\ again' = TRUE
            /\ UNCHANGED stage
       ELSE /\ room = 0 \/ \A q \in StageQueues : queue[q] = <<>>
            /\ NextStage
            /\ UNCHANGED again
  /\ UNCHANGED <<alpiVars, request, taskVars, queue, allocated, capacity, saturation,
                 anyCompleted, tmp, batch, reqs, done, inflight, unchecked, finished,
                 complVars, stored, notified, unissued, aborted>>

-----------------------------------------------------------------------------
(***************************************************************************)
(* TicketManager::transferOperations.                                      *)
(***************************************************************************)

(***************************************************************************)
(* The loop that issues the operations.  One that comes back as            *)
(* MPI_REQUEST_NULL is complete already; nothing stores its status.        *)
(***************************************************************************)
Issue ==
  /\ ppc = "issue"
  /\ tmp' = Tail(tmp)
  /\ ppc' = IF Tail(tmp) = <<>> THEN "itest" ELSE "issue"
  /\ unissued' = [q \in Queues |-> IF unissued[q] # <<>> /\ Head(unissued[q]) = Head(tmp)
                                    THEN Tail(unissued[q]) ELSE unissued[q]]
  /\ \/ /\ IssueRequest(Head(tmp))
        /\ reqs' = reqs \cup {Head(tmp)}
        /\ UNCHANGED done
     \/ /\ IssueNull(Head(tmp))
        /\ done' = done \cup {Head(tmp)}
        /\ UNCHANGED reqs
  /\ UNCHANGED <<alpiVars, taskVars, queue, allocated, stage, capacity, saturation, room,
                 moved, again, anyCompleted, batch, inflight, unchecked, finished,
                 complVars, stored, notified, aborted>>

(***************************************************************************)
(* The outcomes of internalTestRequests on the operations S: MPI_Testsome  *)
(* and the loop of MPI_Test report all the complete requests, the loop of  *)
(* MPI_Testany skips those before the one MPI picks.                       *)
(***************************************************************************)
TestRequests(approach, S) ==
  LET complete == {o \in S : request[o] = "complete"}
  IN  CASE approach = "none"    -> {{}}
        [] approach = "testany" -> {R \in SUBSET complete : complete # {} => R # {}}
        [] OTHER                -> {complete}

(***************************************************************************)
(* Ticket::storeStatus for the operations R just found complete.           *)
(***************************************************************************)
StoreStatusNever(R) == UNCHANGED stored   \* mutant

StoreStatus(R) == stored' = stored \cup (R \cap WithStatus)

(***************************************************************************)
(* The test right after issuing; the statuses of what it finds complete    *)
(* are stored.                                                             *)
(***************************************************************************)
ImmediateTest ==
  /\ ppc = "itest"
  /\ ppc' = "deliver"
  /\ \E R \in TestRequests(ImmediateTesting, reqs) :
       /\ ReleaseRequests(R)
       /\ reqs' = reqs \ R
       /\ done' = done \cup R
       /\ StoreStatus(R)
  /\ UNCHANGED <<alpiVars, taskVars, queue, allocated, stage, capacity, saturation, room,
                 moved, again, anyCompleted, tmp, batch, inflight, unchecked, finished,
                 complVars, notified, unissued, aborted>>

(***************************************************************************)
(* A completed ticket is handed over: to the completion task if there is   *)
(* one (CompletionManager::transfer fails when its queue is full), and     *)
(* completed on the spot otherwise (Ticket::complete).                     *)
(***************************************************************************)
Deliver(o) ==
  /\ ppc = "deliver"
  /\ o \in done
  /\ IF UseCompletionManager /\ Len(cqueue) + cheld >= CompletionSize
       THEN Fail
       ELSE /\ done' = done \ {o}
            /\ IF UseCompletionManager
                 THEN cqueue' = Append(cqueue, o) /\ UNCHANGED <<alpiVars, notified>>
                 ELSE CompleteEvents(o) /\ UNCHANGED cqueue
            /\ UNCHANGED <<request, taskVars, queue, allocated, ppc, stage, capacity,
                           saturation, room, moved, again, anyCompleted, tmp, batch, reqs,
                           inflight, unchecked, finished, csnap, cheld, stored, unissued, aborted>>

FreePending == allocated' = allocated \ reqs   \* mutant

FreeOperations == allocated' = allocated \ batch

(***************************************************************************)
(* The end of transferOperations: the pending tickets enter the arrays and *)
(* the operations are freed.                                               *)
(***************************************************************************)
TransferEnd ==
  /\ ppc = "deliver" /\ stage # "check" /\ done = {}
  /\ inflight' = inflight \cup reqs
  /\ reqs' = {}
  /\ FreeOperations
  /\ batch' = {}
  /\ NextStage
  /\ UNCHANGED <<alpiVars, request, taskVars, queue, capacity, saturation, again,
                 anyCompleted, tmp, done, unchecked, finished, complVars, stored, notified,
                 unissued, aborted>>

-----------------------------------------------------------------------------
(***************************************************************************)
(* TicketManager::internalCheckRequests.                                   *)
(***************************************************************************)

CheckBegin ==
  /\ ppc = "check"
  /\ IF inflight = {}
       THEN ppc' = "again" /\ UNCHANGED <<stage, unchecked>>
       ELSE ppc' = "batch" /\ stage' = "check" /\ unchecked' = inflight
  /\ UNCHANGED <<alpiVars, request, taskVars, queue, allocated, capacity, saturation, room,
                 moved, again, anyCompleted, tmp, batch, reqs, done, inflight, finished,
                 complVars, stored, notified, unissued, aborted>>

(***************************************************************************)
(* One batch of requests is tested and the statuses are stored.            *)
(***************************************************************************)
TestBatch ==
  /\ ppc = "batch"
  /\ ppc' = "deliver"
  /\ \E B \in SUBSET unchecked :
       /\ Cardinality(B) = Lesser(Cardinality(unchecked), BatchSize)
       /\ unchecked' = unchecked \ B
       /\ \E R \in TestRequests(GeneralTesting, B) :
            /\ ReleaseRequests(R)
            /\ done' = R
            /\ finished' = finished \cup R
            /\ StoreStatus(R)
  /\ UNCHANGED <<alpiVars, taskVars, queue, allocated, stage, capacity, saturation, room,
                 moved, again, anyCompleted, tmp, batch, reqs, inflight, complVars,
                 notified, unissued, aborted>>

(***************************************************************************)
(* The smart replacement removes the completed requests from the arrays.   *)
(***************************************************************************)
CompactNothing == UNCHANGED inflight   \* mutant

Compact == inflight' = inflight \ finished

(***************************************************************************)
(* After the last batch the arrays are compacted.                          *)
(***************************************************************************)
BatchEnd ==
  /\ ppc = "deliver" /\ stage = "check" /\ done = {}
  /\ IF unchecked # {}
       THEN ppc' = "batch" /\ UNCHANGED <<stage, inflight, finished, again, anyCompleted>>
       ELSE /\ ppc' = "again" /\ stage' = "p2p"
            /\ Compact
            /\ finished' = {}
            /\ again' = (again \/ finished # {})
            /\ anyCompleted' = (anyCompleted \/ finished # {})
  /\ UNCHANGED <<alpiVars, request, taskVars, queue, allocated, capacity, saturation,
                 room, moved, tmp, batch, reqs, done, unchecked, complVars, stored, notified,
                 unissued, aborted>>

SaturatedBeyond == Cardinality(inflight) > capacity /\ ~anyCompleted   \* mutant

Saturated == Cardinality(inflight) = capacity /\ ~anyCompleted

(***************************************************************************)
(* TicketManagerCapacityCtrl::evaluate.                                    *)
(***************************************************************************)
Evaluate ==
  IF capacity = CapacityMax
    THEN UNCHANGED <<capacity, saturation>>
    ELSE IF Saturated
           THEN CASE saturation = "off"     -> saturation' = "on" /\ UNCHANGED capacity
                  [] saturation = "on"      -> UNCHANGED <<saturation, capacity>>
                  [] saturation = "elapsed" -> /\ saturation' = "off"
                                               /\ capacity' = Lesser(capacity * 2, CapacityMax)
           ELSE saturation' = "off" /\ UNCHANGED capacity

(***************************************************************************)
(* The condition of the do-while loop, and the return from checkRequests.  *)
(***************************************************************************)
LoopEnd ==
  /\ ppc = "again"
  /\ IF again
       THEN LoopHead /\ UNCHANGED <<capacity, saturation, anyCompleted>>
       ELSE ppc' = "sleep" /\ Evaluate /\ anyCompleted' = FALSE /\ UNCHANGED <<room, again>>
  /\ UNCHANGED <<alpiVars, request, taskVars, queue, allocated, stage, moved, tmp, batch, reqs, done, inflight, unchecked, finished,
                 complVars, stored, notified, unissued, aborted>>

-----------------------------------------------------------------------------
(***************************************************************************)
(* CompletionManager::process, run by the completion task: consume_all     *)
(* reads the write index once, completes what it finds, and gives all the  *)
(* slots back at the end.                                                  *)
(***************************************************************************)

ProcessBegin ==
  /\ csnap = 0 /\ cqueue # <<>>
  /\ csnap' = Len(cqueue)
  /\ UNCHANGED <<alpiVars, request, taskVars, queue, allocated, pollVars, cqueue, cheld,
                 stored, notified, unissued, aborted>>

ProcessContext ==
  /\ csnap > 0
  /\ CompleteEvents(Head(cqueue))
  /\ cqueue' = Tail(cqueue)
  /\ csnap' = csnap - 1
  /\ cheld' = IF csnap = 1 THEN 0 ELSE cheld + 1
  /\ UNCHANGED <<request, taskVars, queue, allocated, pollVars, stored, unissued, aborted>>

-----------------------------------------------------------------------------
(***************************************************************************)
(* The environment: MPI finishes operations, and the clock passes the      *)
(* timeout of a saturation epoch.                                          *)
(***************************************************************************)

Progress(o) ==
  /\ MPIProgress(o)
  /\ UNCHANGED <<alpiVars, taskVars, queue, allocated, pollVars, complVars, stored, notified,
                 unissued, aborted>>

TimeoutElapses ==
  /\ saturation = "on"
  /\ saturation' = "elapsed"
  /\ UNCHANGED <<alpiVars, request, taskVars, queue, allocated, ppc, stage, capacity, room,
                 moved, again, anyCompleted, tmp, batch, reqs, done, inflight, unchecked,
                 finished, complVars, stored, notified, unissued, aborted>>

-----------------------------------------------------------------------------

TaskStep(t) ==
  \/ Call(t)
  \/ \E q \in Queues : AddOperation(t, q)
  \/ WaitEventsCompletion(t)
  \/ Finish(t)

PollStep ==
  \/ PollBegin
  \/ \E q \in Queues : Pop(q)
  \/ PopEnd
  \/ Issue
  \/ ImmediateTest
  \/ \E o \in Ops : Deliver(o)
  \/ TransferEnd
  \/ CheckBegin
  \/ TestBatch
  \/ BatchEnd
  \/ LoopEnd

CompletionStep == ProcessBegin \/ ProcessContext

Next ==
  /\ ~aborted
  /\ \/ \E t \in Tasks : TaskStep(t)
     \/ PollStep
     \/ CompletionStep
     \/ \E o \in Ops : Progress(o)
     \/ TimeoutElapses

Spec == Init /\ [][Next]_vars

(***************************************************************************)
(* The runtime keeps running its ready tasks, the polling and completion   *)
(* tasks among them (they wake up after a finite period), MPI makes        *)
(* progress on matched operations, and time passes.                        *)
(***************************************************************************)
Fairness ==
  /\ \A t \in Tasks : WF_vars(~aborted /\ TaskStep(t))
  /\ WF_vars(~aborted /\ PollStep)
  /\ WF_vars(~aborted /\ CompletionStep)
  /\ \A o \in Ops : WF_vars(~aborted /\ Progress(o))
  /\ WF_vars(~aborted /\ TimeoutElapses)

FairSpec == Spec /\ Fairness

-----------------------------------------------------------------------------
(***************************************************************************)
(* Properties.                                                             *)
(***************************************************************************)

(***************************************************************************)
(* Task t has gone past its i-th operation: it called a later one, or it   *)
(* is back in its own code.                                                *)
(***************************************************************************)
Past(t, i) ==
  \/ i < next[t] - 1
  \/ i = next[t] - 1 /\ call[t] = "user" /\ task[t] # "blocked"

Elements(s) == {s[i] : i \in 1..Len(s)}

(***************************************************************************)
(* The operations somewhere between the push and the notification.         *)
(***************************************************************************)
InQueues == UNION {Elements(queue[q]) : q \in Queues}

Travelling ==
  InQueues \cup Elements(tmp) \cup reqs \cup (inflight \ finished) \cup done \cup Elements(cqueue)

(***************************************************************************)
(* A task goes on after a blocking operation, and completes after its      *)
(* non-blocking ones, only when MPI has finished them: until then MPI may  *)
(* still be using their buffers.                                           *)
(***************************************************************************)
ReleasedOnlyWhenFinished ==
  \A t \in Tasks : \A i \in 1..Len(Program[t]) :
    \/ Program[t][i] \in Blocking /\ Past(t, i)
    \/ task[t] = "completed"
    => request[Program[t][i]] = "null"

(***************************************************************************)
(* At that moment the status the caller asked for has been stored as well  *)
(* (OperationManager.hpp: "Once the underlying MPI operation is issued and *)
(* finished, the status is saved in the specified location (if any), and   *)
(* the task is resumed or the external event is fulfilled").               *)
(***************************************************************************)
StatusSavedOnRelease ==
  \A t \in Tasks : \A i \in 1..Len(Program[t]) :
    /\ Program[t][i] \in WithStatus
    /\ (Program[t][i] \in Blocking /\ Past(t, i)) \/ task[t] = "completed"
    => Program[t][i] \in stored

(***************************************************************************)
(* The task handle carried by an operation on its way (in a pre-queue, a   *)
(* ticket or a context) is that of a task that has not completed: the      *)
(* runtime may recycle a task once it has.                                 *)
(***************************************************************************)
HandlesAlive == \A o \in Travelling : task[Owner(o)] # "completed"

(***************************************************************************)
(* An operation that was pushed is on its way until its task is notified,  *)
(* and never afterwards: none is lost, none is completed twice.            *)
(***************************************************************************)
ExactlyOnce ==
  \A t \in Tasks : \A i \in 1..(next[t] - 1) :
    (i = next[t] - 1 => call[t] # "ready")
      => (Program[t][i] \in Travelling <=> Program[t][i] \notin notified)

OpenEvents(t) == {i \in 1..(next[t] - 1) : Program[t][i] \notin Blocking \cup notified}

(***************************************************************************)
(* The events of a task are its non-blocking operations that have not been *)
(* notified: the runtime neither completes it early nor underflows.        *)
(***************************************************************************)
EventsMatch == \A t \in Tasks : events[t] = Cardinality(OpenEvents(t))

(***************************************************************************)
(* ALPI allows one unblock ahead of its block: while one is kept, no other *)
(* operation of the task can send a second.                                *)
(***************************************************************************)
OneUnblockAhead ==
  \A o \in Travelling \cap Blocking : ~token[Owner(o)]

(***************************************************************************)
(* The requests in flight and those about to be fit in the arrays          *)
(* (the assertion at the head of transferOperations).                      *)
(***************************************************************************)
CapacityRespected == Cardinality(inflight \cup batch) <= capacity

(***************************************************************************)
(* x comes before y in the sequence s.                                     *)
(***************************************************************************)
Precedes(s, x, y) == \E i, j \in 1..Len(s) : i < j /\ s[i] = x /\ s[j] = y

(***************************************************************************)
(* Operations are issued in the order they were pushed on the same queue:  *)
(* collectives in the order of the calls, and the point-to-point           *)
(* operations of one CPU without overtaking (MPI matches in issue order).  *)
(* What is due, first from tmp and then from the queue, holds all that was *)
(* pushed and not issued, in the order of the pushes.                      *)
(***************************************************************************)
IssueOrder ==
  \A q \in Queues :
    LET due == tmp \o queue[q]
    IN  /\ Elements(queue[q]) \subseteq Elements(unissued[q])
        /\ Elements(unissued[q]) \subseteq Elements(due)
        /\ \A x, y \in Elements(unissued[q]) :
             Precedes(unissued[q], x, y) => Precedes(due, x, y)

(***************************************************************************)
(* An operation is in the pool exactly from its allocation until its       *)
(* transfer ends: it is neither leaked nor freed while it may be read.     *)
(***************************************************************************)
AllocatedWhileInUse ==
  allocated = {Current(t) : t \in {u \in Tasks : call[u] = "ready"}} \cup InQueues \cup batch

(***************************************************************************)
(* Every task completes: each operation is issued, finished and notified,  *)
(* even when the operations it needs wait behind a saturated array.        *)
(***************************************************************************)
TasksComplete == \A t \in Tasks : <>(task[t] = "completed")

(***************************************************************************)
(* The library does what TaskAware promises.                               *)
(***************************************************************************)
Called(o) == \E t \in Tasks : \E i \in 1..(next[t] - 1) : Program[t][i] = o

Phase(o) ==
  CASE o \in notified                       -> "released"
    [] request[o] \in {"complete", "null"} /\ o \notin notified -> "finished"
    [] request[o] = "active" \/ (request[o] = "none" /\ Called(o)) -> "started"
    [] OTHER                                -> "idle"

Promise == INSTANCE TaskAware WITH
  phase <- [o \in Ops |-> Phase(o)],
  completed <- {t \in Tasks : task[t] = "completed"}

KeepsPromise == Promise!TaskAwareSpec

=============================================================================
