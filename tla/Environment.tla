----------------------------- MODULE Environment ----------------------------
(***************************************************************************)
(* The life cycle of the library: MPI_Init, MPI_Init_thread, TAMPI_Init,   *)
(* TAMPI_Finalize and MPI_Finalize around class Environment, the polling   *)
(* tasks that Polling registers and unregisters, the properties, and the   *)
(* wrappers that look at the modes without the lock.                       *)
(*                                                                         *)
(* Tasks share NumCPUs CPUs without preemption: a task leaves its CPU when *)
(* it waits in the runtime, and keeps it while it waits for the mutex.     *)
(***************************************************************************)
EXTENDS Integers, FiniteSets

CONSTANTS
  Users,              \* user tasks
  Main,               \* the one that initialises and finalises the library
  NoOne,              \* the mutex is free
  NumCPUs,
  CompletionEnabled,  \* CompletionManager::isEnabled()
  MaxPolls,           \* bound: polling instances registered, two for each initialisation
  MaxCalls            \* bound: other calls a task makes

Polls == 1..MaxPolls

ASSUME EnvironmentAssumption ==
  /\ Main \in Users /\ NoOne \notin Users
  /\ Users \cap Polls = {}
  /\ NumCPUs \in Nat \ {0}
  /\ CompletionEnabled \in BOOLEAN
  /\ MaxPolls \in Nat \ {0, 1} /\ MaxCalls \in Nat

VARIABLES
  mpi,       \* the native library: "none", "initialized", "finalized"
  env,       \* Environment::_state
  mutex,     \* its mutex: the task that holds it across steps
  aware,     \* threadTaskAwareness, for the thread of each user task
  entry,     \* the last init or finalize function Main called
  required,  \* its arguments
  provided,
  polling,   \* Polling::_pollingInstance and _completionPollingInstance, 0 for none
  instance,  \* what they point to
  ppc,       \* where each polling task is
  pc,        \* where each user task is
  value,     \* the argument of its setProperty
  calls,     \* how many other calls it has made
  running,   \* the tasks that have a CPU
  aborted    \* ErrorHandler::fail was called

mainVars == <<mpi, env, mutex, entry, required, provided>>
pollVars == <<polling, instance, ppc>>
userVars == <<aware, value, calls>>
vars == <<mainVars, pollVars, pc, userVars, running, aborted>>

(***************************************************************************)
(* Thread levels: what a program asks of MPI is "single" for anything      *)
(* below MPI_THREAD_MULTIPLE, and "task" stands for MPI_TASK_MULTIPLE.     *)
(***************************************************************************)
NativeLevel == {"single", "multiple"}
Level == NativeLevel \cup {"task"}

Finalizing == {"finalize", "unregister", "await", "unregisterCompletion", "awaitCompletion",
               "disableBlocking", "disableNonBlocking", "finalized"}

Init ==
  /\ mpi = "none"
  /\ env = [preinitialized |-> FALSE, initialized |-> FALSE, autoInitialize |-> TRUE,
            nativeThreadLevel |-> "single", blockingMode |-> FALSE, nonBlockingMode |-> FALSE]
  /\ mutex = NoOne
  /\ aware = [u \in Users |-> TRUE]
  /\ entry = "none" /\ required = "single" /\ provided = "single"
  /\ polling = [instance |-> 0, completion |-> 0]
  /\ instance = [i \in Polls |-> [state |-> "unused", mustFinish |-> FALSE, finished |-> FALSE]]
  /\ ppc = [i \in Polls |-> "none"]
  /\ pc = [u \in Users |-> "user"]
  /\ value = [u \in Users |-> FALSE] /\ calls = [u \in Users |-> 0]
  /\ running = {}
  /\ aborted = FALSE

-----------------------------------------------------------------------------
(***************************************************************************)
(* The runtime.                                                            *)
(***************************************************************************)
Goto(u, there) == pc' = [pc EXCEPT ![u] = there]

Leave(a) == running' = running \ {a}

Ready ==
  {u \in Users : pc[u] \notin {"delegated", "found", "end"}} \cup
  {i \in Polls : ppc[i] \in {"loop", "function", "ended"}}

Dispatch(a) ==
  /\ a \in Ready \ running
  /\ Cardinality(running) < NumCPUs
  /\ running' = running \cup {a}
  /\ UNCHANGED <<mainVars, pollVars, pc, userVars, aborted>>

Fail == aborted' = TRUE /\ UNCHANGED <<mainVars, pollVars, pc, userVars, running>>

At(u, where) == pc[u] = where /\ u \in running

(***************************************************************************)
(* std::lock_guard around a few assignments is one step; the task keeps    *)
(* its CPU until the mutex is free.                                        *)
(***************************************************************************)
Locked(u, where) == At(u, where) /\ mutex = NoOne

OnlyMain == UNCHANGED <<pollVars, userVars, running, aborted>>

-----------------------------------------------------------------------------
(***************************************************************************)
(* MPI_Init and MPI_Init_thread.  MPI is initialised once, by Main; the    *)
(* level it provides is its own choice.                                    *)
(***************************************************************************)
MPI_Init(level) ==
  /\ At(Main, "user") /\ mpi = "none"
  /\ mpi' = "initialized" /\ entry' = "MPI_Init" /\ provided' = level
  /\ Goto(Main, "query")
  /\ UNCHANGED <<env, mutex, required>> /\ OnlyMain

(***************************************************************************)
(* MPI_Query_thread, which MPI_Init calls, is the library's own.           *)
(***************************************************************************)
MPI_Query_thread ==
  /\ Locked(Main, "query")
  /\ provided' = IF env.blockingMode THEN "task" ELSE provided
  /\ required' = provided'
  /\ Goto(Main, "preinitialize")
  /\ UNCHANGED <<mpi, env, mutex, entry>> /\ OnlyMain

MPI_Init_thread(level) ==
  /\ At(Main, "user") /\ mpi = "none"
  /\ entry' = "MPI_Init_thread" /\ required' = level
  /\ Goto(Main, "auto")
  /\ UNCHANGED <<mpi, env, mutex, provided>> /\ OnlyMain

IsAutoInitializeEnabled ==
  /\ Locked(Main, "auto")
  /\ IF ~env.autoInitialize /\ required = "task"
       THEN Fail
       ELSE Goto(Main, "native") /\ UNCHANGED mainVars /\ OnlyMain

NativeInitThread(level) ==
  /\ At(Main, "native")
  /\ mpi' = "initialized" /\ provided' = level
  /\ Goto(Main, "preinitialize")
  /\ UNCHANGED <<env, mutex, entry, required>> /\ OnlyMain

(***************************************************************************)
(* Environment::preinitialize.                                             *)
(***************************************************************************)
Preinitialize ==
  /\ Locked(Main, "preinitialize")
  /\ env' = [env EXCEPT !.nativeThreadLevel = provided, !.preinitialized = TRUE]
  /\ Goto(Main, "initialize")
  /\ UNCHANGED <<mpi, mutex, entry, required, provided>> /\ OnlyMain

(***************************************************************************)
(* The program does not initialise explicitly what is initialised.         *)
(***************************************************************************)
TAMPI_Init(level) ==
  /\ At(Main, "user") /\ mpi # "finalized" /\ ~env.initialized
  /\ \E i \in Polls : i + 1 \in Polls /\ instance[i].state = "unused"
  /\ entry' = "TAMPI_Init" /\ required' = level
  /\ Goto(Main, "initialize")
  /\ UNCHANGED <<mpi, env, mutex, provided>> /\ OnlyMain

-----------------------------------------------------------------------------
(***************************************************************************)
(* Environment::initialize, with the mutex held from its second step on.   *)
(***************************************************************************)
MultithreadedAlways == TRUE   \* mutant

Multithreaded == env.nativeThreadLevel = "multiple"

EnableBlocking == required = "task" /\ Multithreaded

EnableNonBlocking == required \in {"task", "multiple"} /\ Multithreaded

NeedsPollingIfBlocking == EnableBlocking   \* mutant

NeedsPolling == EnableBlocking \/ EnableNonBlocking

Automatic == entry \notin {"TAMPI_Init", "TAMPI_Finalize"}

Initialize ==
  /\ Locked(Main, "initialize")
  /\ IF ~env.preinitialized \/ (~Automatic /\ env.autoInitialize)
       THEN Fail
       ELSE /\ IF Automatic /\ ~env.autoInitialize
                 THEN Goto(Main, "user") /\ UNCHANGED mutex
                 ELSE /\ Goto(Main, IF NeedsPolling THEN "register" ELSE "enableBlocking")
                      /\ mutex' = Main
            /\ UNCHANGED <<mpi, env, entry, required, provided>> /\ OnlyMain

(***************************************************************************)
(* TaskingModel::registerPolling: a new instance and its task.             *)
(***************************************************************************)
NextInstance == CHOOSE i \in Polls : instance[i].state = "unused" /\
                                     \A j \in 1..(i - 1) : instance[j].state # "unused"

RegisterPolling(pointer, from, to) ==
  /\ At(Main, from)
  /\ instance' = [instance EXCEPT ![NextInstance].state = "registered"]
  /\ ppc' = [ppc EXCEPT ![NextInstance] = "loop"]
  /\ polling' = [polling EXCEPT ![pointer] = NextInstance]
  /\ Goto(Main, to)
  /\ UNCHANGED <<mainVars, userVars, running, aborted>>

SetMode(mode, v, from, to) ==
  /\ At(Main, from)
  /\ env' = [env EXCEPT ![mode] = v]
  /\ Goto(Main, to)
  /\ UNCHANGED <<mpi, mutex, entry, required, provided>> /\ OnlyMain

Return(v, from) ==
  /\ At(Main, from)
  /\ env' = [env EXCEPT !.initialized = v]
  /\ mutex' = NoOne
  /\ Goto(Main, "user")
  /\ UNCHANGED <<mpi, entry, required>> /\ OnlyMain

InitializeStep ==
  \/ Initialize
  \/ RegisterPolling("instance", "register",
                     IF CompletionEnabled THEN "registerCompletion" ELSE "enableBlocking")
  \/ RegisterPolling("completion", "registerCompletion", "enableBlocking")
  \/ SetMode("blockingMode", EnableBlocking, "enableBlocking", "enableNonBlocking")
  \/ SetMode("nonBlockingMode", EnableNonBlocking, "enableNonBlocking", "initialized")
  \/ /\ Return(TRUE, "initialized")
     /\ provided' = IF EnableBlocking THEN "task" ELSE env.nativeThreadLevel

-----------------------------------------------------------------------------
(***************************************************************************)
(* MPI_Finalize, TAMPI_Finalize and Environment::finalize.  As MPI         *)
(* requires of MPI_Finalize, Main finalises when the communications of all *)
(* tasks are over, and no task starts another one.                         *)
(***************************************************************************)
NoCommunication == \A u \in Users : pc[u] \notin {"delegated", "found"}

MPI_Finalize ==
  /\ At(Main, "user") /\ mpi = "initialized" /\ NoCommunication
  /\ mpi' = "finalized" /\ entry' = "MPI_Finalize"
  /\ Goto(Main, "finalize")
  /\ UNCHANGED <<env, mutex, required, provided>> /\ OnlyMain

TAMPI_Finalize ==
  /\ At(Main, "user") /\ mpi # "finalized" /\ NoCommunication
  /\ entry' = "TAMPI_Finalize"
  /\ Goto(Main, "finalize")
  /\ UNCHANGED <<mpi, env, mutex, required, provided>> /\ OnlyMain

PollsToStopIfBlocking == env.blockingMode   \* mutant

PollsToStop == env.blockingMode \/ env.nonBlockingMode

Finalize ==
  /\ Locked(Main, "finalize")
  /\ IF Automatic /\ ~env.autoInitialize /\ ~env.initialized
       THEN Goto(Main, "user") /\ UNCHANGED mainVars /\ OnlyMain
       ELSE IF (~Automatic /\ env.autoInitialize) \/ ~env.initialized
              THEN Fail
              ELSE /\ mutex' = Main
                   /\ Goto(Main, IF PollsToStop THEN "unregister" ELSE "disableBlocking")
                   /\ UNCHANGED <<mpi, env, entry, required, provided>> /\ OnlyMain

(***************************************************************************)
(* TaskingModel::unregisterPolling: ask the task to stop, then wait in the *)
(* runtime until it has completed, and delete the instance.                *)
(***************************************************************************)
AskToFinish(i, from, to) ==
  /\ At(Main, from)
  /\ instance' = [instance EXCEPT ![i].mustFinish = TRUE]
  /\ Goto(Main, to)
  /\ UNCHANGED <<mainVars, polling, ppc, userVars, running, aborted>>

HasFinishedAlways(i) == TRUE   \* mutant

HasFinished(i) == instance[i].finished

AwaitFinished(i, from, to) ==
  /\ At(Main, from)
  /\ IF HasFinished(i)
       THEN /\ instance' = [instance EXCEPT ![i].state = "deleted"]
            /\ Goto(Main, to)
            /\ UNCHANGED running
       ELSE Leave(Main) /\ UNCHANGED <<instance, pc>>
  /\ UNCHANGED <<mainVars, polling, ppc, userVars, aborted>>

FinalizeStep ==
  \/ Finalize
  \/ AskToFinish(polling.instance, "unregister", "await")
  \/ AwaitFinished(polling.instance, "await",
                   IF CompletionEnabled THEN "unregisterCompletion" ELSE "disableBlocking")
  \/ AskToFinish(polling.completion, "unregisterCompletion", "awaitCompletion")
  \/ AwaitFinished(polling.completion, "awaitCompletion", "disableBlocking")
  \/ SetMode("blockingMode", FALSE, "disableBlocking", "disableNonBlocking")
  \/ SetMode("nonBlockingMode", FALSE, "disableNonBlocking", "finalized")
  \/ Return(FALSE, "finalized") /\ UNCHANGED provided

(***************************************************************************)
(* Main waits in the runtime for the communications of the other tasks.    *)
(***************************************************************************)
TaskWait ==
  /\ At(Main, "user") /\ ~NoCommunication
  /\ Leave(Main)
  /\ UNCHANGED <<mainVars, pollVars, pc, userVars, aborted>>

MainStep ==
  \/ \E level \in NativeLevel : MPI_Init(level) \/ NativeInitThread(level)
  \/ \E level \in Level : MPI_Init_thread(level) \/ TAMPI_Init(level)
  \/ MPI_Query_thread \/ IsAutoInitializeEnabled \/ Preinitialize \/ InitializeStep
  \/ TaskWait \/ MPI_Finalize \/ TAMPI_Finalize \/ FinalizeStep

-----------------------------------------------------------------------------
(***************************************************************************)
(* The polling tasks: genericPolling (or suspendPolling, which runs one    *)
(* iteration per resumption) and genericCompleted.                         *)
(***************************************************************************)
MustFinishAlways(i) == TRUE   \* mutant

MustFinishNever(i) == FALSE   \* mutant

MustFinish(i) == instance[i].mustFinish

Loop(i) ==
  /\ i \in running /\ ppc[i] = "loop"
  /\ ppc' = [ppc EXCEPT ![i] = IF MustFinish(i) THEN "ended" ELSE "function"]
  /\ UNCHANGED <<mainVars, polling, instance, pc, userVars, running, aborted>>

(***************************************************************************)
(* A call of the polling function serves the operations delegated to it:   *)
(* the polling task hands them to the completion task if there is one,     *)
(* which resumes their tasks.                                              *)
(***************************************************************************)
Served(i, u) ==
  CASE i = polling.instance /\ pc[u] = "delegated" -> IF CompletionEnabled THEN "found" ELSE "user"
    [] i = polling.completion /\ pc[u] = "found"   -> "user"
    [] OTHER                                       -> pc[u]

Function(i) ==
  /\ i \in running /\ ppc[i] = "function"
  /\ ppc' = [ppc EXCEPT ![i] = "loop"]
  /\ pc' = [u \in Users |-> Served(i, u)]
  /\ Leave(i)
  /\ UNCHANGED <<mainVars, polling, instance, userVars, aborted>>

Completed(i) ==
  /\ i \in running /\ ppc[i] = "ended"
  /\ ppc' = [ppc EXCEPT ![i] = "completed"]
  /\ instance' = [instance EXCEPT ![i].finished = TRUE]
  /\ Leave(i)
  /\ UNCHANGED <<mainVars, polling, pc, userVars, aborted>>

PollStep(i) == Loop(i) \/ Function(i) \/ Completed(i)

-----------------------------------------------------------------------------
(***************************************************************************)
(* The other calls of the user tasks.                                      *)
(***************************************************************************)
Calling(u) ==
  /\ At(u, "user") /\ calls[u] < MaxCalls
  /\ calls' = [calls EXCEPT ![u] = @ + 1]

(***************************************************************************)
(* TAMPI_Property_get and TAMPI_Property_set, up to the mutex.             *)
(***************************************************************************)
TAMPI_Property(u, function, v) ==
  /\ Calling(u)
  /\ value' = [value EXCEPT ![u] = v]
  /\ Goto(u, function)
  /\ UNCHANGED <<mainVars, pollVars, aware, running, aborted>>

GetProperty(u) ==
  /\ Locked(u, "getProperty")
  /\ Goto(u, "user")
  /\ UNCHANGED mainVars /\ OnlyMain

MaySetAutoAlways == TRUE   \* mutant

MaySetAuto == ~env.preinitialized

(***************************************************************************)
(* setProperty of TAMPI_PROPERTY_AUTO_INIT, and of                         *)
(* TAMPI_PROPERTY_THREAD_TASKAWARE.                                        *)
(***************************************************************************)
SetAutoInit(u) ==
  /\ Locked(u, "setAuto")
  /\ env' = IF MaySetAuto THEN [env EXCEPT !.autoInitialize = value[u]] ELSE env
  /\ Goto(u, "user")
  /\ UNCHANGED <<mpi, mutex, entry, required, provided>> /\ OnlyMain

SetTaskAwareness(u) ==
  /\ Locked(u, "setAware")
  /\ aware' = [aware EXCEPT ![u] = value[u]]
  /\ Goto(u, "user")
  /\ UNCHANGED <<mainVars, pollVars, value, calls, running, aborted>>

Communicates(u) == Calling(u) /\ mpi = "initialized" /\ pc[Main] \notin Finalizing

Delegate(u) == Goto(u, "delegated") /\ Leave(u)

(***************************************************************************)
(* A blocking MPI call is delegated if the modes of the library and of the *)
(* thread say so, and is the native one otherwise.                         *)
(***************************************************************************)
MPI_Send(u) ==
  /\ Communicates(u)
  /\ IF aware[u] /\ env.blockingMode THEN Delegate(u) ELSE UNCHANGED <<pc, running>>
  /\ UNCHANGED <<mainVars, pollVars, aware, value, aborted>>

(***************************************************************************)
(* A TAMPI call is delegated, and its task completes when it is served.    *)
(***************************************************************************)
TAMPI_Isend(u) ==
  /\ Communicates(u)
  /\ IF env.nonBlockingMode
       THEN Delegate(u) /\ UNCHANGED aborted
       ELSE aborted' = TRUE /\ UNCHANGED <<pc, running>>
  /\ UNCHANGED <<mainVars, pollVars, aware, value>>

End(u) ==
  /\ At(u, "user")
  /\ u = Main => mpi = "finalized"
  /\ Goto(u, "end")
  /\ Leave(u)
  /\ UNCHANGED <<mainVars, pollVars, userVars, aborted>>

UserCall(u) ==
  \/ TAMPI_Property(u, "getProperty", FALSE)
  \/ \E v \in BOOLEAN : TAMPI_Property(u, "setAuto", v) \/ TAMPI_Property(u, "setAware", v)
  \/ GetProperty(u) \/ SetAutoInit(u) \/ SetTaskAwareness(u)
  \/ MPI_Send(u) \/ TAMPI_Isend(u)
  \/ End(u)

-----------------------------------------------------------------------------
Next ==
  /\ ~aborted
  /\ \/ MainStep
     \/ \E u \in Users : UserCall(u)
     \/ \E i \in Polls : PollStep(i)
     \/ \E a \in Users \cup Polls : Dispatch(a)

Spec == Init /\ [][Next]_vars

(***************************************************************************)
(* The runtime dispatches every ready task in its turn, and a task that    *)
(* has a CPU runs: it gets the mutex if it is free often enough.           *)
(***************************************************************************)
Fairness ==
  /\ \A a \in Users \cup Polls : SF_vars(~aborted /\ Dispatch(a))
  /\ \A i \in Polls : WF_vars(~aborted /\ PollStep(i))
  /\ \A u \in Users : SF_vars(~aborted /\ UserCall(u))
  /\ SF_vars(~aborted /\ MainStep)

FairSpec == Spec /\ Fairness

-----------------------------------------------------------------------------
Active(i) ==
  i # 0 /\ instance[i].state = "registered" /\ ~instance[i].mustFinish /\ ppc[i] # "ended"

(***************************************************************************)
(* Outside finalize, whoever reads an enabled mode delegates to a polling  *)
(* task that is there and not about to stop, and so is the completion task *)
(* if there is one (the modes are read without the mutex).                 *)
(***************************************************************************)
ModesServed ==
  (env.blockingMode \/ env.nonBlockingMode) /\ pc[Main] \notin Finalizing =>
    Active(polling.instance) /\ (CompletionEnabled => Active(polling.completion))

(***************************************************************************)
(* An instance is deleted only when nobody will touch it any more: the     *)
(* polling function is not called after unregisterPolling, and the         *)
(* completion callback has run.                                            *)
(***************************************************************************)
NoUseAfterDelete == \A i \in Polls : instance[i].state = "deleted" => ppc[i] = "completed"

(***************************************************************************)
(* Once the library is finalised, whether by TAMPI_Finalize or by          *)
(* MPI_Finalize, no polling task of any initialisation is left and no mode *)
(* is enabled.                                                             *)
(***************************************************************************)
QuietWhenFinalized ==
  ~env.initialized /\ mutex = NoOne =>
    /\ ~env.blockingMode /\ ~env.nonBlockingMode
    /\ \A i \in Polls : instance[i].state # "registered"

(***************************************************************************)
(* A program that was told MPI_TASK_MULTIPLE has the blocking mode, on an  *)
(* MPI library that supports calls from several threads, and neither mode  *)
(* is enabled on one that does not.                                        *)
(***************************************************************************)
ProvidedHonestly ==
  /\ env.initialized /\ mutex = NoOne => (provided = "task" <=> env.blockingMode)
  /\ env.blockingMode \/ env.nonBlockingMode => env.nativeThreadLevel = "multiple"

(***************************************************************************)
(* MPI_Finalize leaves no library initialised behind, and is never refused *)
(* by shouldFinalize: the way the library was initialised, automatic or    *)
(* explicit, cannot be changed in between.                                 *)
(***************************************************************************)
FinalizedWithMPI ==
  /\ mpi = "finalized" /\ pc[Main] \in {"user", "end"} => ~env.initialized
  /\ aborted /\ pc[Main] = "finalize" => entry = "TAMPI_Finalize"

(***************************************************************************)
(* A finalisation comes to its end: the polling tasks get a CPU to see     *)
(* that they must finish, as unregisterPolling waits in the runtime ("Task *)
(* yield to avoid consuming a CPU for waiting. Otherwise, in the case of a *)
(* single CPU, the execution could hang").                                 *)
(***************************************************************************)
FinalizeReturns == pc[Main] \in Finalizing ~> pc[Main] \notin Finalizing \/ aborted

(***************************************************************************)
(* A task whose communication was delegated is resumed.                    *)
(***************************************************************************)
DelegatedServed ==
  \A u \in Users : pc[u] \in {"delegated", "found"} ~> pc[u] \in {"user", "end"} \/ aborted
=============================================================================
