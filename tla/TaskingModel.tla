---------------------------- MODULE TaskingModel ----------------------------
(***************************************************************************)
(* The binding of the library to the tasking runtime: which functions of   *)
(* the ALPI interface TaskingModel::initialize looks up, for the runtimes  *)
(* of different versions it may find; which of them are called later, by   *)
(* tasks, by the two forms of polling task and by finalisation; and the    *)
(* polling tasks themselves, which either wait inside their body or        *)
(* suspend and are run again from the start.                               *)
(***************************************************************************)
EXTENDS Integers, Sequences

CONSTANTS
  CompletionEnabled,   \* CompletionManager::isEnabled()
  MaxInits,            \* bound: initialisations
  MaxOps               \* bound: operations delegated at a time

ASSUME TaskingModelAssumption ==
  CompletionEnabled \in BOOLEAN /\ MaxInits \in Nat /\ MaxOps \in Nat

\* The polling instances, in the order in which Polling::finalize ends them, and
\* the one whose task tells the runtime of completed operations.
Order == IF CompletionEnabled THEN <<"polling", "completion">> ELSE <<"polling">>
Instances == {Order[k] : k \in DOMAIN Order}
Completer == Order[Len(Order)]

VARIABLES
  runtime,          \* the runtime the program is linked with
  pollingMode,      \* TAMPI_POLLING_MODE
  loaded,           \* the symbols that are not null
  phase,            \* "off", "on", "finalizing"
  inits,
  blockingMode, nonBlockingMode,
  pollingFunction,
  mustFinish, finished,   \* of each polling instance
  ppc,              \* where its task is
  blocked, events,  \* delegated operations
  called,           \* the functions called in the last step
  aborted

modeVars == <<phase, inits, blockingMode, nonBlockingMode, pollingFunction>>
pollVars == <<mustFinish, finished, ppc>>
opVars == <<blocked, events>>
taskingVars == <<runtime, pollingMode, loaded, modeVars, pollVars, opVars, called, aborted>>

(***************************************************************************)
(* The functions, and the runtimes: since 1.1 the interface has the        *)
(* suspend functions and events_test, since 1.2 info_get and               *)
(* feature_check.  A runtime may lack one of the basic groups altogether;  *)
(* whether it supports suspension, from 1.1, is its choice.                *)
(***************************************************************************)
Blocking == {"task_block", "task_unblock"}
Events == {"task_events_increase", "task_events_decrease"}
Suspending == {"task_suspend", "task_suspend_mode_set"}
Base == {"error_string", "version_check", "version_get", "task_self", "task_waitfor_ns",
         "task_spawn", "cpu_count", "cpu_logical_id", "cpu_system_id"}
Since11 == {"task_events_test"}
Since12 == {"info_get", "feature_check"}

Runtimes ==
  {r \in [major : {1, 2}, minor : 0..2, suspend : BOOLEAN,
          lacks : {{}, Blocking, Events, {"task_spawn"}}] :
     r.suspend => r.major > 1 \/ r.minor >= 1}

AtLeast(r, minor) == r.major > 1 \/ r.minor >= minor

Provided(r) ==
  ((Base \cup Blocking \cup Events) \ r.lacks)
    \cup (IF AtLeast(r, 1) THEN Since11 ELSE {})
    \cup (IF AtLeast(r, 2) THEN Since12 ELSE {})
    \cup (IF r.suspend THEN Suspending ELSE {})

TaskingInit ==
  /\ runtime \in Runtimes
  /\ pollingMode \in {"suspend", "blocking", "auto", "other"}
  /\ loaded = {}
  /\ phase = "off" /\ inits = 0
  /\ blockingMode = FALSE /\ nonBlockingMode = FALSE
  /\ pollingFunction = "null"
  /\ mustFinish = [i \in Instances |-> FALSE]
  /\ finished = [i \in Instances |-> FALSE]
  /\ ppc = [i \in Instances |-> "none"]
  /\ blocked = 0 /\ events = 0
  /\ called = {} /\ aborted = FALSE

(***************************************************************************)
(* A call of functions that return 0, and one that returns an error: its   *)
(* description is looked up and the program ends.                          *)
(***************************************************************************)
Call(symbols) == called' = symbols /\ UNCHANGED aborted

ProcessFailure(symbol) == called' = {symbol, "error_string"} /\ aborted' = TRUE

(***************************************************************************)
(* initialize                                                              *)
(***************************************************************************)
Mandatory(blocking, nonBlocking) ==
  Base \cup (IF blocking THEN Blocking ELSE {}) \cup (IF nonBlocking THEN Events ELSE {})

Optional(nonBlocking) ==
  Since12 \cup Suspending \cup (IF nonBlocking THEN Since11 ELSE {})

FeatureCheckFrom11 == AtLeast(runtime, 1)   \* mutant

FeatureCheckAvailable == AtLeast(runtime, 2)

UseSuspendPolling == FeatureCheckAvailable /\ runtime.suspend

ModeAccepted ==
  \/ pollingMode = "suspend" /\ UseSuspendPolling
  \/ pollingMode \in {"blocking", "auto"}

ChosenFunction ==
  IF UseSuspendPolling /\ pollingMode # "blocking" THEN "suspendPolling" ELSE "genericPolling"

\* registerPolling, for each instance; the allocators ask for the CPUs first.
Register ==
  /\ mustFinish' = [i \in Instances |-> FALSE]
  /\ finished' = [i \in Instances |-> FALSE]
  /\ ppc' = [i \in Instances |-> "loop"]

Initialize(blocking, nonBlocking) ==
  /\ phase = "off" /\ inits < MaxInits /\ ~ aborted
  /\ inits' = inits + 1
  /\ LET wanted     == Mandatory(blocking, nonBlocking) \cup Optional(nonBlocking)
         complete   == Mandatory(blocking, nonBlocking) \subseteq Provided(runtime) \cup loaded
         compatible == runtime.major = 1
         versions   == {"version_get", "version_check"}
         features   == IF FeatureCheckAvailable THEN {"feature_check"} ELSE {}
     IN  \/ /\ ~ blocking /\ ~ nonBlocking
            /\ Call({})
            /\ phase' = "on"
            /\ UNCHANGED <<loaded, pollingFunction, pollVars>>
         \/ /\ blocking \/ nonBlocking
            /\ loaded' = loaded \cup (wanted \cap Provided(runtime))
            /\ ~ (complete /\ compatible /\ ModeAccepted)
            /\ called' = (IF complete THEN versions ELSE {})
                           \cup (IF complete /\ compatible THEN features ELSE {})
            /\ aborted' = TRUE
            /\ UNCHANGED <<phase, pollingFunction, pollVars>>
         \/ /\ blocking \/ nonBlocking
            /\ loaded' = loaded \cup (wanted \cap Provided(runtime))
            /\ complete /\ compatible /\ ModeAccepted
            /\ Call(versions \cup features \cup {"cpu_count", "task_spawn"})
            /\ pollingFunction' = ChosenFunction
            /\ Register
            /\ phase' = "on"
  /\ blockingMode' = (blocking /\ ~ aborted')
  /\ nonBlockingMode' = (nonBlocking /\ ~ aborted')
  /\ UNCHANGED <<runtime, pollingMode, opVars>>

(***************************************************************************)
(* A task delegates a blocking or a non-blocking operation.                *)
(***************************************************************************)
BlockTask ==
  /\ phase = "on" /\ blockingMode /\ ~ aborted /\ blocked < MaxOps
  /\ blocked' = blocked + 1
  /\ Call({"task_self", "cpu_logical_id", "task_block"})
  /\ UNCHANGED <<runtime, pollingMode, loaded, modeVars, pollVars, events>>

IncreaseEvents ==
  /\ phase = "on" /\ nonBlockingMode /\ ~ aborted /\ events < MaxOps
  /\ events' = events + 1
  /\ Call({"task_self", "task_events_increase", "cpu_logical_id"})
  /\ UNCHANGED <<runtime, pollingMode, loaded, modeVars, pollVars, blocked>>

(***************************************************************************)
(* The polling tasks.  One iteration of genericPolling, or one execution   *)
(* of suspendPolling, calls the polling function, which completes some of  *)
(* the operations, and pauses.                                             *)
(***************************************************************************)
Goto(i, there) == ppc' = [ppc EXCEPT ![i] = there]

PollingCalls ==
  (IF blocked' < blocked THEN {"task_unblock"} ELSE {})
    \cup (IF events' < events THEN {"task_events_decrease"} ELSE {})
    \cup (IF pollingFunction = "suspendPolling"
          THEN {"task_self", "task_suspend_mode_set", "task_suspend"}
          ELSE {"task_waitfor_ns"})

Pause(i) ==
  /\ blocked' \in (IF i = Completer THEN 0..blocked ELSE {blocked})
  /\ events' \in (IF i = Completer THEN 0..events ELSE {events})
  /\ Call(PollingCalls)
  /\ Goto(i, "paused")

Poll(i) ==
  /\ ppc[i] = "loop" /\ ~ aborted
  /\ \/ mustFinish[i] /\ Goto(i, "ended") /\ Call({}) /\ UNCHANGED opVars
     \/ ~ mustFinish[i] /\ Pause(i)
  /\ UNCHANGED <<runtime, pollingMode, loaded, modeVars, mustFinish, finished>>

\* The runtime resumes the task, or runs it again, when its time is over.
Resume(i) ==
  /\ ppc[i] = "paused" /\ ~ aborted
  /\ Goto(i, "loop")
  /\ Call({})
  /\ UNCHANGED <<runtime, pollingMode, loaded, modeVars, mustFinish, finished, opVars>>

GenericCompleted(i) ==
  /\ ppc[i] = "ended" /\ ~ aborted
  /\ finished' = [finished EXCEPT ![i] = TRUE]
  /\ Goto(i, "completed")
  /\ Call({})
  /\ UNCHANGED <<runtime, pollingMode, loaded, modeVars, mustFinish, opVars>>

(***************************************************************************)
(* unregisterPolling of one instance after the other.                      *)
(***************************************************************************)
Finalize ==
  /\ phase = "on" /\ blocked = 0 /\ events = 0 /\ ~ aborted
  /\ phase' = IF blockingMode \/ nonBlockingMode THEN "finalizing" ELSE "off"
  /\ Call({})
  /\ UNCHANGED <<runtime, pollingMode, loaded, inits, blockingMode, nonBlockingMode,
                 pollingFunction, pollVars, opVars>>

AskToFinish(i) ==
  /\ phase = "finalizing" /\ ~ mustFinish[i] /\ ~ aborted
  /\ i = "completion" => finished["polling"]
  /\ mustFinish' = [mustFinish EXCEPT ![i] = TRUE]
  /\ Call({})
  /\ UNCHANGED <<runtime, pollingMode, loaded, modeVars, finished, ppc, opVars>>

AwaitFinished(i) ==
  /\ phase = "finalizing" /\ mustFinish[i] /\ ~ finished[i] /\ ~ aborted
  /\ Call({"task_waitfor_ns"})
  /\ UNCHANGED <<runtime, pollingMode, loaded, modeVars, pollVars, opVars>>

Finalized ==
  /\ phase = "finalizing" /\ ~ aborted
  /\ \A i \in Instances : finished[i]
  /\ phase' = "off"
  /\ blockingMode' = FALSE /\ nonBlockingMode' = FALSE
  /\ ppc' = [i \in Instances |-> "none"]
  /\ Call({})
  /\ UNCHANGED <<runtime, pollingMode, loaded, inits, pollingFunction, mustFinish, finished,
                 opVars>>

(***************************************************************************)
(* Any checked call may return an error.                                   *)
(***************************************************************************)
CallFails ==
  /\ phase # "off" /\ ~ aborted
  /\ \E symbol \in called \ {"feature_check"} : ProcessFailure(symbol)
  /\ UNCHANGED <<runtime, pollingMode, loaded, modeVars, pollVars, opVars>>

TaskingNext ==
  \/ \E blocking, nonBlocking \in BOOLEAN : Initialize(blocking, nonBlocking)
  \/ BlockTask \/ IncreaseEvents
  \/ \E i \in Instances :
       Poll(i) \/ Resume(i) \/ GenericCompleted(i) \/ AskToFinish(i) \/ AwaitFinished(i)
  \/ Finalize \/ Finalized \/ CallFails

TaskingSpec == TaskingInit /\ [][TaskingNext]_taskingVars

(***************************************************************************)
(* Properties.                                                             *)
(***************************************************************************)
(***************************************************************************)
(* NoNullCall: whatever runtime the program finds and in whatever modes it *)
(* is initialised and initialised again, every function of the runtime     *)
(* that the library calls has been found before (the assertion in          *)
(* Symbol::operator()): a runtime without the functions that a mode or the *)
(* chosen form of polling needs is refused when the library starts.        *)
(***************************************************************************)
NoNullCall == called \subseteq loaded

=============================================================================
