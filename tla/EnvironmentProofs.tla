------------------------- MODULE EnvironmentProofs --------------------------
(***************************************************************************)
(* The life cycle of the library is safe for any number of user tasks,     *)
(* CPUs, calls and initialisations, with and without a completion task.    *)
(***************************************************************************)
EXTENDS Environment, TLAPS

\* Zenon is tried first, briefly, and both provers get more time than by default.
USE ZenonT(4), SMTT(20), ZenonT(20)

-----------------------------------------------------------------------------
(***************************************************************************)
(* The inductive invariant.  Main's program counter says how far an        *)
(* initialisation or a finalisation has come; outside them, which mode is  *)
(* on and which polling tasks there are follows from _state.initialized.   *)
(***************************************************************************)
MPIStarting == {"query", "auto", "native", "preinitialize"}

\* Environment::initialize and Environment::finalize with the mutex held.
Starting == {"register", "registerCompletion", "enableBlocking", "enableNonBlocking",
             "initialized"}
Stopping == {"unregister", "await", "unregisterCompletion", "awaitCompletion",
             "disableBlocking", "disableNonBlocking", "finalized"}

\* Main is neither initialising nor finalising.
Elsewhere == {"user", "getProperty", "setAuto", "setAware", "delegated", "found", "end"}

EnvironmentType ==
  /\ mpi \in {"none", "initialized", "finalized"}
  /\ env \in [preinitialized : BOOLEAN, initialized : BOOLEAN, autoInitialize : BOOLEAN,
              nativeThreadLevel : NativeLevel, blockingMode : BOOLEAN, nonBlockingMode : BOOLEAN]
  /\ entry \in {"none", "MPI_Init", "MPI_Init_thread", "TAMPI_Init", "MPI_Finalize", "TAMPI_Finalize"}
  /\ required \in Level /\ provided \in Level
  /\ polling \in [instance : 0..MaxPolls, completion : 0..MaxPolls]
  /\ instance \in [Polls -> [state : {"unused", "registered", "deleted"},
                             mustFinish : BOOLEAN, finished : BOOLEAN]]
  /\ ppc \in [Polls -> {"none", "loop", "function", "ended", "completed"}]
  /\ pc \in [Users -> Elsewhere \cup MPIStarting \cup {"initialize"} \cup Starting \cup Finalizing]
  /\ value \in [Users -> BOOLEAN]
  /\ aborted \in BOOLEAN

(***************************************************************************)
(* How the flags of _state, the native library and the mutex go together.  *)
(* Once MPI has been initialised the way the library is initialised is     *)
(* fixed: automatically, and then it is initialised until MPI_Finalize, or *)
(* explicitly.                                                             *)
(***************************************************************************)
LifeCycle ==
  /\ mutex = IF pc[Main] \in Starting \cup Stopping THEN Main ELSE NoOne
  /\ env.initialized => env.preinitialized
  /\ env.preinitialized => mpi # "none"
  /\ pc[Main] \in MPIStarting => ~env.preinitialized
  /\ pc[Main] \in {"auto", "native"} => mpi = "none"
  /\ pc[Main] \in {"query", "preinitialize"} => mpi = "initialized" /\ provided \in NativeLevel
  /\ pc[Main] \in MPIStarting => entry \in {"MPI_Init", "MPI_Init_thread"}
  /\ pc[Main] = "initialize" =>
       entry = "TAMPI_Init" \/ (entry \in {"MPI_Init", "MPI_Init_thread"} /\ env.preinitialized)
  /\ pc[Main] \in {"initialize"} \cup Starting => ~env.initialized /\ mpi # "finalized"
  /\ pc[Main] \in Starting => env.preinitialized
  /\ pc[Main] \in Stopping => env.initialized
  /\ mpi = "initialized" /\ pc[Main] \notin MPIStarting => env.preinitialized
  /\ env.preinitialized /\ env.autoInitialize /\ mpi = "initialized"
       /\ pc[Main] \notin {"initialize"} \cup Starting => env.initialized
  /\ pc[Main] = "finalize" => entry \in {"MPI_Finalize", "TAMPI_Finalize"}
  /\ pc[Main] = "finalize" /\ entry = "MPI_Finalize" =>
       mpi = "finalized" /\ env.preinitialized /\ (env.autoInitialize => env.initialized)
  /\ pc[Main] \in Stopping /\ env.autoInitialize => mpi = "finalized"
  /\ mpi = "finalized" /\ pc[Main] \notin Finalizing => ~env.initialized
  /\ aborted /\ pc[Main] = "finalize" => entry = "TAMPI_Finalize"

(***************************************************************************)
(* Which modes are on.                                                     *)
(***************************************************************************)
Modes ==
  /\ ~env.initialized /\ pc[Main] \notin {"enableNonBlocking", "initialized"} =>
       ~env.blockingMode /\ ~env.nonBlockingMode
  /\ pc[Main] \in {"enableNonBlocking", "initialized"} => env.blockingMode = EnableBlocking
  /\ pc[Main] = "enableNonBlocking" => ~env.nonBlockingMode
  /\ pc[Main] = "initialized" => env.nonBlockingMode = EnableNonBlocking
  /\ pc[Main] \in {"disableNonBlocking", "finalized"} => ~env.blockingMode
  /\ pc[Main] = "finalized" => ~env.nonBlockingMode
  /\ env.blockingMode \/ env.nonBlockingMode => Multithreaded
  /\ env.initialized /\ pc[Main] \notin Stopping => (provided = "task" <=> env.blockingMode)

(***************************************************************************)
(* Each polling instance with its task.                                    *)
(***************************************************************************)
InstanceAndTask(i) ==
  /\ instance[i].state = "unused" => ppc[i] = "none" /\ ~instance[i].mustFinish
  /\ instance[i].state = "registered" =>
       ppc[i] # "none" /\ (~instance[i].mustFinish => ppc[i] \in {"loop", "function"})
  /\ instance[i].finished => ppc[i] = "completed"
  /\ instance[i].state = "deleted" => ppc[i] = "completed"

(***************************************************************************)
(* The polling tasks there are: none, or those of Polling's pointers.      *)
(***************************************************************************)
Registered == {i \in Polls : instance[i].state = "registered"}

Pointers == {polling.instance} \cup (IF CompletionEnabled THEN {polling.completion} ELSE {})

Serving(P) == Registered = P /\ \A i \in P : ~instance[i].mustFinish

ServingBoth ==
  Serving(Pointers) /\ (CompletionEnabled => polling.instance # polling.completion)

\* The polling task is asked to finish, and the completion task is not yet.
EndingFirst ==
  /\ Registered = Pointers /\ instance[polling.instance].mustFinish
  /\ CompletionEnabled => /\ polling.instance # polling.completion
                          /\ ~instance[polling.completion].mustFinish

PollingTasks ==
  /\ ~env.initialized /\ pc[Main] \notin Starting \ {"register"} => Registered = {}
  /\ pc[Main] = "registerCompletion" => CompletionEnabled /\ NeedsPolling /\ Serving({polling.instance})
  /\ pc[Main] = "register" => NeedsPolling
  /\ pc[Main] \in {"enableBlocking", "enableNonBlocking", "initialized"} =>
       IF NeedsPolling THEN ServingBoth ELSE Registered = {}
  /\ env.initialized /\ pc[Main] \notin Stopping =>
       IF PollsToStop THEN ServingBoth ELSE Registered = {}
  /\ pc[Main] = "unregister" => ServingBoth
  /\ pc[Main] = "await" => EndingFirst
  /\ pc[Main] = "unregisterCompletion" => CompletionEnabled /\ Serving({polling.completion})
  /\ pc[Main] = "awaitCompletion" => Registered = {polling.completion}
  /\ pc[Main] \in {"disableBlocking", "disableNonBlocking", "finalized"} => Registered = {}

(***************************************************************************)
(* The first k instances have been used, and there are as many more as the *)
(* initialisation under way needs.                                         *)
(***************************************************************************)
Used(k) ==
  /\ \A i \in Polls : instance[i].state = "unused" <=> i > k
  /\ ~env.preinitialized => k = 0
  /\ pc[Main] = "initialize" /\ entry # "TAMPI_Init" => k = 0
  /\ pc[Main] = "initialize" /\ entry = "TAMPI_Init" => k + 2 <= MaxPolls
  /\ pc[Main] = "register" => k + 2 <= MaxPolls
  /\ pc[Main] = "registerCompletion" => k + 1 <= MaxPolls

EnvironmentInv ==
  /\ EnvironmentType
  /\ LifeCycle
  /\ Modes
  /\ \A i \in Polls : InstanceAndTask(i)
  /\ PollingTasks
  /\ \E k \in 0..MaxPolls : Used(k)

-----------------------------------------------------------------------------
(***************************************************************************)
(* The state before the first call satisfies the invariant.                *)
(***************************************************************************)
LEMMA EnvironmentInit == Init => EnvironmentInv
<1> SUFFICES ASSUME Init PROVE EnvironmentInv
  OBVIOUS
<1> USE EnvironmentAssumption
<1>1. pc[Main] = "user" /\ \A i \in Polls : ppc[i] = "none" /\ instance[i].state = "unused"
                             /\ ~instance[i].mustFinish /\ ~instance[i].finished
  BY DEF Init
<1>2. EnvironmentType
  <2>1. 0 \in 0..MaxPolls
    OBVIOUS
  <2>2. polling \in [instance : 0..MaxPolls, completion : 0..MaxPolls]
    BY <2>1 DEF Init
  <2>3. instance \in [Polls -> [state : {"unused", "registered", "deleted"},
                                mustFinish : BOOLEAN, finished : BOOLEAN]]
    BY DEF Init
  <2>4. ppc \in [Polls -> {"none", "loop", "function", "ended", "completed"}]
    BY DEF Init
  <2>5. pc \in [Users -> Elsewhere \cup MPIStarting \cup {"initialize"} \cup Starting \cup Finalizing]
    BY DEF Init, Elsewhere
  <2>6. env \in [preinitialized : BOOLEAN, initialized : BOOLEAN, autoInitialize : BOOLEAN,
                 nativeThreadLevel : NativeLevel, blockingMode : BOOLEAN, nonBlockingMode : BOOLEAN]
    BY DEF Init, NativeLevel
  <2> QED
    BY <2>2, <2>3, <2>4, <2>5, <2>6 DEF Init, EnvironmentType, Level, NativeLevel
<1>3. LifeCycle
  <2>1. pc[Main] \notin Starting \cup Stopping \cup {"initialize", "finalize"} \cup MPIStarting \cup Finalizing
    BY <1>1 DEF MPIStarting, Starting, Stopping, Finalizing
  <2>2. /\ ~env.initialized /\ ~env.preinitialized /\ mpi = "none" /\ mutex = NoOne /\ ~aborted
        /\ pc[Main] \notin {"auto", "native", "query", "preinitialize"}
    BY <1>1 DEF Init
  <2> QED
    BY <2>1, <2>2 DEF LifeCycle
<1>4. Modes
  BY <1>1 DEF Init, Modes
<1>5. \A i \in Polls : InstanceAndTask(i)
  BY <1>1 DEF InstanceAndTask
<1>6. Registered = {}
  BY <1>1 DEF Registered
<1>7. PollingTasks
  BY <1>1, <1>6 DEF Init, PollingTasks, Starting, Stopping, Finalizing
<1>8. Used(0) /\ 0 \in 0..MaxPolls
  BY <1>1 DEF Used, Polls
<1> QED
  BY <1>2, <1>3, <1>4, <1>5, <1>7, <1>8 DEF EnvironmentInv

(***************************************************************************)
(* Steps that leave the instances and Polling's pointers alone keep what   *)
(* is said of them.                                                        *)
(***************************************************************************)
LEMMA InstancesKept ==
  ASSUME \A i \in Polls : InstanceAndTask(i), UNCHANGED <<polling, instance, ppc>>
  PROVE  /\ \A i \in Polls : InstanceAndTask(i)'
         /\ Registered' = Registered
         /\ ServingBoth' = ServingBoth /\ EndingFirst' = EndingFirst
         /\ Serving({polling.instance})' = Serving({polling.instance})
         /\ Serving({polling.completion})' = Serving({polling.completion})
<1>1. \A i \in Polls : InstanceAndTask(i)'
  BY DEF InstanceAndTask
<1>2. Registered' = Registered
  BY DEF Registered
<1>3. Pointers' = Pointers
  BY DEF Pointers
<1> QED
  BY <1>1, <1>2, <1>3 DEF ServingBoth, Serving, EndingFirst

(***************************************************************************)
(* And so do the steps of a polling task: they register, delete and stop   *)
(* no instance.                                                            *)
(***************************************************************************)
LEMMA RegisteredKept ==
  ASSUME UNCHANGED polling,
         \A i \in Polls : /\ instance'[i].state = instance[i].state
                         /\ instance'[i].mustFinish = instance[i].mustFinish
  PROVE  /\ Registered' = Registered
         /\ ServingBoth => ServingBoth'
         /\ EndingFirst => EndingFirst'
         /\ Serving({polling.instance}) => Serving({polling.instance})'
         /\ Serving({polling.completion}) => Serving({polling.completion})'
<1>1. Registered' = Registered /\ Registered \subseteq Polls
  BY DEF Registered
<1>2. Pointers' = Pointers
  BY DEF Pointers
<1>3. Serving({polling.instance}) => Serving({polling.instance})'
  BY <1>1 DEF Serving
<1>4. Serving({polling.completion}) => Serving({polling.completion})'
  BY <1>1 DEF Serving
<1>5. ServingBoth => ServingBoth'
  BY <1>1, <1>2 DEF ServingBoth, Serving
<1>6. EndingFirst => EndingFirst'
  BY <1>1, <1>2 DEF EndingFirst, Pointers
<1> QED
  BY <1>1, <1>3, <1>4, <1>5, <1>6

(***************************************************************************)
(* Steps that change nothing of the library but the progress of a polling  *)
(* task, and leave Main where it is or let it go on with its own code,     *)
(* keep the invariant.                                                     *)
(***************************************************************************)
LEMMA TasksProgress ==
  ASSUME EnvironmentInv,
         UNCHANGED <<mainVars, polling>>,
         instance' \in [Polls -> [state : {"unused", "registered", "deleted"},
                                  mustFinish : BOOLEAN, finished : BOOLEAN]],
         ppc' \in [Polls -> {"none", "loop", "function", "ended", "completed"}],
         \A i \in Polls : /\ instance'[i].state = instance[i].state
                         /\ instance'[i].mustFinish = instance[i].mustFinish
                         /\ InstanceAndTask(i)',
         pc' \in [Users -> Elsewhere \cup MPIStarting \cup {"initialize"} \cup Starting \cup Finalizing],
         pc'[Main] = pc[Main] \/ (pc[Main] \in Elsewhere /\ pc'[Main] \in Elsewhere),
         value' \in [Users -> BOOLEAN],
         aborted' \in BOOLEAN,
         aborted' = aborted \/ pc'[Main] # "finalize" \/ entry = "TAMPI_Finalize"
  PROVE  EnvironmentInv'
<1> USE DEF EnvironmentInv
<1>1. UNCHANGED <<mpi, env, mutex, entry, required, provided, polling>>
  BY DEF mainVars
<1>2. EnvironmentType'
  BY <1>1 DEF EnvironmentType
<1>3. \/ pc'[Main] = pc[Main]
      \/ /\ pc[Main] \notin Starting \cup Stopping \cup {"initialize"} \cup MPIStarting \cup Finalizing
         /\ pc'[Main] \notin Starting \cup Stopping \cup {"initialize"} \cup MPIStarting \cup Finalizing
  BY DEF Elsewhere, MPIStarting, Starting, Stopping, Finalizing
<1>4. LifeCycle'
  <2>1. CASE pc'[Main] = pc[Main]
    BY <1>1, <2>1 DEF LifeCycle, Finalizing
  <2>2. CASE pc'[Main] # pc[Main]
    BY <1>1, <1>3, <2>2 DEF LifeCycle, MPIStarting, Finalizing
  <2> QED
    BY <2>1, <2>2
<1>5. /\ EnableBlocking' = EnableBlocking /\ EnableNonBlocking' = EnableNonBlocking
      /\ NeedsPolling' = NeedsPolling /\ Multithreaded' = Multithreaded /\ PollsToStop' = PollsToStop
  BY <1>1 DEF EnableBlocking, EnableNonBlocking, Multithreaded, NeedsPolling, PollsToStop
<1>6. /\ Registered' = Registered
      /\ ServingBoth => ServingBoth'
      /\ EndingFirst => EndingFirst'
      /\ Serving({polling.instance}) => Serving({polling.instance})'
      /\ Serving({polling.completion}) => Serving({polling.completion})'
  BY <1>1, RegisteredKept
<1>7. Modes'
  <2>1. CASE pc'[Main] = pc[Main]
    BY <1>1, <1>5, <2>1 DEF Modes
  <2>2. CASE pc'[Main] # pc[Main]
    BY <1>1, <1>3, <1>5, <2>2 DEF Modes, Starting, Stopping
  <2> QED
    BY <2>1, <2>2
<1>8. PollingTasks'
  <2>1. CASE pc'[Main] = pc[Main]
    BY <1>1, <1>5, <1>6, <2>1 DEF PollingTasks
  <2>2. CASE pc'[Main] # pc[Main]
    BY <1>1, <1>3, <1>5, <1>6, <2>2 DEF PollingTasks, Starting, Stopping
  <2> QED
    BY <2>1, <2>2
<1>9. \A k \in 0..MaxPolls : Used(k) => Used(k)'
  BY <1>1 DEF Used, Elsewhere
<1> QED
  BY <1>2, <1>4, <1>7, <1>8, <1>9

(***************************************************************************)
(* Steps that change nothing of the library at all.                        *)
(***************************************************************************)
LEMMA LibraryKept ==
  ASSUME EnvironmentInv,
         UNCHANGED <<mainVars, polling, instance, ppc>>,
         pc' \in [Users -> Elsewhere \cup MPIStarting \cup {"initialize"} \cup Starting \cup Finalizing],
         pc'[Main] = pc[Main] \/ (pc[Main] \in Elsewhere /\ pc'[Main] \in Elsewhere),
         value' \in [Users -> BOOLEAN],
         aborted' \in BOOLEAN,
         aborted' = aborted \/ pc'[Main] # "finalize" \/ entry = "TAMPI_Finalize"
  PROVE  EnvironmentInv'
<1> USE DEF EnvironmentInv
<1>1. \A i \in Polls : InstanceAndTask(i)'
  BY InstancesKept
<1> QED
  BY <1>1, TasksProgress DEF EnvironmentType

(***************************************************************************)
(* The calls of user tasks that only look at the library, and the          *)
(* runtime's dispatching, keep the invariant.                              *)
(***************************************************************************)
LEMMA LookingStep ==
  ASSUME EnvironmentInv,
         \/ \E a \in Users \cup Polls : Dispatch(a)
         \/ TaskWait
         \/ \E u \in Users : \/ \E v \in BOOLEAN, f \in {"getProperty", "setAuto", "setAware"} :
                                TAMPI_Property(u, f, v)
                           \/ GetProperty(u) \/ SetTaskAwareness(u)
                           \/ MPI_Send(u) \/ TAMPI_Isend(u) \/ End(u)
  PROVE  EnvironmentInv'
<1> USE EnvironmentAssumption
<1>1. /\ pc \in [Users -> Elsewhere \cup MPIStarting \cup {"initialize"} \cup Starting \cup Finalizing]
      /\ value \in [Users -> BOOLEAN] /\ aborted \in BOOLEAN
  BY DEF EnvironmentInv, EnvironmentType
<1>2. UNCHANGED <<mainVars, polling, instance, ppc>>
  BY DEF Dispatch, TaskWait, TAMPI_Property, GetProperty, SetTaskAwareness, MPI_Send, TAMPI_Isend, End,
     pollVars, OnlyMain
<1>3. CASE (\E a \in Users \cup Polls : Dispatch(a)) \/ TaskWait
  <2>1. UNCHANGED <<pc, value, aborted>>
    BY <1>3 DEF Dispatch, TaskWait, userVars
  <2> QED
    BY <1>1, <1>2, <2>1, LibraryKept
<1>4. ASSUME NEW u \in Users,
             \/ \E v \in BOOLEAN, f \in {"getProperty", "setAuto", "setAware"} : TAMPI_Property(u, f, v)
             \/ GetProperty(u) \/ SetTaskAwareness(u) \/ MPI_Send(u) \/ TAMPI_Isend(u) \/ End(u)
      PROVE  EnvironmentInv'
  <2>1. /\ pc[u] \in Elsewhere
        /\ \/ UNCHANGED pc
           \/ \E there \in Elsewhere : pc' = [pc EXCEPT ![u] = there]
    BY <1>4 DEF TAMPI_Property, Calling, GetProperty, SetTaskAwareness, MPI_Send, TAMPI_Isend,
       Communicates, Delegate, End, Goto, Locked, At, Elsewhere
  <2>2. value' \in [Users -> BOOLEAN]
    BY <1>1, <1>4 DEF TAMPI_Property, GetProperty, SetTaskAwareness, MPI_Send, TAMPI_Isend, End,
       OnlyMain, userVars
  <2>3. aborted' \in BOOLEAN /\ (aborted' = aborted \/ pc[Main] \notin Finalizing)
    BY <1>1, <1>4 DEF TAMPI_Property, GetProperty, SetTaskAwareness, MPI_Send, TAMPI_Isend,
       Communicates, End, OnlyMain
  <2>4. /\ pc' \in [Users -> Elsewhere \cup MPIStarting \cup {"initialize"} \cup Starting \cup Finalizing]
        /\ pc'[Main] = pc[Main] \/ (pc[Main] \in Elsewhere /\ pc'[Main] \in Elsewhere)
    BY <1>1, <2>1
  <2>5. aborted' = aborted \/ pc'[Main] # "finalize"
    BY <2>3, <2>4 DEF Elsewhere, Finalizing
  <2> QED
    BY <1>2, <2>2, <2>3, <2>4, <2>5, LibraryKept
<1> QED
  BY <1>3, <1>4

(***************************************************************************)
(* setProperty of TAMPI_PROPERTY_AUTO_INIT changes the property only       *)
(* before preinitialize.                                                   *)
(***************************************************************************)
LEMMA SetAutoInitStep ==
  ASSUME EnvironmentInv, NEW u \in Users, SetAutoInit(u)
  PROVE  EnvironmentInv'
<1> USE EnvironmentAssumption DEF EnvironmentInv
<1>1. CASE env' = env
  <2>1. UNCHANGED <<mainVars, polling, instance, ppc, value, aborted>>
    BY <1>1 DEF SetAutoInit, OnlyMain, pollVars, userVars, mainVars
  <2>2. pc[u] \in Elsewhere /\ pc' = [pc EXCEPT ![u] = "user"] /\ "user" \in Elsewhere
    BY DEF SetAutoInit, Locked, At, Goto, Elsewhere
  <2>3. /\ pc' \in [Users -> Elsewhere \cup MPIStarting \cup {"initialize"} \cup Starting \cup Finalizing]
        /\ pc'[Main] = pc[Main] \/ (pc[Main] \in Elsewhere /\ pc'[Main] \in Elsewhere)
    BY <2>2 DEF EnvironmentType
  <2>4. value' \in [Users -> BOOLEAN] /\ aborted' \in BOOLEAN /\ aborted' = aborted
    BY <2>1 DEF EnvironmentType
  <2> QED
    BY <2>1, <2>3, <2>4, LibraryKept
<1>2. CASE ~env.preinitialized
  <2>1. /\ env' = [env EXCEPT !.autoInitialize = value[u]]
        /\ UNCHANGED <<mpi, mutex, entry, required, provided, polling, instance, ppc, value, aborted>>
        /\ pc' = [pc EXCEPT ![u] = "user"]
    BY <1>2 DEF SetAutoInit, MaySetAuto, OnlyMain, pollVars, userVars, Goto
  <2>2. pc[u] \in Elsewhere /\ "user" \in Elsewhere
    BY DEF SetAutoInit, Locked, At, Elsewhere
  <2>3. EnvironmentType'
    BY <2>1, <2>2 DEF EnvironmentType
  <2>4. /\ env'.preinitialized = env.preinitialized /\ env'.initialized = env.initialized
        /\ env'.nativeThreadLevel = env.nativeThreadLevel
        /\ env'.blockingMode = env.blockingMode /\ env'.nonBlockingMode = env.nonBlockingMode
    BY <2>1 DEF EnvironmentType
  <2>5. \/ pc'[Main] = pc[Main]
        \/ /\ pc[Main] \notin Starting \cup Stopping \cup {"initialize"} \cup MPIStarting \cup Finalizing
           /\ pc'[Main] \notin Starting \cup Stopping \cup {"initialize"} \cup MPIStarting \cup Finalizing
    BY <2>1, <2>2 DEF EnvironmentType, Elsewhere, MPIStarting, Starting, Stopping, Finalizing
  <2>6. ~env.initialized /\ pc[Main] \notin Starting \cup Stopping
    BY <1>2 DEF LifeCycle
  <2>7. pc'[Main] \notin Starting \cup Stopping
    BY <2>5, <2>6
  <2>8. LifeCycle'
    BY <1>2, <2>1, <2>4, <2>5, <2>6, <2>7 DEF LifeCycle, MPIStarting, Finalizing
  <2>9. Modes'
    BY <2>1, <2>4, <2>6, <2>7 DEF Modes, Starting, Stopping, Multithreaded
  <2>10. PollingTasks'
    BY <2>4, <2>6, <2>7, <2>1, InstancesKept DEF PollingTasks, Starting, Stopping
  <2>11. \A k \in 0..MaxPolls : Used(k) => Used(k)'
    BY <2>1, <2>2, <2>4 DEF Used, Elsewhere, EnvironmentType
  <2> QED
    BY <2>1, <2>3, <2>8, <2>9, <2>10, <2>11, InstancesKept
<1> QED
  BY <1>1, <1>2 DEF SetAutoInit, MaySetAuto

(***************************************************************************)
(* The types of what only Main writes.                                     *)
(***************************************************************************)
MainType ==
  /\ mpi \in {"none", "initialized", "finalized"}
  /\ env \in [preinitialized : BOOLEAN, initialized : BOOLEAN, autoInitialize : BOOLEAN,
              nativeThreadLevel : NativeLevel, blockingMode : BOOLEAN, nonBlockingMode : BOOLEAN]
  /\ entry \in {"none", "MPI_Init", "MPI_Init_thread", "TAMPI_Init", "MPI_Finalize", "TAMPI_Finalize"}
  /\ required \in Level /\ provided \in Level

(***************************************************************************)
(* What is left to show of a step of Main that leaves the polling tasks    *)
(* alone.                                                                  *)
(***************************************************************************)
LEMMA MainMoves ==
  ASSUME EnvironmentInv,
         NEW there \in Elsewhere \cup MPIStarting \cup {"initialize"} \cup Starting \cup Finalizing,
         pc' = [pc EXCEPT ![Main] = there],
         UNCHANGED <<polling, instance, ppc, value, aborted>>,
         MainType', LifeCycle', Modes', PollingTasks',
         \A k \in 0..MaxPolls : Used(k) => Used(k)'
  PROVE  EnvironmentInv'
<1> USE DEF EnvironmentInv
<1>1. EnvironmentType'
  BY DEF EnvironmentType, MainType
<1> QED
  BY <1>1, InstancesKept

(***************************************************************************)
(* ErrorHandler::fail keeps the invariant: in finalize it is called for    *)
(* TAMPI_Finalize only.                                                    *)
(***************************************************************************)
LEMMA FailStep ==
  ASSUME EnvironmentInv, Fail, pc[Main] # "finalize" \/ entry = "TAMPI_Finalize"
  PROVE  EnvironmentInv'
<1>1. UNCHANGED <<mainVars, polling, instance, ppc, pc, value>> /\ aborted' = TRUE
  BY DEF Fail, pollVars, userVars
<1>2. /\ pc \in [Users -> Elsewhere \cup MPIStarting \cup {"initialize"} \cup Starting \cup Finalizing]
      /\ value \in [Users -> BOOLEAN]
  BY DEF EnvironmentInv, EnvironmentType
<1> QED
  BY <1>1, <1>2, LibraryKept

(***************************************************************************)
(* MPI_Init calls the native function first.                               *)
(***************************************************************************)
LEMMA MPI_InitStep ==
  ASSUME EnvironmentInv, NEW level \in NativeLevel, MPI_Init(level)
  PROVE  EnvironmentInv'
<1> USE EnvironmentAssumption DEF EnvironmentInv
<1>1. pc[Main] = "user" /\ pc' = [pc EXCEPT ![Main] = "query"]
  BY DEF MPI_Init, pollVars, userVars, OnlyMain, Goto, At
<1>2. pc'[Main] = "query"
  BY <1>1 DEF EnvironmentType
<1>3. /\ mpi = "none" /\ mpi' = "initialized" /\ entry' = "MPI_Init" /\ provided' = level
      /\ UNCHANGED <<env, mutex, required>>
  BY DEF MPI_Init, pollVars, userVars, OnlyMain, Goto, At
<1>4. UNCHANGED <<polling, instance, ppc, value, aborted>>
  BY DEF MPI_Init, pollVars, userVars, OnlyMain, Goto, At
<1>5. provided' \in NativeLevel /\ provided' \in Level
  BY <1>3 DEF Level
<1>6. LifeCycle'
  BY <1>1, <1>2, <1>3, <1>4, <1>5 DEF LifeCycle, MPIStarting, Starting, Stopping, Finalizing
<1>7. Modes'
  BY <1>1, <1>2, <1>3 DEF Modes, LifeCycle, Multithreaded
<1>8. PollingTasks'
  BY <1>1, <1>2, <1>3, <1>4, InstancesKept DEF PollingTasks, LifeCycle, Starting, Stopping
<1>9. \A k \in 0..MaxPolls : Used(k) => Used(k)'
  BY <1>2, <1>3, <1>4 DEF Used
<1>10. "query" \in Elsewhere \cup MPIStarting \cup {"initialize"} \cup Starting \cup Finalizing
  BY DEF Elsewhere, MPIStarting, Starting, Finalizing
<1>11. MainType'
  BY <1>1, <1>3, <1>4, <1>5 DEF EnvironmentType, MainType
<1> HIDE DEF EnvironmentInv
<1> QED
  BY <1>1, <1>3, <1>4, <1>5, <1>6, <1>7, <1>8, <1>9, <1>10, <1>11, MainMoves

(***************************************************************************)
(* MPI_Query_thread, called by MPI_Init before any mode is enabled, gives  *)
(* the native level.                                                       *)
(***************************************************************************)
LEMMA MPI_Query_threadStep ==
  ASSUME EnvironmentInv, MPI_Query_thread
  PROVE  EnvironmentInv'
<1> USE EnvironmentAssumption DEF EnvironmentInv
<1>1. pc[Main] = "query" /\ pc' = [pc EXCEPT ![Main] = "preinitialize"]
  BY DEF MPI_Query_thread, Locked, pollVars, userVars, OnlyMain, Goto, At
<1>2. pc'[Main] = "preinitialize"
  BY <1>1 DEF EnvironmentType
<1>3. /\ provided' = (IF env.blockingMode THEN "task" ELSE provided) /\ required' = provided'
      /\ UNCHANGED <<mpi, env, mutex, entry>>
  BY DEF MPI_Query_thread, Locked, pollVars, userVars, OnlyMain, Goto, At
<1>4. UNCHANGED <<polling, instance, ppc, value, aborted>>
  BY DEF MPI_Query_thread, Locked, pollVars, userVars, OnlyMain, Goto, At
<1>5. provided' = provided /\ required' \in Level /\ ~env.initialized
  BY <1>1, <1>3 DEF EnvironmentType, Modes, LifeCycle, MPIStarting
<1>6. LifeCycle'
  BY <1>1, <1>2, <1>3, <1>4, <1>5 DEF LifeCycle, MPIStarting, Starting, Stopping, Finalizing
<1>7. Modes'
  BY <1>1, <1>2, <1>3, <1>5 DEF Modes, Multithreaded
<1>8. PollingTasks'
  BY <1>1, <1>2, <1>3, <1>4, <1>5, InstancesKept DEF PollingTasks, Starting, Stopping
<1>9. \A k \in 0..MaxPolls : Used(k) => Used(k)'
  BY <1>2, <1>3, <1>4 DEF Used
<1>10. "preinitialize" \in Elsewhere \cup MPIStarting \cup {"initialize"} \cup Starting \cup Finalizing
  BY DEF Elsewhere, MPIStarting, Starting, Finalizing
<1>11. MainType'
  BY <1>1, <1>3, <1>4, <1>5 DEF EnvironmentType, MainType
<1> HIDE DEF EnvironmentInv
<1> QED
  BY <1>1, <1>3, <1>4, <1>5, <1>6, <1>7, <1>8, <1>9, <1>10, <1>11, MainMoves

(***************************************************************************)
(* MPI_Init_thread looks at the property before it initialises MPI.        *)
(***************************************************************************)
LEMMA MPI_Init_threadStep ==
  ASSUME EnvironmentInv, NEW level \in Level, MPI_Init_thread(level)
  PROVE  EnvironmentInv'
<1> USE EnvironmentAssumption DEF EnvironmentInv
<1>1. pc[Main] = "user" /\ pc' = [pc EXCEPT ![Main] = "auto"]
  BY DEF MPI_Init_thread, pollVars, userVars, OnlyMain, Goto, At
<1>2. pc'[Main] = "auto"
  BY <1>1 DEF EnvironmentType
<1>3. /\ mpi = "none" /\ entry' = "MPI_Init_thread" /\ required' = level
      /\ UNCHANGED <<mpi, env, mutex, provided>>
  BY DEF MPI_Init_thread, pollVars, userVars, OnlyMain, Goto, At
<1>4. UNCHANGED <<polling, instance, ppc, value, aborted>>
  BY DEF MPI_Init_thread, pollVars, userVars, OnlyMain, Goto, At
<1>5. ~env.preinitialized /\ ~env.initialized
  BY <1>3 DEF LifeCycle
<1>6. LifeCycle'
  BY <1>1, <1>2, <1>3, <1>4, <1>5 DEF LifeCycle, MPIStarting, Starting, Stopping, Finalizing
<1>7. Modes'
  BY <1>1, <1>2, <1>3, <1>5 DEF Modes, Multithreaded
<1>8. PollingTasks'
  BY <1>1, <1>2, <1>3, <1>4, <1>5, InstancesKept DEF PollingTasks, Starting, Stopping
<1>9. \A k \in 0..MaxPolls : Used(k) => Used(k)'
  BY <1>2, <1>3, <1>4 DEF Used
<1>10. "auto" \in Elsewhere \cup MPIStarting \cup {"initialize"} \cup Starting \cup Finalizing
  BY DEF Elsewhere, MPIStarting, Starting, Finalizing
<1>11. MainType'
  BY <1>1, <1>3, <1>4, <1>5 DEF EnvironmentType, MainType
<1> HIDE DEF EnvironmentInv
<1> QED
  BY <1>1, <1>3, <1>4, <1>5, <1>6, <1>7, <1>8, <1>9, <1>10, <1>11, MainMoves

(***************************************************************************)
(* The native MPI_Init_thread.                                             *)
(***************************************************************************)
LEMMA NativeInitThreadStep ==
  ASSUME EnvironmentInv, NEW level \in NativeLevel, NativeInitThread(level)
  PROVE  EnvironmentInv'
<1> USE EnvironmentAssumption DEF EnvironmentInv
<1>1. pc[Main] = "native" /\ pc' = [pc EXCEPT ![Main] = "preinitialize"]
  BY DEF NativeInitThread, pollVars, userVars, OnlyMain, Goto, At
<1>2. pc'[Main] = "preinitialize"
  BY <1>1 DEF EnvironmentType
<1>3. /\ mpi' = "initialized" /\ provided' = level
      /\ UNCHANGED <<env, mutex, entry, required>>
  BY DEF NativeInitThread, pollVars, userVars, OnlyMain, Goto, At
<1>4. UNCHANGED <<polling, instance, ppc, value, aborted>>
  BY DEF NativeInitThread, pollVars, userVars, OnlyMain, Goto, At
<1>5. /\ provided' \in NativeLevel /\ provided' \in Level
      /\ ~env.preinitialized /\ ~env.initialized
  BY <1>1, <1>3 DEF Level, LifeCycle, MPIStarting
<1>6. LifeCycle'
  BY <1>1, <1>2, <1>3, <1>4, <1>5 DEF LifeCycle, MPIStarting, Starting, Stopping, Finalizing
<1>7. Modes'
  BY <1>1, <1>2, <1>3, <1>5 DEF Modes, Multithreaded
<1>8. PollingTasks'
  BY <1>1, <1>2, <1>3, <1>4, <1>5, InstancesKept DEF PollingTasks, Starting, Stopping
<1>9. \A k \in 0..MaxPolls : Used(k) => Used(k)'
  BY <1>2, <1>3, <1>4 DEF Used
<1>10. "preinitialize" \in Elsewhere \cup MPIStarting \cup {"initialize"} \cup Starting \cup Finalizing
  BY DEF Elsewhere, MPIStarting, Starting, Finalizing
<1>11. MainType'
  BY <1>1, <1>3, <1>4, <1>5 DEF EnvironmentType, MainType
<1> HIDE DEF EnvironmentInv
<1> QED
  BY <1>1, <1>3, <1>4, <1>5, <1>6, <1>7, <1>8, <1>9, <1>10, <1>11, MainMoves

(***************************************************************************)
(* preinitialize records the native level and fixes the property.          *)
(***************************************************************************)
LEMMA PreinitializeStep ==
  ASSUME EnvironmentInv, Preinitialize
  PROVE  EnvironmentInv'
<1> USE EnvironmentAssumption DEF EnvironmentInv
<1>1. pc[Main] = "preinitialize" /\ pc' = [pc EXCEPT ![Main] = "initialize"]
  BY DEF Preinitialize, Locked, pollVars, userVars, OnlyMain, Goto, At
<1>2. pc'[Main] = "initialize"
  BY <1>1 DEF EnvironmentType
<1>3. /\ env' = [env EXCEPT !.nativeThreadLevel = provided, !.preinitialized = TRUE]
      /\ UNCHANGED <<mpi, mutex, entry, required, provided>>
  BY DEF Preinitialize, Locked, pollVars, userVars, OnlyMain, Goto, At
<1>4. UNCHANGED <<polling, instance, ppc, value, aborted>>
  BY DEF Preinitialize, Locked, pollVars, userVars, OnlyMain, Goto, At
<1>5. /\ env' \in [preinitialized : BOOLEAN, initialized : BOOLEAN, autoInitialize : BOOLEAN,
                nativeThreadLevel : NativeLevel, blockingMode : BOOLEAN, nonBlockingMode : BOOLEAN]
      /\ env'.preinitialized /\ env'.initialized = env.initialized
      /\ env'.autoInitialize = env.autoInitialize
      /\ env'.blockingMode = env.blockingMode /\ env'.nonBlockingMode = env.nonBlockingMode
      /\ ~env.preinitialized /\ ~env.initialized
  BY <1>1, <1>3 DEF EnvironmentType, LifeCycle, MPIStarting
<1>6. LifeCycle'
  BY <1>1, <1>2, <1>3, <1>4, <1>5 DEF LifeCycle, MPIStarting, Starting, Stopping, Finalizing
<1>7. Modes'
  BY <1>1, <1>2, <1>3, <1>5 DEF Modes, Multithreaded
<1>8. PollingTasks'
  BY <1>1, <1>2, <1>3, <1>4, <1>5, InstancesKept DEF PollingTasks, Starting, Stopping
<1>9. \A k \in 0..MaxPolls : Used(k) => Used(k)'
  BY <1>1, <1>2, <1>3, <1>4, <1>5 DEF Used, LifeCycle, MPIStarting
<1>10. "initialize" \in Elsewhere \cup MPIStarting \cup {"initialize"} \cup Starting \cup Finalizing
  BY DEF Elsewhere, MPIStarting, Starting, Finalizing
<1>11. MainType'
  BY <1>1, <1>3, <1>4, <1>5 DEF EnvironmentType, MainType
<1> HIDE DEF EnvironmentInv
<1> QED
  BY <1>1, <1>3, <1>4, <1>5, <1>6, <1>7, <1>8, <1>9, <1>10, <1>11, MainMoves

(***************************************************************************)
(* TAMPI_Init, called by a program whose library is not initialised.       *)
(***************************************************************************)
LEMMA TAMPI_InitStep ==
  ASSUME EnvironmentInv, NEW level \in Level, TAMPI_Init(level)
  PROVE  EnvironmentInv'
<1> USE EnvironmentAssumption DEF EnvironmentInv
<1>1. pc[Main] = "user" /\ pc' = [pc EXCEPT ![Main] = "initialize"]
  BY DEF TAMPI_Init, pollVars, userVars, OnlyMain, Goto, At
<1>2. pc'[Main] = "initialize"
  BY <1>1 DEF EnvironmentType
<1>3. /\ mpi # "finalized" /\ ~env.initialized /\ entry' = "TAMPI_Init" /\ required' = level
      /\ \E i \in Polls : i + 1 \in Polls /\ instance[i].state = "unused"
      /\ UNCHANGED <<mpi, env, mutex, provided>>
  BY DEF TAMPI_Init, pollVars, userVars, OnlyMain, Goto, At
<1>4. UNCHANGED <<polling, instance, ppc, value, aborted>>
  BY DEF TAMPI_Init, pollVars, userVars, OnlyMain, Goto, At
<1>5. pc[Main] \notin MPIStarting \cup Starting \cup Stopping
  BY <1>1 DEF MPIStarting, Starting, Stopping
<1>6. LifeCycle'
  BY <1>1, <1>2, <1>3, <1>4, <1>5 DEF LifeCycle, MPIStarting, Starting, Stopping, Finalizing
<1>7. Modes'
  BY <1>1, <1>2, <1>3 DEF Modes, Multithreaded
<1>8. PollingTasks'
  BY <1>1, <1>2, <1>3, <1>4, InstancesKept DEF PollingTasks, Starting, Stopping
<1>9. \A k \in 0..MaxPolls : Used(k) => Used(k)'
  BY <1>2, <1>3, <1>4 DEF Used, Polls
<1>10. "initialize" \in Elsewhere \cup MPIStarting \cup {"initialize"} \cup Starting \cup Finalizing
  BY DEF Elsewhere, MPIStarting, Starting, Finalizing
<1>11. MainType'
  BY <1>1, <1>3, <1>4, <1>5 DEF EnvironmentType, MainType
<1> HIDE DEF EnvironmentInv
<1> QED
  BY <1>1, <1>3, <1>4, <1>5, <1>6, <1>7, <1>8, <1>9, <1>10, <1>11, MainMoves

(***************************************************************************)
(* MPI_Init_thread goes on to the native function, or refuses to provide   *)
(* MPI_TASK_MULTIPLE without the automatic initialisation.                 *)
(***************************************************************************)
LEMMA IsAutoInitializeEnabledStep ==
  ASSUME EnvironmentInv, IsAutoInitializeEnabled
  PROVE  EnvironmentInv'
<1> USE EnvironmentAssumption DEF EnvironmentInv
<1>1. pc[Main] = "auto"
  BY DEF IsAutoInitializeEnabled, Locked, At
<1>2. CASE Fail
  BY <1>1, <1>2, FailStep
<1>3. CASE Goto(Main, "native") /\ UNCHANGED mainVars /\ OnlyMain
  <2>1. /\ pc' = [pc EXCEPT ![Main] = "native"]
        /\ UNCHANGED <<mpi, env, mutex, entry, required, provided, polling, instance, ppc, value, aborted>>
    BY <1>3 DEF Goto, mainVars, OnlyMain, pollVars, userVars
  <2>2. pc'[Main] = "native"
    BY <2>1 DEF EnvironmentType
  <2>3. ~env.preinitialized /\ ~env.initialized
    BY <1>1 DEF LifeCycle, MPIStarting
  <2>4. LifeCycle'
    BY <1>1, <2>1, <2>2, <2>3 DEF LifeCycle, MPIStarting, Starting, Stopping, Finalizing
  <2>5. Modes'
    BY <1>1, <2>1, <2>2, <2>3 DEF Modes, Multithreaded
  <2>6. PollingTasks'
    BY <1>1, <2>1, <2>2, <2>3, InstancesKept DEF PollingTasks, Starting, Stopping
  <2>7. \A k \in 0..MaxPolls : Used(k) => Used(k)'
    BY <2>1, <2>2 DEF Used
  <2>8. "native" \in Elsewhere \cup MPIStarting \cup {"initialize"} \cup Starting \cup Finalizing
    BY DEF MPIStarting
  <2>9. MainType'
    BY <2>1 DEF EnvironmentType, MainType
  <2> HIDE DEF EnvironmentInv
  <2> QED
    BY <2>1, <2>4, <2>5, <2>6, <2>7, <2>8, <2>9, MainMoves
<1> QED
  BY <1>2, <1>3 DEF IsAutoInitializeEnabled

(***************************************************************************)
(* initialize refuses what is not preinitialised, returns if the program   *)
(* is to initialise the library explicitly, and otherwise takes the mutex. *)
(***************************************************************************)
LEMMA InitializeStart ==
  ASSUME EnvironmentInv, Initialize
  PROVE  EnvironmentInv'
<1> USE EnvironmentAssumption DEF EnvironmentInv
<1>1. pc[Main] = "initialize" /\ ~env.initialized /\ mpi # "finalized"
  BY DEF Initialize, Locked, At, LifeCycle
<1>2. CASE Fail
  BY <1>1, <1>2, FailStep
<1>3. CASE ~Fail
  <2>1. /\ env.preinitialized /\ (entry = "TAMPI_Init" => ~env.autoInitialize)
        /\ UNCHANGED <<mpi, env, entry, required, provided, polling, instance, ppc, value, aborted>>
    BY <1>3 DEF Initialize, Automatic, OnlyMain, pollVars, userVars
  <2>2. mpi = "initialized" /\ entry \notin {"MPI_Finalize", "TAMPI_Finalize"}
    BY <1>1, <2>1 DEF LifeCycle, EnvironmentType
  <2>3. CASE Automatic /\ ~env.autoInitialize
    <3>1. pc' = [pc EXCEPT ![Main] = "user"] /\ mutex' = mutex
      BY <1>3, <2>3 DEF Initialize, Goto
    <3>2. pc'[Main] = "user"
      BY <3>1 DEF EnvironmentType
    <3>3. LifeCycle'
      BY <1>1, <2>1, <2>2, <2>3, <3>1, <3>2 DEF LifeCycle, MPIStarting, Starting, Stopping, Finalizing
    <3>4. Modes'
      BY <1>1, <2>1, <3>2 DEF Modes, Multithreaded
    <3>5. PollingTasks'
      BY <1>1, <2>1, <3>2, InstancesKept DEF PollingTasks, Starting, Stopping
    <3>6. \A k \in 0..MaxPolls : Used(k) => Used(k)'
      BY <2>1, <3>2 DEF Used
    <3>7. "user" \in Elsewhere \cup MPIStarting \cup {"initialize"} \cup Starting \cup Finalizing
      BY DEF Elsewhere
    <3>8. MainType'
      BY <2>1 DEF EnvironmentType, MainType
    <3> HIDE DEF EnvironmentInv
    <3> QED
      BY <2>1, <3>1, <3>3, <3>4, <3>5, <3>6, <3>7, <3>8, MainMoves
  <2>4. CASE ~(Automatic /\ ~env.autoInitialize)
    <3> DEFINE there == IF NeedsPolling THEN "register" ELSE "enableBlocking"
    <3>1. pc' = [pc EXCEPT ![Main] = there] /\ mutex' = Main
      BY <1>3, <2>4 DEF Initialize, Goto
    <3>2. pc'[Main] = there /\ there \in {"register", "enableBlocking"}
      BY <3>1 DEF EnvironmentType
    <3>3. LifeCycle'
      BY <1>1, <2>1, <2>2, <3>1, <3>2 DEF LifeCycle, MPIStarting, Starting, Stopping, Finalizing
    <3>4. Modes'
      BY <1>1, <2>1, <3>2 DEF Modes, Multithreaded
    <3>5. NeedsPolling' = NeedsPolling
      BY <2>1 DEF NeedsPolling, EnableBlocking, EnableNonBlocking, Multithreaded
    <3>6. PollingTasks'
      BY <1>1, <2>1, <3>2, <3>5, InstancesKept DEF PollingTasks, Starting, Stopping
    <3>7. \A k \in 0..MaxPolls : Used(k) => Used(k)'
      BY <1>1, <2>1, <3>2 DEF Used
    <3>8. there \in Elsewhere \cup MPIStarting \cup {"initialize"} \cup Starting \cup Finalizing
      BY DEF Starting
    <3>9. MainType'
      BY <2>1 DEF EnvironmentType, MainType
    <3> HIDE DEF EnvironmentInv, there
    <3> QED
      BY <2>1, <3>1, <3>3, <3>4, <3>6, <3>7, <3>8, <3>9, MainMoves
  <2> QED
    BY <2>3, <2>4
<1> QED
  BY <1>2, <1>3

(***************************************************************************)
(* The blocking mode is enabled, if it is, after the polling tasks have    *)
(* been registered.                                                        *)
(***************************************************************************)
LEMMA EnableBlockingStep ==
  ASSUME EnvironmentInv, SetMode("blockingMode", EnableBlocking, "enableBlocking", "enableNonBlocking")
  PROVE  EnvironmentInv'
<1> USE EnvironmentAssumption DEF EnvironmentInv
<1>1. pc[Main] = "enableBlocking" /\ pc' = [pc EXCEPT ![Main] = "enableNonBlocking"]
  BY DEF SetMode, pollVars, userVars, OnlyMain, Goto, At
<1>2. pc'[Main] = "enableNonBlocking"
  BY <1>1 DEF EnvironmentType
<1>3. /\ env' = [env EXCEPT !["blockingMode"] = EnableBlocking]
      /\ UNCHANGED <<mpi, mutex, entry, required, provided>>
  BY DEF SetMode, pollVars, userVars, OnlyMain, Goto, At
<1>4. UNCHANGED <<polling, instance, ppc, value, aborted>>
  BY DEF SetMode, pollVars, userVars, OnlyMain, Goto, At
<1>5. /\ env' \in [preinitialized : BOOLEAN, initialized : BOOLEAN, autoInitialize : BOOLEAN,
                nativeThreadLevel : NativeLevel, blockingMode : BOOLEAN, nonBlockingMode : BOOLEAN]
      /\ env'.preinitialized = env.preinitialized /\ env'.initialized = env.initialized
      /\ env'.autoInitialize = env.autoInitialize /\ env'.nativeThreadLevel = env.nativeThreadLevel
      /\ env'.nonBlockingMode = env.nonBlockingMode
      /\ env'.blockingMode = EnableBlocking
  BY <1>3 DEF EnvironmentType, EnableBlocking, EnableNonBlocking, Multithreaded
<1>6. /\ EnableBlocking' = EnableBlocking /\ EnableNonBlocking' = EnableNonBlocking
       /\ NeedsPolling' = NeedsPolling /\ Multithreaded' = Multithreaded
  BY <1>3, <1>5 DEF NeedsPolling, EnableBlocking, EnableNonBlocking, Multithreaded
<1>7. LifeCycle'
  BY <1>1, <1>2, <1>3, <1>4, <1>5 DEF LifeCycle, MPIStarting, Starting, Stopping, Finalizing
<1>8. Modes'
  BY <1>1, <1>2, <1>3, <1>5, <1>6 DEF Modes, LifeCycle, Starting, EnableBlocking
<1>9. PollingTasks'
  <2>1. IF NeedsPolling THEN ServingBoth ELSE Registered = {}
    BY <1>1 DEF PollingTasks
  <2>2. IF NeedsPolling' THEN ServingBoth' ELSE Registered' = {}
    BY <1>4, <1>6, <2>1, InstancesKept
  <2>3. ~env'.initialized
    BY <1>1, <1>5 DEF LifeCycle, Starting
  <2> QED
    BY <1>2, <2>2, <2>3 DEF PollingTasks, Starting
<1>10. \A k \in 0..MaxPolls : Used(k) => Used(k)'
  BY <1>1, <1>2, <1>3, <1>4, <1>5 DEF Used
<1>11. "enableNonBlocking" \in Elsewhere \cup MPIStarting \cup {"initialize"} \cup Starting \cup Finalizing
  BY DEF Elsewhere, MPIStarting, Starting, Finalizing
<1>12. MainType'
  BY <1>1, <1>3, <1>4, <1>5 DEF EnvironmentType, MainType
<1> HIDE DEF EnvironmentInv
<1> QED
  BY <1>1, <1>3, <1>4, <1>5, <1>7, <1>8, <1>9, <1>10, <1>11, <1>12, MainMoves

(***************************************************************************)
(* And so is the non-blocking mode.                                        *)
(***************************************************************************)
LEMMA EnableNonBlockingStep ==
  ASSUME EnvironmentInv, SetMode("nonBlockingMode", EnableNonBlocking, "enableNonBlocking", "initialized")
  PROVE  EnvironmentInv'
<1> USE EnvironmentAssumption DEF EnvironmentInv
<1>1. pc[Main] = "enableNonBlocking" /\ pc' = [pc EXCEPT ![Main] = "initialized"]
  BY DEF SetMode, pollVars, userVars, OnlyMain, Goto, At
<1>2. pc'[Main] = "initialized"
  BY <1>1 DEF EnvironmentType
<1>3. /\ env' = [env EXCEPT !["nonBlockingMode"] = EnableNonBlocking]
      /\ UNCHANGED <<mpi, mutex, entry, required, provided>>
  BY DEF SetMode, pollVars, userVars, OnlyMain, Goto, At
<1>4. UNCHANGED <<polling, instance, ppc, value, aborted>>
  BY DEF SetMode, pollVars, userVars, OnlyMain, Goto, At
<1>5. /\ env' \in [preinitialized : BOOLEAN, initialized : BOOLEAN, autoInitialize : BOOLEAN,
                nativeThreadLevel : NativeLevel, blockingMode : BOOLEAN, nonBlockingMode : BOOLEAN]
      /\ env'.preinitialized = env.preinitialized /\ env'.initialized = env.initialized
      /\ env'.autoInitialize = env.autoInitialize /\ env'.nativeThreadLevel = env.nativeThreadLevel
      /\ env'.blockingMode = env.blockingMode
      /\ env'.nonBlockingMode = EnableNonBlocking
  BY <1>3 DEF EnvironmentType, EnableBlocking, EnableNonBlocking, Multithreaded
<1>6. /\ EnableBlocking' = EnableBlocking /\ EnableNonBlocking' = EnableNonBlocking
       /\ NeedsPolling' = NeedsPolling /\ Multithreaded' = Multithreaded
  BY <1>3, <1>5 DEF NeedsPolling, EnableBlocking, EnableNonBlocking, Multithreaded
<1>7. LifeCycle'
  BY <1>1, <1>2, <1>3, <1>4, <1>5 DEF LifeCycle, MPIStarting, Starting, Stopping, Finalizing
<1>8. Modes'
  BY <1>1, <1>2, <1>3, <1>5, <1>6 DEF Modes, LifeCycle, Starting, EnableNonBlocking
<1>9. PollingTasks'
  BY <1>1, <1>2, <1>3, <1>4, <1>5, <1>6, InstancesKept DEF PollingTasks, Starting, Stopping, LifeCycle
<1>10. \A k \in 0..MaxPolls : Used(k) => Used(k)'
  BY <1>1, <1>2, <1>3, <1>4, <1>5 DEF Used
<1>11. "initialized" \in Elsewhere \cup MPIStarting \cup {"initialize"} \cup Starting \cup Finalizing
  BY DEF Elsewhere, MPIStarting, Starting, Finalizing
<1>12. MainType'
  BY <1>1, <1>3, <1>4, <1>5 DEF EnvironmentType, MainType
<1> HIDE DEF EnvironmentInv
<1> QED
  BY <1>1, <1>3, <1>4, <1>5, <1>7, <1>8, <1>9, <1>10, <1>11, <1>12, MainMoves

(***************************************************************************)
(* The modes are disabled when the polling tasks are gone.                 *)
(***************************************************************************)
LEMMA DisableBlockingStep ==
  ASSUME EnvironmentInv, SetMode("blockingMode", FALSE, "disableBlocking", "disableNonBlocking")
  PROVE  EnvironmentInv'
<1> USE EnvironmentAssumption DEF EnvironmentInv
<1>1. pc[Main] = "disableBlocking" /\ pc' = [pc EXCEPT ![Main] = "disableNonBlocking"]
  BY DEF SetMode, pollVars, userVars, OnlyMain, Goto, At
<1>2. pc'[Main] = "disableNonBlocking"
  BY <1>1 DEF EnvironmentType
<1>3. /\ env' = [env EXCEPT !["blockingMode"] = FALSE]
      /\ UNCHANGED <<mpi, mutex, entry, required, provided>>
  BY DEF SetMode, pollVars, userVars, OnlyMain, Goto, At
<1>4. UNCHANGED <<polling, instance, ppc, value, aborted>>
  BY DEF SetMode, pollVars, userVars, OnlyMain, Goto, At
<1>5. /\ env' \in [preinitialized : BOOLEAN, initialized : BOOLEAN, autoInitialize : BOOLEAN,
                nativeThreadLevel : NativeLevel, blockingMode : BOOLEAN, nonBlockingMode : BOOLEAN]
      /\ env'.preinitialized = env.preinitialized /\ env'.initialized = env.initialized
      /\ env'.autoInitialize = env.autoInitialize /\ env'.nativeThreadLevel = env.nativeThreadLevel
      /\ env'.nonBlockingMode = env.nonBlockingMode
      /\ env'.blockingMode = FALSE
  BY <1>3 DEF EnvironmentType
<1>6. /\ EnableBlocking' = EnableBlocking /\ EnableNonBlocking' = EnableNonBlocking
       /\ NeedsPolling' = NeedsPolling /\ Multithreaded' = Multithreaded
  BY <1>3, <1>5 DEF NeedsPolling, EnableBlocking, EnableNonBlocking, Multithreaded
<1>7. LifeCycle'
  BY <1>1, <1>2, <1>3, <1>4, <1>5 DEF LifeCycle, MPIStarting, Starting, Stopping, Finalizing
<1>8. Modes'
  BY <1>1, <1>2, <1>3, <1>5, <1>6 DEF Modes, LifeCycle, Stopping
<1>9. PollingTasks'
  BY <1>1, <1>2, <1>3, <1>4, <1>5, <1>6, InstancesKept DEF PollingTasks, Starting, Stopping, LifeCycle
<1>10. \A k \in 0..MaxPolls : Used(k) => Used(k)'
  BY <1>1, <1>2, <1>3, <1>4, <1>5 DEF Used
<1>11. "disableNonBlocking" \in Elsewhere \cup MPIStarting \cup {"initialize"} \cup Starting \cup Finalizing
  BY DEF Elsewhere, MPIStarting, Starting, Finalizing
<1>12. MainType'
  BY <1>1, <1>3, <1>4, <1>5 DEF EnvironmentType, MainType
<1> HIDE DEF EnvironmentInv
<1> QED
  BY <1>1, <1>3, <1>4, <1>5, <1>7, <1>8, <1>9, <1>10, <1>11, <1>12, MainMoves

(***************************************************************************)
(* The non-blocking mode last.                                             *)
(***************************************************************************)
LEMMA DisableNonBlockingStep ==
  ASSUME EnvironmentInv, SetMode("nonBlockingMode", FALSE, "disableNonBlocking", "finalized")
  PROVE  EnvironmentInv'
<1> USE EnvironmentAssumption DEF EnvironmentInv
<1>1. pc[Main] = "disableNonBlocking" /\ pc' = [pc EXCEPT ![Main] = "finalized"]
  BY DEF SetMode, pollVars, userVars, OnlyMain, Goto, At
<1>2. pc'[Main] = "finalized"
  BY <1>1 DEF EnvironmentType
<1>3. /\ env' = [env EXCEPT !["nonBlockingMode"] = FALSE]
      /\ UNCHANGED <<mpi, mutex, entry, required, provided>>
  BY DEF SetMode, pollVars, userVars, OnlyMain, Goto, At
<1>4. UNCHANGED <<polling, instance, ppc, value, aborted>>
  BY DEF SetMode, pollVars, userVars, OnlyMain, Goto, At
<1>5. /\ env' \in [preinitialized : BOOLEAN, initialized : BOOLEAN, autoInitialize : BOOLEAN,
                nativeThreadLevel : NativeLevel, blockingMode : BOOLEAN, nonBlockingMode : BOOLEAN]
      /\ env'.preinitialized = env.preinitialized /\ env'.initialized = env.initialized
      /\ env'.autoInitialize = env.autoInitialize /\ env'.nativeThreadLevel = env.nativeThreadLevel
      /\ env'.blockingMode = env.blockingMode
      /\ env'.nonBlockingMode = FALSE
  BY <1>3 DEF EnvironmentType
<1>6. /\ EnableBlocking' = EnableBlocking /\ EnableNonBlocking' = EnableNonBlocking
       /\ NeedsPolling' = NeedsPolling /\ Multithreaded' = Multithreaded
  BY <1>3, <1>5 DEF NeedsPolling, EnableBlocking, EnableNonBlocking, Multithreaded
<1>7. LifeCycle'
  BY <1>1, <1>2, <1>3, <1>4, <1>5 DEF LifeCycle, MPIStarting, Starting, Stopping, Finalizing
<1>8. Modes'
  BY <1>1, <1>2, <1>3, <1>5, <1>6 DEF Modes, LifeCycle, Stopping
<1>9. PollingTasks'
  BY <1>1, <1>2, <1>3, <1>4, <1>5, <1>6, InstancesKept DEF PollingTasks, Starting, Stopping, LifeCycle
<1>10. \A k \in 0..MaxPolls : Used(k) => Used(k)'
  BY <1>1, <1>2, <1>3, <1>4, <1>5 DEF Used
<1>11. "finalized" \in Elsewhere \cup MPIStarting \cup {"initialize"} \cup Starting \cup Finalizing
  BY DEF Elsewhere, MPIStarting, Starting, Finalizing
<1>12. MainType'
  BY <1>1, <1>3, <1>4, <1>5 DEF EnvironmentType, MainType
<1> HIDE DEF EnvironmentInv
<1> QED
  BY <1>1, <1>3, <1>4, <1>5, <1>7, <1>8, <1>9, <1>10, <1>11, <1>12, MainMoves

(***************************************************************************)
(* initialize returns with the library initialised.                        *)
(***************************************************************************)
LEMMA InitializedStep ==
  ASSUME EnvironmentInv, Return(TRUE, "initialized"),
         provided' = IF EnableBlocking THEN "task" ELSE env.nativeThreadLevel
  PROVE  EnvironmentInv'
<1> USE EnvironmentAssumption DEF EnvironmentInv
<1>1. pc[Main] = "initialized" /\ pc' = [pc EXCEPT ![Main] = "user"]
  BY DEF Return, pollVars, userVars, OnlyMain, Goto, At
<1>2. pc'[Main] = "user"
  BY <1>1 DEF EnvironmentType
<1>3. /\ env' = [env EXCEPT !.initialized = TRUE] /\ mutex' = NoOne
      /\ UNCHANGED <<mpi, entry, required>>
      /\ provided' = IF EnableBlocking THEN "task" ELSE env.nativeThreadLevel
  BY DEF Return, pollVars, userVars, OnlyMain, Goto, At
<1>4. UNCHANGED <<polling, instance, ppc, value, aborted>>
  BY DEF Return, pollVars, userVars, OnlyMain, Goto, At
<1>5. /\ env' \in [preinitialized : BOOLEAN, initialized : BOOLEAN, autoInitialize : BOOLEAN,
                nativeThreadLevel : NativeLevel, blockingMode : BOOLEAN, nonBlockingMode : BOOLEAN]
      /\ env'.preinitialized = env.preinitialized /\ env'.initialized = TRUE
      /\ env'.autoInitialize = env.autoInitialize /\ env'.nativeThreadLevel = env.nativeThreadLevel
      /\ env'.blockingMode = env.blockingMode /\ env'.nonBlockingMode = env.nonBlockingMode
      /\ provided' \in Level
  BY <1>3 DEF EnvironmentType, Level
<1>6. LifeCycle'
  BY <1>1, <1>2, <1>3, <1>4, <1>5 DEF LifeCycle, MPIStarting, Starting, Stopping, Finalizing
<1>7. Modes'
  <2>1. env.nativeThreadLevel # "task"
    BY DEF EnvironmentType, NativeLevel
  <2>2. env.blockingMode = EnableBlocking
    BY <1>1 DEF Modes
  <2>3. provided' = "task" <=> env'.blockingMode
    BY <1>3, <1>5, <2>1, <2>2 DEF EnvironmentType
  <2> QED
    BY <1>1, <1>2, <1>5, <2>3 DEF Modes, Multithreaded
<1>8. PollingTasks'
  <2>1. PollsToStop' = NeedsPolling
    BY <1>1, <1>5 DEF PollsToStop, NeedsPolling, Modes, EnvironmentType
  <2> QED
    BY <1>1, <1>2, <1>4, <1>5, <2>1, InstancesKept DEF PollingTasks, Starting, Stopping
<1>9. \A k \in 0..MaxPolls : Used(k) => Used(k)'
  BY <1>1, <1>2, <1>3, <1>4, <1>5 DEF Used
<1>10. "user" \in Elsewhere \cup MPIStarting \cup {"initialize"} \cup Starting \cup Finalizing
  BY DEF Elsewhere, MPIStarting, Starting, Finalizing
<1>11. MainType'
  BY <1>1, <1>3, <1>4, <1>5 DEF EnvironmentType, MainType
<1> HIDE DEF EnvironmentInv
<1> QED
  BY <1>1, <1>3, <1>4, <1>5, <1>6, <1>7, <1>8, <1>9, <1>10, <1>11, MainMoves

(***************************************************************************)
(* finalize returns with the library not initialised.                      *)
(***************************************************************************)
LEMMA FinalizedStep ==
  ASSUME EnvironmentInv, Return(FALSE, "finalized"), UNCHANGED provided
  PROVE  EnvironmentInv'
<1> USE EnvironmentAssumption DEF EnvironmentInv
<1>1. pc[Main] = "finalized" /\ pc' = [pc EXCEPT ![Main] = "user"]
  BY DEF Return, pollVars, userVars, OnlyMain, Goto, At
<1>2. pc'[Main] = "user"
  BY <1>1 DEF EnvironmentType
<1>3. /\ env' = [env EXCEPT !.initialized = FALSE] /\ mutex' = NoOne
      /\ UNCHANGED <<mpi, entry, required>>
      /\ provided' = provided
  BY DEF Return, pollVars, userVars, OnlyMain, Goto, At
<1>4. UNCHANGED <<polling, instance, ppc, value, aborted>>
  BY DEF Return, pollVars, userVars, OnlyMain, Goto, At
<1>5. /\ env' \in [preinitialized : BOOLEAN, initialized : BOOLEAN, autoInitialize : BOOLEAN,
                nativeThreadLevel : NativeLevel, blockingMode : BOOLEAN, nonBlockingMode : BOOLEAN]
      /\ env'.preinitialized = env.preinitialized /\ env'.initialized = FALSE
      /\ env'.autoInitialize = env.autoInitialize /\ env'.nativeThreadLevel = env.nativeThreadLevel
      /\ env'.blockingMode = env.blockingMode /\ env'.nonBlockingMode = env.nonBlockingMode
      /\ provided' \in Level
  BY <1>3 DEF EnvironmentType
<1>6. LifeCycle'
  BY <1>1, <1>2, <1>3, <1>4, <1>5 DEF LifeCycle, MPIStarting, Starting, Stopping, Finalizing
<1>7. Modes'
  BY <1>1, <1>2, <1>3, <1>5 DEF Modes, Multithreaded
<1>8. PollingTasks'
  BY <1>1, <1>2, <1>4, <1>5, InstancesKept DEF PollingTasks, Starting, Stopping
<1>9. \A k \in 0..MaxPolls : Used(k) => Used(k)'
  BY <1>1, <1>2, <1>3, <1>4, <1>5 DEF Used
<1>10. "user" \in Elsewhere \cup MPIStarting \cup {"initialize"} \cup Starting \cup Finalizing
  BY DEF Elsewhere, MPIStarting, Starting, Finalizing
<1>11. MainType'
  BY <1>1, <1>3, <1>4, <1>5 DEF EnvironmentType, MainType
<1> HIDE DEF EnvironmentInv
<1> QED
  BY <1>1, <1>3, <1>4, <1>5, <1>6, <1>7, <1>8, <1>9, <1>10, <1>11, MainMoves

(***************************************************************************)
(* MPI_Finalize finalises the native library before the library.           *)
(***************************************************************************)
LEMMA MPI_FinalizeStep ==
  ASSUME EnvironmentInv, MPI_Finalize, ~aborted
  PROVE  EnvironmentInv'
<1> USE EnvironmentAssumption DEF EnvironmentInv
<1>1. pc[Main] = "user" /\ pc' = [pc EXCEPT ![Main] = "finalize"]
  BY DEF MPI_Finalize, pollVars, userVars, OnlyMain, Goto, At
<1>2. pc'[Main] = "finalize"
  BY <1>1 DEF EnvironmentType
<1>3. /\ mpi = "initialized" /\ mpi' = "finalized" /\ entry' = "MPI_Finalize"
      /\ UNCHANGED <<env, mutex, required, provided>>
  BY DEF MPI_Finalize, pollVars, userVars, OnlyMain, Goto, At
<1>4. UNCHANGED <<polling, instance, ppc, value, aborted>>
  BY DEF MPI_Finalize, pollVars, userVars, OnlyMain, Goto, At
<1>5. mpi' \in {"none", "initialized", "finalized"}
  BY <1>3 DEF EnvironmentType
<1>6. LifeCycle'
  BY <1>1, <1>2, <1>3, <1>4 DEF LifeCycle, MPIStarting, Starting, Stopping, Finalizing
<1>7. Modes'
  BY <1>1, <1>2, <1>3 DEF Modes, Multithreaded, Stopping
<1>8. PollingTasks'
  <2>1. PollsToStop' = PollsToStop
    BY <1>3 DEF PollsToStop
  <2> QED
    BY <1>1, <1>2, <1>3, <1>4, <2>1, InstancesKept DEF PollingTasks, Starting, Stopping
<1>9. \A k \in 0..MaxPolls : Used(k) => Used(k)'
  BY <1>1, <1>2, <1>3, <1>4 DEF Used
<1>10. "finalize" \in Elsewhere \cup MPIStarting \cup {"initialize"} \cup Starting \cup Finalizing
  BY DEF Elsewhere, MPIStarting, Starting, Finalizing
<1>11. MainType'
  BY <1>1, <1>3, <1>4, <1>5 DEF EnvironmentType, MainType
<1> HIDE DEF EnvironmentInv
<1> QED
  BY <1>1, <1>3, <1>4, <1>5, <1>6, <1>7, <1>8, <1>9, <1>10, <1>11, MainMoves

(***************************************************************************)
(* TAMPI_Finalize calls finalize before MPI is finalised.                  *)
(***************************************************************************)
LEMMA TAMPI_FinalizeStep ==
  ASSUME EnvironmentInv, TAMPI_Finalize
  PROVE  EnvironmentInv'
<1> USE EnvironmentAssumption DEF EnvironmentInv
<1>1. pc[Main] = "user" /\ pc' = [pc EXCEPT ![Main] = "finalize"]
  BY DEF TAMPI_Finalize, pollVars, userVars, OnlyMain, Goto, At
<1>2. pc'[Main] = "finalize"
  BY <1>1 DEF EnvironmentType
<1>3. /\ mpi # "finalized" /\ entry' = "TAMPI_Finalize"
      /\ UNCHANGED <<mpi, env, mutex, required, provided>>
  BY DEF TAMPI_Finalize, pollVars, userVars, OnlyMain, Goto, At
<1>4. UNCHANGED <<polling, instance, ppc, value, aborted>>
  BY DEF TAMPI_Finalize, pollVars, userVars, OnlyMain, Goto, At
<1>5. mpi' \in {"none", "initialized", "finalized"}
  BY <1>3 DEF EnvironmentType
<1>6. LifeCycle'
  BY <1>1, <1>2, <1>3, <1>4 DEF LifeCycle, MPIStarting, Starting, Stopping, Finalizing
<1>7. Modes'
  BY <1>1, <1>2, <1>3 DEF Modes, Multithreaded, Stopping
<1>8. PollingTasks'
  <2>1. PollsToStop' = PollsToStop
    BY <1>3 DEF PollsToStop
  <2> QED
    BY <1>1, <1>2, <1>3, <1>4, <2>1, InstancesKept DEF PollingTasks, Starting, Stopping
<1>9. \A k \in 0..MaxPolls : Used(k) => Used(k)'
  BY <1>1, <1>2, <1>3, <1>4 DEF Used
<1>10. "finalize" \in Elsewhere \cup MPIStarting \cup {"initialize"} \cup Starting \cup Finalizing
  BY DEF Elsewhere, MPIStarting, Starting, Finalizing
<1>11. MainType'
  BY <1>1, <1>3, <1>4, <1>5 DEF EnvironmentType, MainType
<1> HIDE DEF EnvironmentInv
<1> QED
  BY <1>1, <1>3, <1>4, <1>5, <1>6, <1>7, <1>8, <1>9, <1>10, <1>11, MainMoves

(***************************************************************************)
(* finalize returns if the library is not initialised, is refused if it    *)
(* finalises explicitly what was initialised automatically, and otherwise  *)
(* takes the mutex.                                                        *)
(***************************************************************************)
LEMMA FinalizeStart ==
  ASSUME EnvironmentInv, Finalize
  PROVE  EnvironmentInv'
<1> USE EnvironmentAssumption DEF EnvironmentInv
<1>1. pc[Main] = "finalize" /\ mutex = NoOne
  BY DEF Finalize, Locked, At
<1>2. entry = "TAMPI_Finalize" \/ (Automatic /\ (env.autoInitialize => env.initialized))
  BY <1>1 DEF LifeCycle, Automatic
<1>3. CASE Automatic /\ ~env.autoInitialize /\ ~env.initialized
  <2>1. /\ pc' = [pc EXCEPT ![Main] = "user"]
        /\ UNCHANGED <<mpi, env, mutex, entry, required, provided, polling, instance, ppc, value, aborted>>
    BY <1>3 DEF Finalize, Goto, mainVars, OnlyMain, pollVars, userVars
  <2>2. pc'[Main] = "user"
    BY <2>1 DEF EnvironmentType
  <2>3. LifeCycle'
    BY <1>1, <1>3, <2>1, <2>2 DEF LifeCycle, MPIStarting, Starting, Stopping, Finalizing
  <2>4. Modes'
    BY <1>1, <1>3, <2>1, <2>2 DEF Modes, Multithreaded
  <2>5. PollingTasks'
    BY <1>1, <1>3, <2>1, <2>2, InstancesKept DEF PollingTasks, Starting, Stopping
  <2>6. \A k \in 0..MaxPolls : Used(k) => Used(k)'
    BY <2>1, <2>2 DEF Used
  <2>7. "user" \in Elsewhere \cup MPIStarting \cup {"initialize"} \cup Starting \cup Finalizing
    BY DEF Elsewhere
  <2>8. MainType'
    BY <2>1 DEF EnvironmentType, MainType
  <2> HIDE DEF EnvironmentInv
  <2> QED
    BY <2>1, <2>3, <2>4, <2>5, <2>6, <2>7, <2>8, MainMoves
<1>4. CASE /\ ~(Automatic /\ ~env.autoInitialize /\ ~env.initialized)
           /\ (~Automatic /\ env.autoInitialize) \/ ~env.initialized
  <2>1. Fail
    BY <1>4 DEF Finalize
  <2>2. entry = "TAMPI_Finalize"
    BY <1>2, <1>4 DEF EnvironmentType
  <2> QED
    BY <2>1, <2>2, FailStep
<1>5. CASE env.initialized /\ ~(~Automatic /\ env.autoInitialize)
  <2> DEFINE there == IF PollsToStop THEN "unregister" ELSE "disableBlocking"
  <2>1. /\ pc' = [pc EXCEPT ![Main] = there] /\ mutex' = Main
        /\ UNCHANGED <<mpi, env, entry, required, provided, polling, instance, ppc, value, aborted>>
    BY <1>5 DEF Finalize, Goto, OnlyMain, pollVars, userVars
  <2>2. pc'[Main] = there /\ there \in {"unregister", "disableBlocking"}
    BY <2>1 DEF EnvironmentType
  <2>3. env.autoInitialize => mpi = "finalized"
    BY <1>1, <1>5 DEF LifeCycle, Automatic
  <2>4. LifeCycle'
    BY <1>1, <1>5, <2>1, <2>2, <2>3 DEF LifeCycle, MPIStarting, Starting, Stopping, Finalizing
  <2>5. Modes'
    BY <1>1, <1>5, <2>1, <2>2 DEF Modes, Multithreaded, Stopping
  <2>6. PollsToStop' = PollsToStop
    BY <2>1 DEF PollsToStop
  <2>7. PollingTasks'
    BY <1>1, <1>5, <2>1, <2>2, <2>6, InstancesKept DEF PollingTasks, Starting, Stopping
  <2>8. \A k \in 0..MaxPolls : Used(k) => Used(k)'
    BY <2>1, <2>2 DEF Used
  <2>9. there \in Elsewhere \cup MPIStarting \cup {"initialize"} \cup Starting \cup Finalizing
    BY DEF Finalizing
  <2>10. MainType'
    BY <2>1 DEF EnvironmentType, MainType
  <2> HIDE DEF EnvironmentInv, there
  <2> QED
    BY <2>1, <2>4, <2>5, <2>7, <2>8, <2>9, <2>10, MainMoves
<1> QED
  BY <1>3, <1>4, <1>5

(***************************************************************************)
(* The instances are used in their order.                                  *)
(***************************************************************************)
LEMMA NextInstanceIs ==
  ASSUME NEW k \in 0..MaxPolls, k + 1 <= MaxPolls,
         \A i \in Polls : instance[i].state = "unused" <=> i > k
  PROVE  k + 1 \in Polls /\ NextInstance = k + 1
<1> USE EnvironmentAssumption
<1> DEFINE First(i) == instance[i].state = "unused" /\ \A j \in 1..(i - 1) : instance[j].state # "unused"
<1>1. k \in Nat /\ k + 1 \in Polls
  BY DEF Polls
<1>2. First(k + 1)
  BY <1>1 DEF Polls
<1>3. \A i \in Polls : First(i) => i = k + 1
  <2>1. SUFFICES ASSUME NEW i \in Polls, First(i) PROVE i = k + 1
    OBVIOUS
  <2>2. i \in Nat /\ i > k
    BY <2>1 DEF Polls
  <2>3. CASE i > k + 1
    BY <1>1, <2>1, <2>2, <2>3 DEF Polls
  <2> QED
    BY <1>1, <2>2, <2>3
<1>4. NextInstance = CHOOSE i \in Polls : First(i)
  BY DEF NextInstance
<1> HIDE DEF First
<1> QED
  BY <1>1, <1>2, <1>3, <1>4

(***************************************************************************)
(* What is left to show of a step of Main with a polling instance.         *)
(***************************************************************************)
LEMMA PollingMoves ==
  ASSUME EnvironmentInv,
         NEW there \in Elsewhere \cup MPIStarting \cup {"initialize"} \cup Starting \cup Finalizing,
         pc' = [pc EXCEPT ![Main] = there],
         UNCHANGED <<mpi, env, entry, required, provided, value, aborted>>,
         polling' \in [instance : 0..MaxPolls, completion : 0..MaxPolls],
         instance' \in [Polls -> [state : {"unused", "registered", "deleted"},
                                  mustFinish : BOOLEAN, finished : BOOLEAN]],
         ppc' \in [Polls -> {"none", "loop", "function", "ended", "completed"}],
         LifeCycle', Modes', PollingTasks',
         \A i \in Polls : InstanceAndTask(i)',
         \E k \in 0..MaxPolls : Used(k)'
  PROVE  EnvironmentInv'
<1>1. EnvironmentType'
  <2>1. pc' \in [Users -> Elsewhere \cup MPIStarting \cup {"initialize"} \cup Starting \cup Finalizing]
    BY Zenon DEF EnvironmentInv, EnvironmentType
  <2>2. EnvironmentType
    BY Zenon DEF EnvironmentInv
  <2>3. /\ mpi' = mpi /\ env' = env /\ entry' = entry /\ required' = required
        /\ provided' = provided /\ value' = value /\ aborted' = aborted
    BY Zenon
  <2> QED
    BY <2>1, <2>2, <2>3, ZenonT(30) DEF EnvironmentType
<1> QED
  BY <1>1 DEF EnvironmentInv

(***************************************************************************)
(* initialize registers the polling task.                                  *)
(***************************************************************************)
LEMMA RegisterStep ==
  ASSUME EnvironmentInv,
         RegisterPolling("instance", "register", IF CompletionEnabled THEN "registerCompletion" ELSE "enableBlocking")
  PROVE  EnvironmentInv'
<1> USE EnvironmentAssumption DEF EnvironmentInv
<1> DEFINE there == IF CompletionEnabled THEN "registerCompletion" ELSE "enableBlocking"
<1>1. PICK k \in 0..MaxPolls : Used(k)
  OBVIOUS
<1>2. pc[Main] = "register" /\ pc' = [pc EXCEPT ![Main] = there]
  BY DEF RegisterPolling, At, Goto
<1>3. pc'[Main] = there /\ there \in {"registerCompletion", "enableBlocking"}
  BY <1>2 DEF EnvironmentType
<1>4. k \in Nat /\ k + 2 <= MaxPolls /\ (\A i \in Polls : instance[i].state = "unused" <=> i > k)
  BY <1>1, <1>2 DEF Used
<1>5. k + 1 \in Polls /\ NextInstance = k + 1 /\ k + 1 \in 0..MaxPolls
  <2>1. k + 1 <= MaxPolls
    BY <1>4
  <2> QED
    BY <1>4, <2>1, NextInstanceIs
<1>6. /\ instance' = [instance EXCEPT ![k + 1].state = "registered"]
      /\ ppc' = [ppc EXCEPT ![k + 1] = "loop"]
      /\ polling' = [polling EXCEPT !["instance"] = k + 1]
      /\ UNCHANGED <<mpi, env, mutex, entry, required, provided, value, aborted>>
  BY <1>5 DEF RegisterPolling, mainVars, userVars
<1>7. /\ polling' \in [instance : 0..MaxPolls, completion : 0..MaxPolls]
      /\ polling'.instance = k + 1 /\ polling'.completion = polling.completion
  BY <1>5, <1>6 DEF EnvironmentType
<1>8. /\ instance' \in [Polls -> [state : {"unused", "registered", "deleted"},
                                 mustFinish : BOOLEAN, finished : BOOLEAN]]
      /\ instance'[k + 1].state = "registered" /\ instance'[k + 1].mustFinish = instance[k + 1].mustFinish
      /\ instance'[k + 1].finished = instance[k + 1].finished
      /\ \A i \in Polls \ {k + 1} : instance'[i] = instance[i]
  BY <1>5, <1>6 DEF EnvironmentType
<1>9. /\ ppc' \in [Polls -> {"none", "loop", "function", "ended", "completed"}]
      /\ ppc'[k + 1] = "loop" /\ \A i \in Polls \ {k + 1} : ppc'[i] = ppc[i]
  BY <1>5, <1>6 DEF EnvironmentType
<1>10. instance[k + 1].state = "unused"
  BY <1>4, <1>5 DEF Polls
<1>11. ~instance[k + 1].mustFinish /\ ~instance[k + 1].finished
  BY <1>5, <1>10 DEF InstanceAndTask
<1>12. \A i \in Polls : InstanceAndTask(i)'
  BY <1>5, <1>8, <1>9, <1>11 DEF InstanceAndTask
<1>13. Registered' = Registered \cup {k + 1} /\ k + 1 \notin Registered
  BY <1>5, <1>8, <1>10 DEF Registered
<1>14. NeedsPolling' = NeedsPolling
  BY <1>6 DEF NeedsPolling, EnableBlocking, EnableNonBlocking, Multithreaded
<1>15. LifeCycle'
  BY <1>2, <1>3, <1>6 DEF LifeCycle, MPIStarting, Starting, Stopping, Finalizing
<1>16. Modes'
  BY <1>2, <1>3, <1>6, <1>15 DEF Modes, Multithreaded, LifeCycle, Starting
<1>17. PollingTasks'
  <2>1. Registered = {} /\ NeedsPolling /\ ~env.initialized
    BY <1>2 DEF PollingTasks, LifeCycle, Starting
  <2>2. Serving({polling.instance})'
    BY <1>7, <1>8, <1>11, <1>13, <2>1 DEF Serving
  <2>3. ~CompletionEnabled => ServingBoth'
    BY <2>2 DEF ServingBoth, Pointers
  <2>4. CompletionEnabled <=> there = "registerCompletion"
    OBVIOUS
  <2> HIDE DEF there
  <2> QED
    BY <1>3, <1>6, <1>14, <2>1, <2>2, <2>3, <2>4 DEF PollingTasks, Starting, Stopping
<1>18. Used(k + 1)'
  <2>1. \A i \in Polls : instance'[i].state = "unused" <=> i > k + 1
    BY <1>4, <1>5, <1>8 DEF Polls
  <2>2. env.preinitialized
    BY <1>2 DEF LifeCycle, Starting
  <2> QED
    BY <1>3, <1>4, <1>6, <2>1, <2>2 DEF Used
<1>19. there \in Elsewhere \cup MPIStarting \cup {"initialize"} \cup Starting \cup Finalizing
  BY DEF Starting
<1> HIDE DEF there
<1> QED
  BY <1>2, <1>5, <1>6, <1>7, <1>8, <1>9, <1>12, <1>15, <1>16, <1>17, <1>18, <1>19, PollingMoves

(***************************************************************************)
(* And the completion task, if there is one.                               *)
(***************************************************************************)
LEMMA RegisterCompletionStep ==
  ASSUME EnvironmentInv,
         RegisterPolling("completion", "registerCompletion", "enableBlocking")
  PROVE  EnvironmentInv'
<1> USE EnvironmentAssumption DEF EnvironmentInv
<1> DEFINE there == "enableBlocking"
<1>1. PICK k \in 0..MaxPolls : Used(k)
  OBVIOUS
<1>2. pc[Main] = "registerCompletion" /\ pc' = [pc EXCEPT ![Main] = there]
  BY DEF RegisterPolling, At, Goto
<1>3. pc'[Main] = there /\ there \in {"enableBlocking"}
  BY <1>2 DEF EnvironmentType
<1>4. k \in Nat /\ k + 1 <= MaxPolls /\ (\A i \in Polls : instance[i].state = "unused" <=> i > k)
  BY <1>1, <1>2 DEF Used
<1>5. k + 1 \in Polls /\ NextInstance = k + 1 /\ k + 1 \in 0..MaxPolls
  <2>1. k + 1 <= MaxPolls
    BY <1>4
  <2> QED
    BY <1>4, <2>1, NextInstanceIs
<1>6. /\ instance' = [instance EXCEPT ![k + 1].state = "registered"]
      /\ ppc' = [ppc EXCEPT ![k + 1] = "loop"]
      /\ polling' = [polling EXCEPT !["completion"] = k + 1]
      /\ UNCHANGED <<mpi, env, mutex, entry, required, provided, value, aborted>>
  BY <1>5 DEF RegisterPolling, mainVars, userVars
<1>7. /\ polling' \in [instance : 0..MaxPolls, completion : 0..MaxPolls]
      /\ polling'.completion = k + 1 /\ polling'.instance = polling.instance
  BY <1>5, <1>6 DEF EnvironmentType
<1>8. /\ instance' \in [Polls -> [state : {"unused", "registered", "deleted"},
                                 mustFinish : BOOLEAN, finished : BOOLEAN]]
      /\ instance'[k + 1].state = "registered" /\ instance'[k + 1].mustFinish = instance[k + 1].mustFinish
      /\ instance'[k + 1].finished = instance[k + 1].finished
      /\ \A i \in Polls \ {k + 1} : instance'[i] = instance[i]
  BY <1>5, <1>6 DEF EnvironmentType
<1>9. /\ ppc' \in [Polls -> {"none", "loop", "function", "ended", "completed"}]
      /\ ppc'[k + 1] = "loop" /\ \A i \in Polls \ {k + 1} : ppc'[i] = ppc[i]
  BY <1>5, <1>6 DEF EnvironmentType
<1>10. instance[k + 1].state = "unused"
  BY <1>4, <1>5 DEF Polls
<1>11. ~instance[k + 1].mustFinish /\ ~instance[k + 1].finished
  BY <1>5, <1>10 DEF InstanceAndTask
<1>12. \A i \in Polls : InstanceAndTask(i)'
  BY <1>5, <1>8, <1>9, <1>11 DEF InstanceAndTask
<1>13. Registered' = Registered \cup {k + 1} /\ k + 1 \notin Registered
  BY <1>5, <1>8, <1>10 DEF Registered
<1>14. NeedsPolling' = NeedsPolling
  BY <1>6 DEF NeedsPolling, EnableBlocking, EnableNonBlocking, Multithreaded
<1>15. LifeCycle'
  BY <1>2, <1>3, <1>6 DEF LifeCycle, MPIStarting, Starting, Stopping, Finalizing
<1>16. Modes'
  BY <1>2, <1>3, <1>6, <1>15 DEF Modes, Multithreaded, LifeCycle, Starting
<1>17. PollingTasks'
  <2>1. CompletionEnabled /\ Serving({polling.instance}) /\ NeedsPolling /\ ~env.initialized
    BY <1>2 DEF PollingTasks, LifeCycle, Starting
  <2>2. polling.instance \in Polls /\ polling.instance # k + 1 /\ ~instance[polling.instance].mustFinish
    BY <1>13, <2>1 DEF Serving, Registered
  <2>3. Pointers' = {polling.instance, k + 1}
    BY <1>7, <2>1 DEF Pointers
  <2>4. Serving(Pointers)'
    BY <1>8, <1>11, <1>13, <2>1, <2>2, <2>3 DEF Serving
  <2>5. ServingBoth'
    BY <1>7, <2>2, <2>4 DEF ServingBoth
  <2> QED
    BY <1>3, <1>6, <1>14, <2>1, <2>5 DEF PollingTasks, Starting, Stopping
<1>18. Used(k + 1)'
  <2>1. \A i \in Polls : instance'[i].state = "unused" <=> i > k + 1
    BY <1>4, <1>5, <1>8 DEF Polls
  <2>2. env.preinitialized
    BY <1>2 DEF LifeCycle, Starting
  <2> QED
    BY <1>3, <1>4, <1>6, <2>1, <2>2 DEF Used
<1>19. there \in Elsewhere \cup MPIStarting \cup {"initialize"} \cup Starting \cup Finalizing
  BY DEF Starting
<1> HIDE DEF there
<1> QED
  BY <1>2, <1>5, <1>6, <1>7, <1>8, <1>9, <1>12, <1>15, <1>16, <1>17, <1>18, <1>19, PollingMoves

(***************************************************************************)
(* Setting mustFinish of one instance changes nothing else of any.         *)
(***************************************************************************)
LEMMA AskedInstance ==
  ASSUME NEW i \in Polls,
         instance \in [Polls -> [state : {"unused", "registered", "deleted"},
                                mustFinish : BOOLEAN, finished : BOOLEAN]],
         instance' = [instance EXCEPT ![i].mustFinish = TRUE]
  PROVE  /\ instance' \in [Polls -> [state : {"unused", "registered", "deleted"},
                                    mustFinish : BOOLEAN, finished : BOOLEAN]]
         /\ instance'[i].mustFinish = TRUE
         /\ instance'[i].state = instance[i].state /\ instance'[i].finished = instance[i].finished
         /\ \A j \in Polls \ {i} : instance'[j] = instance[j]
OBVIOUS

(***************************************************************************)
(* finalize asks the polling task to finish.                               *)
(***************************************************************************)
LEMMA UnregisterStep ==
  ASSUME EnvironmentInv, AskToFinish(polling.instance, "unregister", "await")
  PROVE  EnvironmentInv'
<1> USE EnvironmentAssumption DEF EnvironmentInv
<1> DEFINE i == polling.instance
<1>1. /\ pc[Main] = "unregister" /\ pc' = [pc EXCEPT ![Main] = "await"]
      /\ instance' = [instance EXCEPT ![i].mustFinish = TRUE]
      /\ UNCHANGED <<mpi, env, mutex, entry, required, provided, polling, ppc, value, aborted>>
  BY DEF AskToFinish, At, Goto, mainVars, userVars
<1>2. pc'[Main] = "await"
  BY <1>1 DEF EnvironmentType
<1>3. ServingBoth
  BY <1>1 DEF PollingTasks
<1>4. i \in Registered /\ i \in Polls /\ env.initialized
  BY <1>1, <1>3 DEF ServingBoth, Serving, Pointers, Registered, LifeCycle, Stopping
<1> HIDE DEF i
<1>5. /\ instance' \in [Polls -> [state : {"unused", "registered", "deleted"},
                                 mustFinish : BOOLEAN, finished : BOOLEAN]]
      /\ instance'[i].mustFinish = TRUE
      /\ instance'[i].state = instance[i].state /\ instance'[i].finished = instance[i].finished
      /\ \A j \in Polls \ {i} : instance'[j] = instance[j]
  <2>1. instance \in [Polls -> [state : {"unused", "registered", "deleted"},
                                mustFinish : BOOLEAN, finished : BOOLEAN]]
    BY DEF EnvironmentType
  <2> HIDE DEF EnvironmentInv
  <2> QED
    BY <1>1, <1>4, <2>1, AskedInstance
<1>6. \A j \in Polls : InstanceAndTask(j)'
  BY <1>1, <1>4, <1>5 DEF InstanceAndTask, Registered
<1>7. Registered' = Registered /\ Pointers' = Pointers
  BY <1>1, <1>5 DEF Registered, Pointers
<1>8. LifeCycle'
  BY <1>1, <1>2 DEF LifeCycle, MPIStarting, Starting, Stopping, Finalizing
<1>9. Modes'
  BY <1>1, <1>2, <1>4 DEF Modes, Multithreaded, Stopping
<1>10. PollingTasks'
  <2>1. EndingFirst'
    BY <1>1, <1>3, <1>4, <1>5, <1>7 DEF EndingFirst, ServingBoth, Serving, Pointers, Registered, i
  <2> QED
    BY <1>1, <1>2, <1>4, <2>1 DEF PollingTasks, Starting, Stopping
<1>11. \A k \in 0..MaxPolls : Used(k) => Used(k)'
  BY <1>1, <1>2, <1>5 DEF Used
<1>12. "await" \in Elsewhere \cup MPIStarting \cup {"initialize"} \cup Starting \cup Finalizing
  BY DEF Finalizing
<1> QED
  BY <1>1, <1>5, <1>6, <1>8, <1>9, <1>10, <1>11, <1>12, PollingMoves DEF EnvironmentType

(***************************************************************************)
(* And then the completion task.                                           *)
(***************************************************************************)
LEMMA UnregisterCompletionStep ==
  ASSUME EnvironmentInv, AskToFinish(polling.completion, "unregisterCompletion", "awaitCompletion")
  PROVE  EnvironmentInv'
<1> USE EnvironmentAssumption DEF EnvironmentInv
<1> DEFINE i == polling.completion
<1>1. /\ pc[Main] = "unregisterCompletion" /\ pc' = [pc EXCEPT ![Main] = "awaitCompletion"]
      /\ instance' = [instance EXCEPT ![i].mustFinish = TRUE]
      /\ UNCHANGED <<mpi, env, mutex, entry, required, provided, polling, ppc, value, aborted>>
  BY DEF AskToFinish, At, Goto, mainVars, userVars
<1>2. pc'[Main] = "awaitCompletion"
  BY <1>1 DEF EnvironmentType
<1>3. CompletionEnabled /\ Serving({polling.completion})
  BY <1>1 DEF PollingTasks
<1>4. i \in Registered /\ i \in Polls /\ env.initialized
  BY <1>1, <1>3 DEF ServingBoth, Serving, Pointers, Registered, LifeCycle, Stopping
<1> HIDE DEF i
<1>5. /\ instance' \in [Polls -> [state : {"unused", "registered", "deleted"},
                                 mustFinish : BOOLEAN, finished : BOOLEAN]]
      /\ instance'[i].mustFinish = TRUE
      /\ instance'[i].state = instance[i].state /\ instance'[i].finished = instance[i].finished
      /\ \A j \in Polls \ {i} : instance'[j] = instance[j]
  <2>1. instance \in [Polls -> [state : {"unused", "registered", "deleted"},
                                mustFinish : BOOLEAN, finished : BOOLEAN]]
    BY DEF EnvironmentType
  <2> HIDE DEF EnvironmentInv
  <2> QED
    BY <1>1, <1>4, <2>1, AskedInstance
<1>6. \A j \in Polls : InstanceAndTask(j)'
  BY <1>1, <1>4, <1>5 DEF InstanceAndTask, Registered
<1>7. Registered' = Registered /\ Pointers' = Pointers
  BY <1>1, <1>5 DEF Registered, Pointers
<1>8. LifeCycle'
  BY <1>1, <1>2 DEF LifeCycle, MPIStarting, Starting, Stopping, Finalizing
<1>9. Modes'
  BY <1>1, <1>2, <1>4 DEF Modes, Multithreaded, Stopping
<1>10. PollingTasks'
  <2>1. Registered' = {polling'.completion}
    BY <1>1, <1>3, <1>7 DEF Serving
  <2> QED
    BY <1>1, <1>2, <1>4, <2>1 DEF PollingTasks, Starting, Stopping
<1>11. \A k \in 0..MaxPolls : Used(k) => Used(k)'
  BY <1>1, <1>2, <1>5 DEF Used
<1>12. "awaitCompletion" \in Elsewhere \cup MPIStarting \cup {"initialize"} \cup Starting \cup Finalizing
  BY DEF Finalizing
<1> QED
  BY <1>1, <1>5, <1>6, <1>8, <1>9, <1>10, <1>11, <1>12, PollingMoves DEF EnvironmentType

(***************************************************************************)
(* finalize deletes the polling instance when its task has completed.      *)
(***************************************************************************)
LEMMA AwaitStep ==
  ASSUME EnvironmentInv,
         AwaitFinished(polling.instance, "await", IF CompletionEnabled THEN "unregisterCompletion" ELSE "disableBlocking")
  PROVE  EnvironmentInv'
<1> USE EnvironmentAssumption DEF EnvironmentInv
<1> DEFINE i == polling.instance
           there == IF CompletionEnabled THEN "unregisterCompletion" ELSE "disableBlocking"
<1>1. /\ pc[Main] = "await"
      /\ UNCHANGED <<mainVars, mpi, env, mutex, entry, required, provided, polling, ppc, value, aborted>>
  BY DEF AwaitFinished, At, mainVars, userVars
<1>2. CASE ~instance[i].finished
  <2>1. UNCHANGED <<instance, pc>>
    BY <1>2 DEF AwaitFinished, HasFinished
  <2> QED
    BY <1>1, <2>1, LibraryKept DEF EnvironmentType
<1>3. CASE instance[i].finished
  <2>1. /\ instance' = [instance EXCEPT ![i].state = "deleted"]
        /\ pc' = [pc EXCEPT ![Main] = there]
    BY <1>3 DEF AwaitFinished, HasFinished, Goto
  <2>2. pc'[Main] = there /\ there \in {"unregisterCompletion", "disableBlocking"}
    BY <2>1 DEF EnvironmentType
  <2>3. EndingFirst
    BY <1>1 DEF PollingTasks
  <2>4. i \in Polls /\ env.initialized
    BY <1>1, <2>3 DEF EndingFirst, Pointers, Registered, LifeCycle, Stopping
  <2> HIDE DEF i
  <2>5. /\ instance' \in [Polls -> [state : {"unused", "registered", "deleted"},
                                   mustFinish : BOOLEAN, finished : BOOLEAN]]
        /\ instance'[i].state = "deleted" /\ instance'[i].finished = instance[i].finished
        /\ \A j \in Polls \ {i} : instance'[j] = instance[j]
    BY <2>1, <2>4 DEF EnvironmentType
  <2>6. \A j \in Polls : InstanceAndTask(j)'
    BY <1>1, <1>3, <2>4, <2>5 DEF InstanceAndTask
  <2>7. Registered' = Registered \ {i}
    BY <2>4, <2>5 DEF Registered
  <2>8. LifeCycle'
    BY <1>1, <2>2 DEF LifeCycle, MPIStarting, Starting, Stopping, Finalizing
  <2>9. Modes'
    BY <1>1, <2>2, <2>4 DEF Modes, Multithreaded, Stopping
  <2>10. PollingTasks'
    <3>1. CompletionEnabled => Serving({polling.completion})'
      BY <1>1, <2>3, <2>5, <2>7 DEF EndingFirst, Serving, Pointers, Registered, i
    <3>2. ~CompletionEnabled => Registered' = {}
      BY <2>3, <2>7 DEF EndingFirst, Pointers, i
    <3>3. CompletionEnabled <=> there = "unregisterCompletion"
      OBVIOUS
    <3> HIDE DEF there
    <3> QED
      BY <1>1, <2>2, <2>4, <3>1, <3>2, <3>3 DEF PollingTasks, Starting, Stopping
  <2>11. \A k \in 0..MaxPolls : Used(k) => Used(k)'
    <3>1. instance[i].state # "unused"
      BY <1>1, <2>3 DEF EndingFirst, Pointers, Registered, i
    <3>2. \A j \in Polls : instance'[j].state = "unused" <=> instance[j].state = "unused"
      BY <2>4, <2>5, <3>1
    <3> QED
      BY <1>1, <2>2, <3>2 DEF Used
  <2>12. there \in Elsewhere \cup MPIStarting \cup {"initialize"} \cup Starting \cup Finalizing
    BY DEF Finalizing
  <2> HIDE DEF there
  <2> QED
    BY <1>1, <2>1, <2>5, <2>6, <2>8, <2>9, <2>10, <2>11, <2>12, PollingMoves DEF EnvironmentType
<1> QED
  BY <1>2, <1>3

(***************************************************************************)
(* And then the completion instance.                                       *)
(***************************************************************************)
LEMMA AwaitCompletionStep ==
  ASSUME EnvironmentInv,
         AwaitFinished(polling.completion, "awaitCompletion", "disableBlocking")
  PROVE  EnvironmentInv'
<1> USE EnvironmentAssumption DEF EnvironmentInv
<1> DEFINE i == polling.completion
           there == "disableBlocking"
<1>1. /\ pc[Main] = "awaitCompletion"
      /\ UNCHANGED <<mainVars, mpi, env, mutex, entry, required, provided, polling, ppc, value, aborted>>
  BY DEF AwaitFinished, At, mainVars, userVars
<1>2. CASE ~instance[i].finished
  <2>1. UNCHANGED <<instance, pc>>
    BY <1>2 DEF AwaitFinished, HasFinished
  <2> QED
    BY <1>1, <2>1, LibraryKept DEF EnvironmentType
<1>3. CASE instance[i].finished
  <2>1. /\ instance' = [instance EXCEPT ![i].state = "deleted"]
        /\ pc' = [pc EXCEPT ![Main] = there]
    BY <1>3 DEF AwaitFinished, HasFinished, Goto
  <2>2. pc'[Main] = there /\ there \in {"disableBlocking"}
    BY <2>1 DEF EnvironmentType
  <2>3. Registered = {polling.completion}
    BY <1>1 DEF PollingTasks
  <2>4. i \in Polls /\ env.initialized
    BY <1>1, <2>3 DEF EndingFirst, Pointers, Registered, LifeCycle, Stopping
  <2> HIDE DEF i
  <2>5. /\ instance' \in [Polls -> [state : {"unused", "registered", "deleted"},
                                   mustFinish : BOOLEAN, finished : BOOLEAN]]
        /\ instance'[i].state = "deleted" /\ instance'[i].finished = instance[i].finished
        /\ \A j \in Polls \ {i} : instance'[j] = instance[j]
    BY <2>1, <2>4 DEF EnvironmentType
  <2>6. \A j \in Polls : InstanceAndTask(j)'
    BY <1>1, <1>3, <2>4, <2>5 DEF InstanceAndTask
  <2>7. Registered' = Registered \ {i}
    BY <2>4, <2>5 DEF Registered
  <2>8. LifeCycle'
    BY <1>1, <2>2 DEF LifeCycle, MPIStarting, Starting, Stopping, Finalizing
  <2>9. Modes'
    BY <1>1, <2>2, <2>4 DEF Modes, Multithreaded, Stopping
  <2>10. PollingTasks'
    <3>1. Registered' = {}
      BY <2>3, <2>7 DEF i
    <3> QED
      BY <1>1, <2>2, <2>4, <3>1 DEF PollingTasks, Starting, Stopping
  <2>11. \A k \in 0..MaxPolls : Used(k) => Used(k)'
    <3>1. instance[i].state # "unused"
      BY <1>1, <2>3 DEF EndingFirst, Pointers, Registered, i
    <3>2. \A j \in Polls : instance'[j].state = "unused" <=> instance[j].state = "unused"
      BY <2>4, <2>5, <3>1
    <3> QED
      BY <1>1, <2>2, <3>2 DEF Used
  <2>12. there \in Elsewhere \cup MPIStarting \cup {"initialize"} \cup Starting \cup Finalizing
    BY DEF Finalizing
  <2> HIDE DEF there
  <2> QED
    BY <1>1, <2>1, <2>5, <2>6, <2>8, <2>9, <2>10, <2>11, <2>12, PollingMoves DEF EnvironmentType
<1> QED
  BY <1>2, <1>3

-----------------------------------------------------------------------------
(***************************************************************************)
(* The steps of a polling task keep the invariant.                         *)
(***************************************************************************)
LEMMA PollingTaskStep ==
  ASSUME EnvironmentInv, NEW i \in Polls, PollStep(i)
  PROVE  EnvironmentInv'
<1> USE EnvironmentAssumption DEF EnvironmentInv
<1>1. /\ UNCHANGED <<mainVars, polling, value, aborted>>
      /\ value \in [Users -> BOOLEAN] /\ aborted \in BOOLEAN
      /\ pc \in [Users -> Elsewhere \cup MPIStarting \cup {"initialize"} \cup Starting \cup Finalizing]
  BY DEF PollStep, Loop, Function, Completed, userVars, EnvironmentType
<1>2. CASE Loop(i)
  <2>1. /\ ppc[i] = "loop" /\ ppc' = [ppc EXCEPT ![i] = IF instance[i].mustFinish THEN "ended" ELSE "function"]
        /\ UNCHANGED <<instance, pc>>
    BY <1>2 DEF Loop, MustFinish
  <2>2. /\ ppc' \in [Polls -> {"none", "loop", "function", "ended", "completed"}]
        /\ ppc'[i] = IF instance[i].mustFinish THEN "ended" ELSE "function"
        /\ \A j \in Polls \ {i} : ppc'[j] = ppc[j]
    BY <2>1 DEF EnvironmentType
  <2>3. \A j \in Polls : InstanceAndTask(j)'
    BY <2>1, <2>2 DEF InstanceAndTask
  <2> QED
    BY <1>1, <2>1, <2>2, <2>3, TasksProgress DEF EnvironmentType
<1>3. CASE Function(i)
  <2>1. /\ ppc[i] = "function" /\ ppc' = [ppc EXCEPT ![i] = "loop"]
        /\ pc' = [u \in Users |-> Served(i, u)] /\ UNCHANGED instance
    BY <1>3 DEF Function
  <2>2. /\ ppc' \in [Polls -> {"none", "loop", "function", "ended", "completed"}]
        /\ ppc'[i] = "loop" /\ \A j \in Polls \ {i} : ppc'[j] = ppc[j]
    BY <2>1 DEF EnvironmentType
  <2>3. \A j \in Polls : InstanceAndTask(j)'
    BY <2>1, <2>2 DEF InstanceAndTask
  <2>4. \A u \in Users : \/ pc'[u] = pc[u]
                         \/ pc[u] \in {"delegated", "found"} /\ pc'[u] \in {"found", "user"}
    BY <2>1 DEF Served
  <2>5. /\ pc' \in [Users -> Elsewhere \cup MPIStarting \cup {"initialize"} \cup Starting \cup Finalizing]
        /\ pc'[Main] = pc[Main] \/ (pc[Main] \in Elsewhere /\ pc'[Main] \in Elsewhere)
    BY <1>1, <2>1, <2>4 DEF Elsewhere
  <2> QED
    BY <1>1, <2>1, <2>2, <2>3, <2>5, TasksProgress DEF EnvironmentType
<1>4. CASE Completed(i)
  <2>1. /\ ppc[i] = "ended" /\ ppc' = [ppc EXCEPT ![i] = "completed"]
        /\ instance' = [instance EXCEPT ![i].finished = TRUE] /\ UNCHANGED pc
    BY <1>4 DEF Completed
  <2>2. /\ ppc' \in [Polls -> {"none", "loop", "function", "ended", "completed"}]
        /\ ppc'[i] = "completed" /\ \A j \in Polls \ {i} : ppc'[j] = ppc[j]
    BY <2>1 DEF EnvironmentType
  <2>3. /\ instance' \in [Polls -> [state : {"unused", "registered", "deleted"},
                                   mustFinish : BOOLEAN, finished : BOOLEAN]]
        /\ instance'[i].state = instance[i].state /\ instance'[i].mustFinish = instance[i].mustFinish
        /\ \A j \in Polls \ {i} : instance'[j] = instance[j]
    <3>1. instance[i] \in [state : {"unused", "registered", "deleted"}, mustFinish : BOOLEAN, finished : BOOLEAN]
      BY DEF EnvironmentType
    <3>2. instance'[i] = [instance[i] EXCEPT !.finished = TRUE] /\ \A j \in Polls \ {i} : instance'[j] = instance[j]
      BY <2>1 DEF EnvironmentType
    <3>3. /\ instance'[i] \in [state : {"unused", "registered", "deleted"}, mustFinish : BOOLEAN, finished : BOOLEAN]
          /\ instance'[i].state = instance[i].state /\ instance'[i].mustFinish = instance[i].mustFinish
      BY <3>1, <3>2
    <3> QED
      BY <2>1, <3>2, <3>3 DEF EnvironmentType
  <2>4. \A j \in Polls : InstanceAndTask(j)'
    BY <2>1, <2>2, <2>3 DEF InstanceAndTask
  <2> QED
    BY <1>1, <2>1, <2>2, <2>3, <2>4, TasksProgress
<1> QED
  BY <1>2, <1>3, <1>4 DEF PollStep

(***************************************************************************)
(* Every step of the system keeps the invariant.                           *)
(***************************************************************************)
LEMMA EnvironmentStep ==
  ASSUME EnvironmentInv, [Next]_vars
  PROVE  EnvironmentInv'
<1>1. CASE UNCHANGED vars
  <2>1. UNCHANGED <<mainVars, polling, instance, ppc, pc, value, aborted>>
    BY <1>1 DEF vars, pollVars, userVars
  <2>2. /\ pc \in [Users -> Elsewhere \cup MPIStarting \cup {"initialize"} \cup Starting \cup Finalizing]
        /\ value \in [Users -> BOOLEAN] /\ aborted \in BOOLEAN
    BY DEF EnvironmentInv, EnvironmentType
  <2> QED
    BY <2>1, <2>2, LibraryKept
<1>2. CASE ~aborted /\ MainStep
  <2>1. CASE InitializeStep
    BY <2>1, InitializeStart, RegisterStep, RegisterCompletionStep, EnableBlockingStep, EnableNonBlockingStep,
       InitializedStep DEF InitializeStep
  <2>2. CASE FinalizeStep
    BY <2>2, FinalizeStart, UnregisterStep, AwaitStep, UnregisterCompletionStep, AwaitCompletionStep,
       DisableBlockingStep, DisableNonBlockingStep, FinalizedStep DEF FinalizeStep
  <2>3. CASE TaskWait
    BY <2>3, LookingStep
  <2>4. CASE MPI_Finalize
    BY <1>2, <2>4, MPI_FinalizeStep
  <2> QED
    BY <1>2, <2>1, <2>2, <2>3, <2>4, MPI_InitStep, NativeInitThreadStep, MPI_Init_threadStep, TAMPI_InitStep,
       MPI_Query_threadStep, IsAutoInitializeEnabledStep, PreinitializeStep, TAMPI_FinalizeStep DEF MainStep
<1>3. CASE \E u \in Users : UserCall(u)
  BY <1>3, LookingStep, SetAutoInitStep DEF UserCall
<1>4. CASE \E i \in Polls : PollStep(i)
  BY <1>4, PollingTaskStep
<1>5. CASE \E a \in Users \cup Polls : Dispatch(a)
  BY <1>5, LookingStep
<1> QED
  BY <1>1, <1>2, <1>3, <1>4, <1>5 DEF Next

(***************************************************************************)
(* The invariant holds throughout every execution.                         *)
(***************************************************************************)
THEOREM EnvironmentInvariant == Spec => []EnvironmentInv
<1>1. EnvironmentInv /\ [Next]_vars => EnvironmentInv'
  BY EnvironmentStep
<1> QED
  BY EnvironmentInit, <1>1, PTL DEF Spec

(***************************************************************************)
(* Environment::isBlockingEnabled and isNonBlockingEnabled, read without   *)
(* the mutex, never send an operation to a polling task that is missing or *)
(* about to stop: initialize registers the tasks before it enables a mode. *)
(***************************************************************************)
THEOREM DelegatedToLivingTask == Spec => []ModesServed
<1>1. EnvironmentInv => ModesServed
  <2> SUFFICES ASSUME EnvironmentInv, env.blockingMode \/ env.nonBlockingMode, pc[Main] \notin Finalizing
               PROVE  Active(polling.instance) /\ (CompletionEnabled => Active(polling.completion))
    BY DEF ModesServed
  <2> USE DEF EnvironmentInv
  <2>1. ServingBoth
    <3>1. pc[Main] \notin Stopping
      BY DEF Stopping, Finalizing
    <3>2. CASE env.initialized
      BY <3>1, <3>2 DEF PollingTasks, PollsToStop
    <3>3. CASE ~env.initialized
      <4>1. pc[Main] \in {"enableNonBlocking", "initialized"}
        BY <3>3 DEF Modes
      <4>2. NeedsPolling
        BY <4>1 DEF Modes, NeedsPolling
      <4> QED
        BY <4>1, <4>2 DEF PollingTasks
    <3> QED
      BY <3>2, <3>3
  <2>2. \A i \in Registered : ~instance[i].mustFinish => Active(i)
    <3> SUFFICES ASSUME NEW i \in Registered, ~instance[i].mustFinish PROVE Active(i)
      OBVIOUS
    <3>1. i \in Polls /\ instance[i].state = "registered"
      BY DEF Registered
    <3>2. i # 0
      BY <3>1, EnvironmentAssumption DEF Polls
    <3>3. ppc[i] # "ended"
      BY <3>1 DEF InstanceAndTask
    <3> QED
      BY <3>1, <3>2, <3>3 DEF Active
  <2> QED
    BY <2>1, <2>2 DEF ServingBoth, Serving, Pointers
<1> QED
  BY <1>1, EnvironmentInvariant, PTL

(***************************************************************************)
(* TaskingModel::unregisterPolling deletes an instance only when its task  *)
(* has completed and its completion callback has run.                      *)
(***************************************************************************)
THEOREM DeletedAfterLastUse == Spec => []NoUseAfterDelete
<1>1. EnvironmentInv => NoUseAfterDelete
  BY DEF EnvironmentInv, InstanceAndTask, NoUseAfterDelete
<1> QED
  BY <1>1, EnvironmentInvariant, PTL

(***************************************************************************)
(* A library that is not initialised has no polling task and no mode on,   *)
(* whatever initialisations and finalisations came before.                 *)
(***************************************************************************)
THEOREM NothingLeftBehind == Spec => []QuietWhenFinalized
<1>1. EnvironmentInv => QuietWhenFinalized
  <2> SUFFICES ASSUME EnvironmentInv, ~env.initialized, mutex = NoOne
               PROVE  /\ ~env.blockingMode /\ ~env.nonBlockingMode
                      /\ \A i \in Polls : instance[i].state # "registered"
    BY DEF QuietWhenFinalized
  <2>1. pc[Main] \notin Starting
    BY EnvironmentAssumption DEF EnvironmentInv, LifeCycle
  <2>2. ~env.blockingMode /\ ~env.nonBlockingMode
    BY <2>1 DEF EnvironmentInv, Modes, Starting
  <2>3. Registered = {}
    BY <2>1 DEF EnvironmentInv, PollingTasks
  <2> QED
    BY <2>2, <2>3 DEF Registered
<1> QED
  BY <1>1, EnvironmentInvariant, PTL

(***************************************************************************)
(* initialize tells the program MPI_TASK_MULTIPLE exactly when blocking    *)
(* calls are task-aware, and enables no mode on an MPI library that is not *)
(* thread-safe.                                                            *)
(***************************************************************************)
THEOREM ProvidedIsTrue == Spec => []ProvidedHonestly
<1>1. EnvironmentInv => ProvidedHonestly
  <2> SUFFICES ASSUME EnvironmentInv PROVE ProvidedHonestly
    OBVIOUS
  <2>1. mutex = NoOne => pc[Main] \notin Stopping
    BY EnvironmentAssumption DEF EnvironmentInv, LifeCycle
  <2> QED
    BY <2>1 DEF EnvironmentInv, Modes, Multithreaded, ProvidedHonestly
<1> QED
  BY <1>1, EnvironmentInvariant, PTL

(***************************************************************************)
(* MPI_Finalize finalises the library with MPI, and shouldFinalize never   *)
(* refuses it.                                                             *)
(***************************************************************************)
THEOREM FinalizedTogether == Spec => []FinalizedWithMPI
<1>1. EnvironmentInv => FinalizedWithMPI
  BY DEF EnvironmentInv, LifeCycle, FinalizedWithMPI, Finalizing
<1> QED
  BY <1>1, EnvironmentInvariant, PTL
=============================================================================
