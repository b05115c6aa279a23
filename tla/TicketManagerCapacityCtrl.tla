--------------------- MODULE TicketManagerCapacityCtrl ----------------------
(***************************************************************************)
(* The control of how many MPI requests may be in flight, with the polling *)
(* loop that asks it (TicketManager::checkRequests) and a program that     *)
(* needs it: the program's first Needed - 1 operations cannot finish       *)
(* before its operation number Needed is issued (receives, say, whose      *)
(* senders wait for a message of that operation), so a capacity below      *)
(* Needed would be a deadlock.                                             *)
(***************************************************************************)
EXTENDS StringSupport

CONSTANTS
  CapacityLimit, BatchSize,
  DefaultMin, DefaultTimeout,
  Ops,      \* operations of the program
  Needed    \* the operation the earlier ones depend on

ASSUME CapacityAssumption ==
  /\ CapacityLimit \in Nat \ {0} /\ DefaultMin \in 1..CapacityLimit
  /\ DefaultTimeout \in Nat /\ BatchSize \in Nat \ {0}
  /\ Ops \in Nat /\ Needed \in 1..Ops

VARIABLES
  ctrlPhase,                  \* "start", then "running" or "failed"
  policy, timeoutVar,         \* TAMPI_CAPACITY and TAMPI_CAPACITY_TIMEOUT
  capacityMin, capacityMax, capacity, timeout,
  saturation,
  elapsed,     \* time since _saturationBegin
  step,        \* where the polling task is in checkRequests
  queued,      \* operations in the pre-queues
  pending,     \* requests in flight
  mpiDone,     \* those of them MPI has finished
  inserted, totalCompleted,   \* locals of checkRequests
  done         \* operations that are complete

ctrlVars == <<ctrlPhase, policy, timeoutVar, capacityMin, capacityMax, capacity, timeout,
              saturation>>
vars == <<ctrlVars, elapsed, step, queued, pending, mpiDone, inserted,
          totalCompleted, done>>

Smaller(a, b) == IF a < b THEN a ELSE b

Init ==
  /\ ctrlPhase = "start"
  /\ policy \in {Unset} \cup Texts
  /\ timeoutVar \in {Unset} \cup [1..1 -> Components]
  /\ capacityMin = DefaultMin /\ capacityMax = CapacityLimit
  /\ capacity = DefaultMin /\ timeout = DefaultTimeout
  /\ saturation = FALSE /\ elapsed = 0
  /\ step = "idle"
  /\ queued = Ops /\ pending = 0 /\ mpiDone = 0
  /\ inserted = 0 /\ totalCompleted = 0
  /\ done = 0

(***************************************************************************)
(* parseCapacities.  Extraction from a component that holds no number      *)
(* gives 0; from an empty one it leaves the variable as it is, which is    *)
(* uninitialised.                                                          *)
(***************************************************************************)
Extracted(c) ==
  CASE c.kind = "number" -> {c.n}
    [] c.kind = "word"   -> {0}
    [] c.kind = "empty"  -> Numbers

ClampedNot(n) == n   \* mutant

Clamped(n) == Smaller(n, CapacityLimit)

Construct ==
  /\ ctrlPhase = "start"
  /\ LET components == getlines(policy)
         rejected   == Len(components) \notin 1..2
     IN  \/ /\ policy = Unset
            /\ ctrlPhase' = "running"
            /\ UNCHANGED <<capacityMin, capacityMax, capacity>>
         \/ /\ policy # Unset /\ rejected
            /\ ctrlPhase' = "failed"
            /\ UNCHANGED <<capacityMin, capacityMax, capacity>>
         \/ /\ policy # Unset /\ ~ rejected
            /\ \E min \in Extracted(components[1]),
                  max \in Extracted(components[Len(components)]) :
                 /\ Len(components) = 1 => min = max
                 /\ IF min > max
                    THEN /\ ctrlPhase' = "failed"
                         /\ UNCHANGED <<capacityMin, capacityMax, capacity>>
                    ELSE /\ ctrlPhase' = "running"
                         /\ capacityMin' = Clamped(min)
                         /\ capacityMax' = Clamped(max)
                         /\ capacity' = Clamped(min)
  /\ timeout' = EnvNumber(timeoutVar, DefaultTimeout)
  /\ UNCHANGED <<policy, timeoutVar, saturation, elapsed, step, queued, pending,
                 mpiDone, inserted, totalCompleted, done>>

(***************************************************************************)
(* checkRequests: operations are issued while there is room, the requests  *)
(* are tested, both again as long as anything happens, and the capacity is *)
(* evaluated.                                                              *)
(***************************************************************************)
Issued == Ops - queued

CallPolling ==
  /\ ctrlPhase = "running" /\ step = "idle"
  /\ step' = "insert"
  /\ totalCompleted' = 0
  /\ UNCHANGED <<ctrlVars, elapsed, queued, pending, mpiDone, inserted, done>>

\* Some of the requests may be found finished at once; they are not counted.
Insert ==
  /\ step = "insert"
  /\ LET navailable == Smaller(capacity - pending, 2 * BatchSize)
         n == IF pending < capacity THEN Smaller(navailable, queued) ELSE 0
     IN  \E k \in 0..n :
           /\ k > 0 => Issued + n >= Needed
           /\ queued' = queued - n
           /\ pending' = pending + n - k
           /\ done' = done + k
           /\ inserted' = n
  /\ step' = "check"
  /\ UNCHANGED <<ctrlVars, elapsed, mpiDone, totalCompleted>>

Check ==
  /\ step = "check"
  /\ pending' = pending - mpiDone
  /\ done' = done + mpiDone
  /\ totalCompleted' = totalCompleted + mpiDone
  /\ mpiDone' = 0
  /\ step' = IF mpiDone > 0 \/ inserted > 0 THEN "insert" ELSE "evaluate"
  /\ UNCHANGED <<ctrlVars, elapsed, queued, inserted>>

EvaluateRestarting ==   \* mutant
  /\ step = "evaluate"
  /\ saturation' = (capacity # capacityMax /\ pending = capacity /\ totalCompleted = 0)
  /\ elapsed' = 0
  /\ UNCHANGED capacity
  /\ step' = "idle"
  /\ UNCHANGED <<ctrlPhase, policy, timeoutVar, capacityMin, capacityMax, timeout, queued,
                 pending, mpiDone, inserted, totalCompleted, done>>

Evaluate ==
  /\ step = "evaluate"
  /\ IF capacity = capacityMax
     THEN UNCHANGED <<capacity, saturation, elapsed>>
     ELSE IF ~ (pending = capacity /\ totalCompleted = 0)
     THEN saturation' = FALSE /\ elapsed' = 0 /\ UNCHANGED capacity
     ELSE IF ~ saturation
     THEN saturation' = TRUE /\ elapsed' = 0 /\ UNCHANGED capacity
     ELSE IF elapsed > timeout
     THEN /\ saturation' = FALSE /\ elapsed' = 0
          /\ capacity' = Smaller(capacity * 2, capacityMax)
     ELSE UNCHANGED <<capacity, saturation, elapsed>>
  /\ step' = "idle"
  /\ UNCHANGED <<ctrlPhase, policy, timeoutVar, capacityMin, capacityMax, timeout, queued,
                 pending, mpiDone, inserted, totalCompleted, done>>

\* The clock; only whether the timeout has passed matters.
Tick ==
  /\ saturation /\ elapsed <= timeout
  /\ elapsed' = elapsed + 1
  /\ UNCHANGED <<ctrlVars, step, queued, pending, mpiDone, inserted, totalCompleted,
                 done>>

\* The MPI library finishes a request.
MPIFinish ==
  /\ Issued >= Needed /\ mpiDone < pending
  /\ mpiDone' = mpiDone + 1
  /\ UNCHANGED <<ctrlVars, elapsed, step, queued, pending, inserted, totalCompleted,
                 done>>

\* The program goes on with the same operations.
Repeat ==
  /\ ctrlPhase = "running" /\ step = "idle" /\ done = Ops
  /\ queued' = Ops /\ done' = 0
  /\ UNCHANGED <<ctrlVars, elapsed, step, pending, mpiDone, inserted, totalCompleted>>

checkRequests == CallPolling \/ Insert \/ Check \/ Evaluate

Next == Construct \/ checkRequests \/ Tick \/ MPIFinish \/ Repeat

\* The polling task is called again and again, time passes, and MPI finishes
\* what it can.
Spec ==
  /\ Init /\ [][Next]_vars
  /\ WF_vars(Construct) /\ WF_vars(checkRequests) /\ WF_vars(Tick)
  /\ WF_vars(MPIFinish)

(***************************************************************************)
(* Properties.                                                             *)
(***************************************************************************)
(***************************************************************************)
(* CapacityHolds: whatever text TAMPI_CAPACITY holds, even one whose       *)
(* numbers the parser leaves uninitialised, the requests in flight never   *)
(* exceed the current capacity, nor the capacity the CapacityLimit entries *)
(* the request arrays have; the capacity stays between its two bounds.     *)
(***************************************************************************)
CapacityHolds ==
  ctrlPhase = "running" =>
    /\ pending <= capacity
    /\ capacityMin <= capacity /\ capacity <= capacityMax
    /\ capacityMax <= CapacityLimit

(***************************************************************************)
(* DeadlockBroken: a program whose operations in flight wait for one that  *)
(* is still queued finishes: while the capacity is saturated and nothing   *)
(* completes it is doubled, until the awaited operation is issued.  This   *)
(* takes a maximum that is large enough and a minimum that is not 0, which *)
(* doubling never leaves.                                                  *)
(***************************************************************************)
DeadlockBroken ==
  (ctrlPhase = "running" /\ capacityMin > 0 /\ capacityMax >= Needed) ~> done = Ops

=============================================================================
