--------------------------- MODULE RuntimeProofs ----------------------------
(***************************************************************************)
(* How the library works with the tasking runtime.  The requests in flight *)
(* fit in the arrays, for any CapacityLimit, any text of TAMPI_CAPACITY    *)
(* and any program; the polling period stays in the range that             *)
(* TAMPI_POLLING_PERIOD gives, for any text of it; and no function of the  *)
(* runtime is called through a null pointer, whichever runtime the program *)
(* finds and however often it is initialised again.                        *)
(***************************************************************************)
EXTENDS Polling, TaskingModel, SequenceTheorems, TLAPS

\* Zenon is tried first, briefly, and both provers get more time than by default.
USE ZenonT(4), SMTT(20), ZenonT(20)

(***************************************************************************)
(* The invariant.  The polling loop runs, and requests are in flight, only *)
(* after the constructor has set the bounds; the requests that MPI has     *)
(* finished are among those in flight, so testing them frees no more.      *)
(***************************************************************************)
CapacityInv ==
  /\ policy \in {Unset} \cup Texts
  /\ capacityMin \in Nat /\ capacityMax \in Nat /\ capacity \in Nat
  /\ queued \in Nat /\ pending \in Nat /\ mpiDone \in Nat
  /\ ctrlPhase = "start" => pending = 0 /\ step = "idle"
  /\ mpiDone <= pending /\ pending <= capacity
  /\ capacityMin <= capacity /\ capacity <= capacityMax /\ capacityMax <= CapacityLimit

(***************************************************************************)
(* The constructor's initial values satisfy the invariant.                 *)
(***************************************************************************)
LEMMA CapacityInit == Init => CapacityInv
BY CapacityAssumption DEF Init, CapacityInv

(***************************************************************************)
(* What parseCapacities extracts from a component is a natural number,     *)
(* whatever the component is.                                              *)
(***************************************************************************)
LEMMA ExtractedNat ==
  ASSUME NEW c \in Components, NEW n \in Extracted(c)
  PROVE  n \in Nat
<1>1. CASE c = Empty
  BY <1>1, TextAssumption DEF Extracted, Empty
<1>2. CASE c \in [kind : {"number"}, n : Numbers]
  BY <1>2, TextAssumption DEF Extracted
<1>3. CASE c \in [kind : {"word"}, w : Words]
  BY <1>3 DEF Extracted
<1> QED
  BY <1>1, <1>2, <1>3 DEF Components

(***************************************************************************)
(* The getline loop of parseCapacities yields components of the text.      *)
(***************************************************************************)
LEMMA GetlinesComponents ==
  ASSUME NEW text \in Texts
  PROVE  getlines(text) \in Seq(Components)
<1>1. text \in Seq(Components) /\ Len(text) > 0
  <2>1. PICK k \in 1..MaxFields : text \in [1..k -> Components]
    BY DEF Texts
  <2>2. text \in Seq(Components)
    BY <2>1, SeqDef, TextAssumption
  <2>3. Len(text) = k
    BY <2>1, <2>2, TextAssumption
  <2> QED
    BY <2>2, <2>3
<1>2. SubSeq(text, 1, Len(text) - 1) \in Seq(Components)
  BY <1>1
<1> QED
  BY <1>1, <1>2 DEF getlines

(***************************************************************************)
(* The constructor: the limits it reads are clamped to CapacityLimit, and  *)
(* a minimum above the maximum is refused.                                 *)
(***************************************************************************)
LEMMA ConstructStep ==
  ASSUME CapacityInv, Construct
  PROVE  CapacityInv'
<1> USE DEF CapacityInv
<1>1. pending = 0 /\ mpiDone = 0 /\ ctrlPhase' # "start"
  BY DEF Construct
<1>2. CASE UNCHANGED <<capacityMin, capacityMax, capacity>>
  BY <1>1, <1>2 DEF Construct
<1>3. CASE ~ UNCHANGED <<capacityMin, capacityMax, capacity>>
  <2>1. policy \in Texts
    BY <1>3 DEF Construct
  <2> DEFINE components == getlines(policy)
  <2>2. components \in Seq(Components) /\ Len(components) \in 1..2
    BY <1>3, <2>1, GetlinesComponents DEF Construct
  <2>3. components[1] \in Components /\ components[Len(components)] \in Components
    BY <2>2
  <2> HIDE DEF components
  <2>4. PICK min \in Extracted(components[1]), max \in Extracted(components[Len(components)]) :
          /\ ~ (min > max)
          /\ capacityMin' = Clamped(min) /\ capacityMax' = Clamped(max)
          /\ capacity' = Clamped(min)
    BY <1>3 DEF Construct, components
  <2>5. min \in Nat /\ max \in Nat
    BY <2>3, ExtractedNat
  <2> QED
    BY <1>1, <2>4, <2>5, CapacityAssumption DEF Clamped, Smaller, Construct
<1> QED
  BY <1>2, <1>3

(***************************************************************************)
(* Every step of the constructor, of checkRequests, of the clock, of MPI   *)
(* and of the program preserves the invariant.                             *)
(***************************************************************************)
LEMMA CapacityStep ==
  ASSUME CapacityInv, [Next]_vars
  PROVE  CapacityInv'
<1> USE DEF CapacityInv
<1>1. CASE Construct
  BY <1>1, ConstructStep
<1>2. CASE CallPolling
  BY <1>2 DEF CallPolling, ctrlVars
<1>3. CASE Insert
  <2> DEFINE navailable == Smaller(capacity - pending, 2 * BatchSize)
             n == IF pending < capacity THEN Smaller(navailable, queued) ELSE 0
  <2>1. n \in Nat /\ n <= queued /\ n <= capacity - pending
    BY CapacityAssumption DEF Smaller
  <2>2. PICK k \in 0..n : queued' = queued - n /\ pending' = pending + n - k
    BY <1>3 DEF Insert
  <2>3. UNCHANGED <<ctrlVars, mpiDone>> /\ ctrlPhase # "start"
    BY <1>3 DEF Insert
  <2> HIDE DEF n
  <2>4. k \in Nat /\ k <= n
    BY <2>1, <2>2
  <2> QED
    BY <2>1, <2>2, <2>3, <2>4 DEF ctrlVars
<1>4. CASE Check
  BY <1>4 DEF Check, ctrlVars
<1>5. CASE Evaluate
  BY <1>5 DEF Evaluate, Smaller
<1>6. CASE Tick \/ MPIFinish
  BY <1>6 DEF Tick, MPIFinish, ctrlVars
<1>7. CASE Repeat
  BY <1>7, CapacityAssumption DEF Repeat, ctrlVars
<1>8. CASE UNCHANGED vars
  BY <1>8 DEF vars, ctrlVars
<1> QED
  BY <1>1, <1>2, <1>3, <1>4, <1>5, <1>6, <1>7, <1>8 DEF Next, checkRequests

-----------------------------------------------------------------------------
(***************************************************************************)
(* Arithmetic.  Multiplication by a period's resolution keeps the order.   *)
(***************************************************************************)
LEMMA TimesMonotone ==
  ASSUME NEW a \in Nat, NEW b \in Nat, NEW u \in Nat, a <= b
  PROVE  a * u \in Nat /\ a * u <= b * u
OBVIOUS

(***************************************************************************)
(* A quotient is a natural number, and is at most p if the dividend is at  *)
(* most p times the divisor.                                               *)
(***************************************************************************)
LEMMA QuotientBound ==
  ASSUME NEW a \in Nat, NEW d \in Nat \ {0}
  PROVE  a \div d \in Nat /\ \A p \in Nat : a <= p * d => a \div d <= p
<1> DEFINE q == a \div d
<1>1. q \in Nat /\ d * q <= a
  <2>1. a = d * (a \div d) + (a % d) /\ a % d \in 0..(d - 1)
    OBVIOUS
  <2>2. q \in Nat
    OBVIOUS
  <2> QED
    BY <2>1, <2>2
<1> HIDE DEF q
<1>2. ASSUME NEW p \in Nat, a <= p * d PROVE q <= p
  <2>1. CASE q > p
    <3>1. d * q >= d * (p + 1)
      BY <1>1, <2>1
    <3> QED
      BY <1>1, <1>2, <3>1
  <2> QED
    BY <1>1, <2>1
<1> QED
  BY <1>1, <1>2 DEF q

(***************************************************************************)
(* _period / _factor is at most _period: _factor is at least 1.5.          *)
(***************************************************************************)
LEMMA DividedBound ==
  ASSUME NEW p \in Nat, NEW m \in Nat \ {0}, NEW u \in Nat \ {0}, NEW b \in Nat
  PROVE  LET q == (p * 2 * m * u) \div (3 * m * u + b) IN q \in Nat /\ q <= p
<1>1. p * 2 * m * u \in Nat /\ p * 2 * m * u <= p * (3 * m * u + b)
  OBVIOUS
<1>2. 3 * m * u + b \in Nat \ {0}
  OBVIOUS
<1> QED
  BY <1>1, <1>2, QuotientBound

(***************************************************************************)
(* The invariant of the period control: once the constructor has accepted  *)
(* the setting the range is one, and PeriodInRange.                        *)
(***************************************************************************)
PeriodInv ==
  /\ envar \in {Unset} \cup Texts
  /\ minPeriod \in Nat /\ maxPeriod \in Nat /\ period \in Nat /\ base \in Nat
  /\ minPeriod <= maxPeriod
  /\ PeriodInRange

(***************************************************************************)
(* PollingPeriodCtrl's constructor takes its limits from the setting only  *)
(* where they are numbers.                                                 *)
(***************************************************************************)
LEMMA ConstructPeriodStep ==
  ASSUME PeriodInv, ConstructPeriod
  PROVE  PeriodInv'
<1> USE DEF PeriodInv
<1>1. CASE periodPhase' = "failed"
  BY <1>1 DEF ConstructPeriod, PeriodInRange, Adapting
<1>2. CASE periodPhase' # "failed"
  <2> DEFINE text == Setting
             min  == text[1].n
             max  == IF Len(text) > 1 THEN text[2].n ELSE min
  <2>1. /\ ~ parseFails(text, <<"number", "number", "word">>) /\ ~ (min > max)
        /\ minPeriod' = min /\ maxPeriod' = max
        /\ period' = max * Unit /\ base' = max * Unit /\ envar' = envar
    BY <1>2 DEF ConstructPeriod
  <2>2. min \in Nat /\ max \in Nat
    <3>1. CASE envar = Unset
      <4>1. text = <<[kind |-> "number", n |-> DefaultPeriodUs]>>
        BY <3>1 DEF Setting
      <4> QED
        BY <4>1, PeriodAssumption
    <3>2. CASE envar \in Texts
      <4>1. text \in Texts
        <5>1. envar # Unset
          <6>1. PICK k \in 1..MaxFields : envar \in [1..k -> Components]
            BY <3>2 DEF Texts
          <6>2. 1 \in DOMAIN envar
            BY <6>1, TextAssumption
          <6> QED
            BY <6>2 DEF Unset
        <5> QED
          BY <3>2, <5>1 DEF Setting
      <4>2. PICK k \in 1..MaxFields : text \in [1..k -> Components]
        BY <4>1 DEF Texts
      <4> HIDE DEF text
      <4>3. k \in Nat /\ text \in Seq(Components) /\ Len(text) = k /\ DOMAIN text = 1..k
        BY <4>2, TextAssumption
      <4>4. \A i \in 1..k : i <= 2 => text[i].kind = "number"
        BY <2>1, <4>3 DEF parseFails, parse
      <4>5. \A c \in Components : c.kind = "number" => c.n \in Nat
        BY ExtractedNat DEF Extracted
      <4>6. \A i \in 1..k : i <= 2 => text[i].n \in Nat
        BY <4>2, <4>4, <4>5
      <4> QED
        BY <4>3, <4>6
    <3> QED
      BY <3>1, <3>2
  <2> HIDE DEF min, max
  <2>3. min <= max /\ min * Unit <= max * Unit /\ max * Unit \in Nat
    BY <2>1, <2>2, PeriodAssumption, TimesMonotone
  <2> QED
    BY <2>1, <2>2, <2>3 DEF PeriodInRange, InRange
<1> QED
  BY <1>1, <1>2

(***************************************************************************)
(* getPeriod keeps the period in its range.                                *)
(***************************************************************************)
LEMMA GetPeriodStep ==
  ASSUME PeriodInv, NEW found, getPeriod(found)
  PROVE  PeriodInv'
<1> USE PeriodAssumption DEF PeriodInv
<1>1. UNCHANGED <<periodPhase, envar, minPeriod, maxPeriod>>
  BY DEF getPeriod, Static, Hit, Miss
<1>2. /\ minPeriod * Unit \in Nat /\ maxPeriod * Unit \in Nat /\ minPeriod * Unit <= maxPeriod * Unit
      /\ MinBase * Unit \in Nat /\ (maxPeriod >= MinBase => MinBase * Unit <= maxPeriod * Unit)
  BY TimesMonotone
<1>3. CASE UNCHANGED <<period, base>>
  BY <1>1, <1>3 DEF PeriodInRange, Adapting, InRange, Dynamic
<1>4. CASE Miss /\ Increase
  <2> DEFINE m == minPeriod * Unit
             M == maxPeriod * Unit
             B == MinBase * Unit
  <2>1. period' = Larger(Lower(period * 2, M), B) /\ base' = period'
    BY <1>4 DEF Increase
  <2> HIDE DEF m, M, B
  <2>2. m \in Nat /\ M \in Nat /\ B \in Nat /\ m <= M /\ (maxPeriod >= MinBase => B <= M)
    BY <1>2 DEF m, M, B
  <2>3. period' \in Nat /\ base' \in Nat
    BY <2>1, <2>2 DEF Larger, Lower
  <2>4. m <= period /\ B <= M => m <= period' /\ period' <= M /\ base' <= M
    BY <2>1, <2>2 DEF Larger, Lower
  <2> QED
    BY <1>1, <2>2, <2>3, <2>4 DEF PeriodInRange, Adapting, InRange, Dynamic, m, M
<1>5. CASE Hit
  <2>1. maxPeriod \in Nat \ {0}
    BY <1>5 DEF Hit, Dynamic
  <2> DEFINE m == minPeriod * Unit
             M == maxPeriod * Unit
             q == (period * 2 * maxPeriod * Unit) \div (3 * maxPeriod * Unit + base)
  <2>2. q \in Nat /\ q <= period
    BY <2>1, DividedBound
  <2>3. period' = Larger(q, m) /\ base' = base
    BY <1>5 DEF Hit, Divided
  <2> HIDE DEF m, M, q
  <2>4. m \in Nat /\ M \in Nat /\ m <= M
    BY <1>2 DEF m, M
  <2>5. period' \in Nat /\ m <= period' /\ (period <= M => period' <= M)
    BY <2>2, <2>3, <2>4 DEF Larger
  <2> QED
    BY <1>1, <2>3, <2>5 DEF PeriodInRange, Adapting, InRange, Dynamic, m, M
<1> QED
  BY <1>3, <1>4, <1>5 DEF getPeriod, Static, Miss

-----------------------------------------------------------------------------
(***************************************************************************)
(* The polling task with both controls keeps the two invariants.           *)
(***************************************************************************)
LEMMA ControlsInit == PollingInit => CapacityInv /\ PeriodInv
<1>1. PollingInit => PeriodInv
  BY DEF PollingInit, PeriodInit, PeriodInv, PeriodInRange, Adapting
<1> QED
  BY <1>1, CapacityInit DEF PollingInit

(***************************************************************************)
(* A step of one control leaves the other alone, except at the end of      *)
(* Polling::polling, which runs both.                                      *)
(***************************************************************************)
LEMMA ControlsStep ==
  ASSUME CapacityInv, PeriodInv, [PollingNext]_pollingVars
  PROVE  CapacityInv' /\ PeriodInv'
<1>1. [Next]_vars
  BY DEF PollingNext, Load, FirstUse, polling, Clock, Progress, Program, pollingVars, Next, checkRequests
<1>2. CASE UNCHANGED periodVars
  BY <1>1, <1>2, CapacityStep DEF periodVars, PeriodInv, PeriodInRange, Adapting, InRange, Dynamic
<1>3. CASE ConstructPeriod
  BY <1>1, <1>3, CapacityStep, ConstructPeriodStep
<1>4. CASE getPeriod(totalCompleted > 0)
  BY <1>1, <1>4, CapacityStep, GetPeriodStep
<1> QED
  BY <1>2, <1>3, <1>4 DEF PollingNext, Load, FirstUse, polling, Clock, Progress, Program, pollingVars

(***************************************************************************)
(* The requests in flight never exceed the capacity, nor the capacity the  *)
(* entries of the request arrays (TicketManagerCapacityCtrl, with the loop *)
(* of checkRequests).                                                      *)
(***************************************************************************)
THEOREM CapacityNeverExceeded == PollingSpec => []CapacityHolds
<1>1. CapacityInv => CapacityHolds
  BY DEF CapacityInv, CapacityHolds
<1>2. CapacityInv /\ PeriodInv /\ [PollingNext]_pollingVars => CapacityInv' /\ PeriodInv'
  BY ControlsStep
<1> QED
  BY <1>1, <1>2, ControlsInit, PTL DEF PollingSpec

(***************************************************************************)
(* For every setting whose maximum is at least MinBase the period stays    *)
(* between the minimum and the maximum, and the factor it is divided by at *)
(* most 2, after any history of checks: the assertions at the end of       *)
(* SlowStartPollingPeriodCtrl::run hold.                                   *)
(***************************************************************************)
THEOREM PeriodStaysInRange == PollingSpec => []PeriodInRange
<1>1. PeriodInv => PeriodInRange
  BY DEF PeriodInv
<1>2. CapacityInv /\ PeriodInv /\ [PollingNext]_pollingVars => CapacityInv' /\ PeriodInv'
  BY ControlsStep
<1> QED
  BY <1>1, <1>2, ControlsInit, PTL DEF PollingSpec

(***************************************************************************)
(* What has been loaded stays loaded, so it is enough to say what each     *)
(* piece of state stands for: a chosen polling function for the basic      *)
(* functions, and for the suspend functions if it is suspendPolling; a     *)
(* mode, and an operation delegated in it, for the functions of the mode.  *)
(* An operation may outlive the mode that delegated it as far as this      *)
(* invariant is concerned.                                                 *)
(***************************************************************************)
BindingInv ==
  /\ runtime \in Runtimes
  /\ blocked \in Nat /\ events \in Nat
  /\ blockingMode \in BOOLEAN /\ nonBlockingMode \in BOOLEAN
  /\ pollingFunction # "null" => Base \subseteq loaded
  /\ pollingFunction = "suspendPolling" => Suspending \subseteq loaded
  /\ blockingMode \/ blocked > 0 => Blocking \subseteq loaded
  /\ nonBlockingMode \/ events > 0 => Events \subseteq loaded
  /\ blockingMode \/ nonBlockingMode \/ phase = "finalizing" => pollingFunction # "null"
  /\ ppc \in [Instances -> {"none", "loop", "paused", "ended", "completed"}]
  /\ (\E i \in Instances : ppc[i] # "none") => pollingFunction # "null"
  /\ called # {} => pollingFunction # "null" \/ aborted
  /\ called \subseteq loaded

(***************************************************************************)
(* Nothing is loaded and nothing is called before the first initialize.    *)
(***************************************************************************)
LEMMA BindingInit == TaskingInit => BindingInv
<1> SUFFICES ASSUME TaskingInit PROVE BindingInv
  OBVIOUS
<1>1. \A i \in Instances : ppc[i] = "none"
  BY DEF TaskingInit
<1>2. ppc \in [Instances -> {"none", "loop", "paused", "ended", "completed"}]
  BY DEF TaskingInit
<1>3. blocked \in Nat /\ events \in Nat /\ ~ (blocked > 0) /\ ~ (events > 0)
  BY DEF TaskingInit
<1>4. phase # "finalizing" /\ pollingFunction # "suspendPolling"
  BY DEF TaskingInit
<1> QED
  BY <1>1, <1>2, <1>3, <1>4 DEF TaskingInit, BindingInv

(***************************************************************************)
(* What initialize finds: loading leaves no mandatory function null if     *)
(* each is provided or was loaded before, and a runtime that passes the    *)
(* version check has feature_check, and the suspend functions if it says   *)
(* that it supports suspension.                                            *)
(***************************************************************************)
LEMMA Loading ==
  ASSUME NEW blocking \in BOOLEAN, NEW nonBlocking \in BOOLEAN, runtime \in Runtimes,
         NEW now, now = loaded \cup ((Mandatory(blocking, nonBlocking) \cup Optional(nonBlocking))
                                       \cap Provided(runtime))
  PROVE  /\ loaded \subseteq now
         /\ Mandatory(blocking, nonBlocking) \subseteq Provided(runtime) \cup loaded =>
              /\ Base \subseteq now
              /\ blocking => Blocking \subseteq now
              /\ nonBlocking => Events \subseteq now
         /\ FeatureCheckAvailable => "feature_check" \in now
         /\ UseSuspendPolling => Suspending \subseteq now
<1>1. Base \subseteq Mandatory(blocking, nonBlocking)
  BY DEF Mandatory
<1>2. blocking => Blocking \subseteq Mandatory(blocking, nonBlocking)
  BY DEF Mandatory
<1>3. nonBlocking => Events \subseteq Mandatory(blocking, nonBlocking)
  BY DEF Mandatory
<1>4. Mandatory(blocking, nonBlocking) \subseteq Provided(runtime) \cup loaded =>
        Mandatory(blocking, nonBlocking) \subseteq now
  OBVIOUS
<1>5. FeatureCheckAvailable => "feature_check" \in Provided(runtime)
  BY DEF FeatureCheckAvailable, Provided, Since12
<1>6. UseSuspendPolling => Suspending \subseteq Provided(runtime)
  BY DEF UseSuspendPolling, Provided
<1>7. "feature_check" \in Optional(nonBlocking) /\ Suspending \subseteq Optional(nonBlocking)
  BY DEF Optional, Since12
<1> QED
  BY <1>1, <1>2, <1>3, <1>4, <1>5, <1>6, <1>7

(***************************************************************************)
(* initialize: with no mode it loads nothing, a runtime without a          *)
(* mandatory function is refused before any call but the version ones, and *)
(* suspendPolling is chosen only if the suspend functions are there.       *)
(***************************************************************************)
LEMMA InitializeStep ==
  ASSUME BindingInv, NEW blocking \in BOOLEAN, NEW nonBlocking \in BOOLEAN,
         Initialize(blocking, nonBlocking)
  PROVE  BindingInv'
<1> USE DEF BindingInv
<1> DEFINE now == loaded \cup ((Mandatory(blocking, nonBlocking) \cup Optional(nonBlocking))
                                 \cap Provided(runtime))
           complete == Mandatory(blocking, nonBlocking) \subseteq Provided(runtime) \cup loaded
           versions == {"version_get", "version_check"}
           features == IF FeatureCheckAvailable THEN {"feature_check"} ELSE {}
<1>1. /\ loaded \subseteq now
      /\ complete => /\ Base \subseteq now
                     /\ blocking => Blocking \subseteq now
                     /\ nonBlocking => Events \subseteq now
      /\ FeatureCheckAvailable => "feature_check" \in now
      /\ UseSuspendPolling => Suspending \subseteq now
  <2>1. runtime \in Runtimes
    OBVIOUS
  <2>2. now = loaded \cup ((Mandatory(blocking, nonBlocking) \cup Optional(nonBlocking))
                              \cap Provided(runtime))
    OBVIOUS
  <2> HIDE DEF BindingInv, now
  <2> QED
    BY <2>1, <2>2, Loading
<1>2. runtime' = runtime /\ blocked' = blocked /\ events' = events /\ phase # "finalizing"
  BY DEF Initialize, opVars
<1>3. blockingMode' = (blocking /\ ~ aborted') /\ nonBlockingMode' = (nonBlocking /\ ~ aborted')
  BY DEF Initialize
<1>4. {"error_string", "version_check", "version_get", "cpu_count", "task_spawn"} \subseteq Base
  BY DEF Base
<1>5. \/ /\ ~ blocking /\ ~ nonBlocking
         /\ called' = {} /\ phase' = "on"
         /\ UNCHANGED <<loaded, pollingFunction, ppc, aborted>>
      \/ /\ loaded' = now /\ aborted' = TRUE
         /\ called' \subseteq versions \cup features
         /\ called' # {} => complete
         /\ UNCHANGED <<phase, pollingFunction, ppc>>
      \/ /\ loaded' = now /\ complete
         /\ called' = versions \cup features \cup {"cpu_count", "task_spawn"}
         /\ pollingFunction' = ChosenFunction
         /\ ppc' = [i \in Instances |-> "loop"]
         /\ UNCHANGED aborted /\ phase' = "on"
  <2> HIDE DEF BindingInv
  <2> QED
    BY DEF Initialize, Call, pollVars, Register
<1> HIDE DEF now, complete
<1>6. CASE ~ blocking /\ ~ nonBlocking /\ called' = {} /\ phase' = "on"
           /\ UNCHANGED <<loaded, pollingFunction, ppc, aborted>>
  BY <1>2, <1>3, <1>6
<1>7. CASE /\ loaded' = now /\ aborted' = TRUE
           /\ called' \subseteq versions \cup features
           /\ called' # {} => complete
           /\ UNCHANGED <<phase, pollingFunction, ppc>>
  <2>1. called' \subseteq loaded'
    BY <1>1, <1>4, <1>7
  <2> QED
    BY <1>1, <1>2, <1>3, <1>7, <2>1
<1>8. CASE /\ loaded' = now /\ complete
           /\ called' = versions \cup features \cup {"cpu_count", "task_spawn"}
           /\ pollingFunction' = ChosenFunction
           /\ ppc' = [i \in Instances |-> "loop"]
           /\ UNCHANGED aborted /\ phase' = "on"
  <2>1. called' \subseteq loaded'
    BY <1>1, <1>4, <1>8
  <2>2. pollingFunction' # "null" /\ (pollingFunction' = "suspendPolling" => UseSuspendPolling)
    BY <1>8 DEF ChosenFunction
  <2> QED
    BY <1>1, <1>2, <1>3, <1>8, <2>1, <2>2
<1> QED
  BY <1>5, <1>6, <1>7, <1>8

(***************************************************************************)
(* A call of the polling function by the task of instance i calls the      *)
(* runtime for the operations it completes and to pause.                   *)
(***************************************************************************)
LEMMA PollStep ==
  ASSUME BindingInv, NEW i \in Instances, Poll(i)
  PROVE  BindingInv'
<1> USE DEF BindingInv
<1>1. pollingFunction # "null" /\ Base \subseteq loaded
  BY DEF Poll
<1>2. UNCHANGED <<runtime, loaded, phase, blockingMode, nonBlockingMode, pollingFunction, aborted>>
  BY DEF Poll, Pause, Call, modeVars
<1>3. ppc' \in [Instances -> {"none", "loop", "paused", "ended", "completed"}]
  BY DEF Poll, Pause, Goto
<1>4. blocked' \in Nat /\ blocked' <= blocked /\ events' \in Nat /\ events' <= events
  BY DEF Poll, Pause, opVars
<1>5. called' = {} \/ called' = PollingCalls
  BY DEF Poll, Pause, Call
<1>6. PollingCalls \subseteq loaded
  <2>1. blocked' < blocked => "task_unblock" \in loaded
    BY <1>4 DEF Blocking
  <2>2. events' < events => "task_events_decrease" \in loaded
    BY <1>4 DEF Events
  <2>3. "task_self" \in loaded /\ "task_waitfor_ns" \in loaded
    BY <1>1 DEF Base
  <2>4. pollingFunction = "suspendPolling" =>
          "task_suspend_mode_set" \in loaded /\ "task_suspend" \in loaded
    BY DEF Suspending
  <2> QED
    BY <2>1, <2>2, <2>3, <2>4 DEF PollingCalls
<1> QED
  BY <1>1, <1>2, <1>3, <1>4, <1>5, <1>6

(***************************************************************************)
(* The other steps: a task that delegates an operation calls functions of  *)
(* the enabled mode, finalisation those of the basic group, and a failed   *)
(* call asks for the text of the error.                                    *)
(***************************************************************************)
LEMMA OtherStep ==
  ASSUME BindingInv,
         \/ BlockTask \/ IncreaseEvents \/ Finalize \/ Finalized \/ CallFails
         \/ \E i \in Instances :
              Resume(i) \/ GenericCompleted(i) \/ AskToFinish(i) \/ AwaitFinished(i)
  PROVE  BindingInv'
<1> USE DEF BindingInv
<1>1. {"task_self", "cpu_logical_id", "error_string", "task_waitfor_ns"} \subseteq Base
  BY DEF Base
<1>2. CASE BlockTask
  BY <1>1, <1>2 DEF BlockTask, Call, modeVars, pollVars, Blocking
<1>3. CASE IncreaseEvents
  BY <1>1, <1>3 DEF IncreaseEvents, Call, modeVars, pollVars, Events
<1>4. CASE Finalize
  BY <1>4 DEF Finalize, Call, pollVars, opVars
<1>5. CASE Finalized
  BY <1>5 DEF Finalized, Call, opVars
<1>6. CASE CallFails
  BY <1>1, <1>6 DEF CallFails, ProcessFailure, modeVars, pollVars, opVars
<1>7. ASSUME NEW i \in Instances, Resume(i) \/ GenericCompleted(i) PROVE BindingInv'
  BY <1>7 DEF Resume, GenericCompleted, Goto, Call, modeVars, opVars
<1>8. ASSUME NEW i \in Instances, AskToFinish(i) \/ AwaitFinished(i) PROVE BindingInv'
  BY <1>1, <1>8 DEF AskToFinish, AwaitFinished, Call, modeVars, pollVars, opVars
<1> QED
  BY <1>2, <1>3, <1>4, <1>5, <1>6, <1>7, <1>8

(***************************************************************************)
(* Every function of the runtime that the library calls is one that        *)
(* TaskingModel::initialize has found (the assertion in                    *)
(* Symbol::operator()), with or without a completion task, for any number  *)
(* of initialisations and of delegated operations.                         *)
(***************************************************************************)
THEOREM NeverNull == TaskingSpec => []NoNullCall
<1>1. BindingInv /\ [TaskingNext]_taskingVars => BindingInv'
  <2> SUFFICES ASSUME BindingInv, [TaskingNext]_taskingVars PROVE BindingInv'
    OBVIOUS
  <2>1. CASE \E blocking, nonBlocking \in BOOLEAN : Initialize(blocking, nonBlocking)
    BY <2>1, InitializeStep
  <2>2. CASE \E i \in Instances : Poll(i)
    BY <2>2, PollStep
  <2>3. CASE UNCHANGED taskingVars
    BY <2>3 DEF taskingVars, modeVars, pollVars, opVars, BindingInv
  <2> QED
    BY <2>1, <2>2, <2>3, OtherStep DEF TaskingNext
<1>2. BindingInv => NoNullCall
  BY DEF BindingInv, NoNullCall
<1> QED
  BY <1>1, <1>2, BindingInit, PTL DEF TaskingSpec

=============================================================================
