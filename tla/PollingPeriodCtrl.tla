------------------------- MODULE PollingPeriodCtrl --------------------------
(***************************************************************************)
(* How long the polling task pauses: PollingPeriodCtrl reads the range of  *)
(* periods from TAMPI_POLLING_PERIOD, and SlowStartPollingPeriodCtrl moves *)
(* within it, halving the period (or dividing it by a little less) after a *)
(* check that completed something and doubling it after Tolerance checks   *)
(* in a row that did not.                                                  *)
(*                                                                         *)
(* The code's periods are doubles; here they are multiples of 1/Unit       *)
(* microseconds, rounded down.  The factor, (1.5 max + 0.5 base) / max for *)
(* the period base at the last increase, is kept exactly, by its base.     *)
(***************************************************************************)
EXTENDS StringSupport

CONSTANTS
  DefaultPeriodUs, MinBase,
  Tolerance,   \* misses in a row before the period increases
  Unit         \* resolution of the periods

ASSUME PeriodAssumption ==
  /\ DefaultPeriodUs \in Nat /\ MinBase \in Nat
  /\ Tolerance \in Nat \ {0} /\ Unit \in Nat \ {0}

VARIABLES
  periodPhase,             \* "start", then "polling" or "failed"
  envar,                   \* TAMPI_POLLING_PERIOD
  minPeriod, maxPeriod,    \* in microseconds
  period,                  \* _period, in units
  base,                    \* the period that determines _factor, in units
  misses,
  returned,                \* what getPeriod returned last, in microseconds
  completed                \* whether the last check completed anything

periodVars == <<periodPhase, envar, minPeriod, maxPeriod, period, base, misses,
                returned, completed>>

PeriodInit ==
  /\ periodPhase = "start"
  /\ envar \in {Unset} \cup Texts
  /\ minPeriod = 0 /\ maxPeriod = 0
  /\ period = 0 /\ base = 0 /\ misses = 0
  /\ returned = 0 /\ completed = FALSE

Larger(a, b) == IF a > b THEN a ELSE b
Lower(a, b) == IF a < b THEN a ELSE b

\* The value of _envar, with its default.
Setting ==
  IF envar = Unset THEN <<[kind |-> "number", n |-> DefaultPeriodUs]>> ELSE envar

Dynamic(min, max) == min # max

PolicyOf(text) ==
  IF Len(text) < 3 THEN "slowstart"
  ELSE IF text[3].kind = "word" THEN text[3].w ELSE "other"

\* The constructors of PollingPeriodCtrl and SlowStartPollingPeriodCtrl.
ConstructPeriod ==
  /\ periodPhase = "start"
  /\ LET text == Setting
         bad  == parseFails(text, <<"number", "number", "word">>)
         min  == text[1].n
         max  == IF Len(text) > 1 THEN text[2].n ELSE min
     IN  IF bad \/ min > max
            \/ (Dynamic(min, max) /\ PolicyOf(text) \notin {"slowstart", "default"})
         THEN /\ periodPhase' = "failed"
              /\ UNCHANGED <<minPeriod, maxPeriod, period, base>>
         ELSE /\ periodPhase' = "polling"
              /\ minPeriod' = min /\ maxPeriod' = max
              /\ period' = max * Unit /\ base' = max * Unit
  /\ UNCHANGED <<envar, misses, returned, completed>>

(***************************************************************************)
(* getPeriod after a check of the requests.                                *)
(***************************************************************************)
Return == returned' = period' \div Unit

IncreaseFromAnywhere ==   \* mutant
  /\ period' = Lower(period * 2, maxPeriod * Unit)
  /\ base' = period'

\* Penalty: double the period, from MinBase at least.
Increase ==
  /\ period' = Larger(Lower(period * 2, maxPeriod * Unit), MinBase * Unit)
  /\ base' = period'

\* _period / _factor
DividedTooFar == (period * 2 * maxPeriod * Unit) \div (3 * maxPeriod * Unit + base)   \* mutant

Divided ==
  Larger((period * 2 * maxPeriod * Unit) \div (3 * maxPeriod * Unit + base),
         minPeriod * Unit)

Static(found) ==
  /\ periodPhase = "polling" /\ ~ Dynamic(minPeriod, maxPeriod)
  /\ returned' = maxPeriod
  /\ completed' = found
  /\ UNCHANGED <<periodPhase, envar, minPeriod, maxPeriod, period, base, misses>>

Miss ==
  /\ periodPhase = "polling" /\ Dynamic(minPeriod, maxPeriod)
  /\ IF misses + 1 < Tolerance
     THEN misses' = misses + 1 /\ UNCHANGED <<period, base>>
     ELSE misses' = 0 /\ Increase
  /\ Return
  /\ completed' = FALSE
  /\ UNCHANGED <<periodPhase, envar, minPeriod, maxPeriod>>

Hit ==
  /\ periodPhase = "polling" /\ Dynamic(minPeriod, maxPeriod)
  /\ misses' = 0
  /\ period' = Divided
  /\ Return
  /\ completed' = TRUE
  /\ UNCHANGED <<periodPhase, envar, minPeriod, maxPeriod, base>>

getPeriod(found) == Static(found) \/ (found /\ Hit) \/ (~ found /\ Miss)

(***************************************************************************)
(* Properties.                                                             *)
(***************************************************************************)
Adapting == periodPhase = "polling" /\ Dynamic(minPeriod, maxPeriod)

InRange ==
  /\ minPeriod * Unit <= period /\ period <= maxPeriod * Unit
  /\ base <= maxPeriod * Unit   \* _factor <= 2.0

(***************************************************************************)
(* PeriodInRange: for every setting the constructor accepts whose maximum  *)
(* is not below MinBase, the period stays between the minimum and the      *)
(* maximum and the factor between 1.5 and 2, as the two assertions at the  *)
(* end of run say, after any history of hits and misses.                   *)
(***************************************************************************)
PeriodInRange == Adapting /\ maxPeriod >= MinBase => InRange

(***************************************************************************)
(* PeriodAdapts: when nothing completes any more the polling task backs    *)
(* off to the maximum period, also from a period of 0; when every check    *)
(* completes something it speeds up to the minimum.                        *)
(***************************************************************************)
PeriodAdapts ==
  /\ <>[](Adapting /\ maxPeriod >= MinBase /\ ~ completed) => <>[](returned = maxPeriod)
  /\ <>[](Adapting /\ completed) => <>[](returned = minPeriod)

=============================================================================
