------------------------------- MODULE Polling ------------------------------
(***************************************************************************)
(* The polling task with the two controls it is subject to: a call of      *)
(* Polling::polling checks the requests, at the end of which the capacity  *)
(* is evaluated, and returns the period that the number of completed       *)
(* requests gives.  The period control is a static object, constructed     *)
(* when the library is loaded; the ticket manager with the capacity        *)
(* control is constructed when it is first used.                           *)
(***************************************************************************)
EXTENDS TicketManagerCapacityCtrl, PollingPeriodCtrl

pollingVars == <<vars, periodVars>>

\* At most one of the two controls is configured by the user.
PollingInit ==
  /\ Init /\ PeriodInit
  /\ envar = Unset \/ (policy = Unset /\ timeoutVar = Unset)

Load == ConstructPeriod /\ UNCHANGED vars

FirstUse == periodPhase = "polling" /\ Construct /\ UNCHANGED periodVars

polling ==
  \/ (CallPolling \/ Insert \/ Check) /\ UNCHANGED periodVars
  \/ Evaluate /\ getPeriod(totalCompleted > 0)

Clock == Tick /\ UNCHANGED periodVars

Progress == MPIFinish /\ UNCHANGED periodVars

Program == Repeat /\ UNCHANGED periodVars

PollingNext == Load \/ FirstUse \/ polling \/ Clock \/ Progress \/ Program

\* The polling task is called again and again, time passes, and MPI finishes
\* what it can.
PollingSpec ==
  /\ PollingInit /\ [][PollingNext]_pollingVars
  /\ WF_pollingVars(Load) /\ WF_pollingVars(FirstUse) /\ WF_pollingVars(polling)
  /\ WF_pollingVars(Clock) /\ WF_pollingVars(Progress)

=============================================================================
