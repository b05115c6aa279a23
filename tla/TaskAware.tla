------------------------------ MODULE TaskAware -----------------------------
(***************************************************************************)
(* What the library promises its user: a task calls its operations in      *)
(* order; an operation finishes once the operations it needs have been     *)
(* started; it is released (its task resumed, or its event fulfilled) only *)
(* after it has finished; a task does not get past a blocking operation,   *)
(* and does not complete, before the operations concerned are released.    *)
(***************************************************************************)
EXTENDS Naturals, Sequences

CONSTANTS Tasks, Ops, Program, Blocking, Needs

VARIABLES
  phase,      \* the phase of each operation
  completed   \* the tasks that have completed

taskAwareVars == <<phase, completed>>

TaskAwareInit ==
  /\ phase = [o \in Ops |-> "idle"]
  /\ completed = {}

(***************************************************************************)
(* Task t calls its i-th operation.                                        *)
(***************************************************************************)
Start(t, i) ==
  /\ phase[Program[t][i]] = "idle"
  /\ \A j \in 1..(i-1) :
       /\ phase[Program[t][j]] # "idle"
       /\ Program[t][j] \in Blocking => phase[Program[t][j]] = "released"
  /\ phase' = [phase EXCEPT ![Program[t][i]] = "started"]
  /\ UNCHANGED completed

FinishOperation(o) ==
  /\ phase[o] = "started"
  /\ \A n \in Needs[o] : phase[n] # "idle"
  /\ phase' = [phase EXCEPT ![o] = "finished"]
  /\ UNCHANGED completed

Release(o) ==
  /\ phase[o] = "finished"
  /\ phase' = [phase EXCEPT ![o] = "released"]
  /\ UNCHANGED completed

(***************************************************************************)
(* Releasing the last operation of a task whose body has ended completes   *)
(* the task in the same step.                                              *)
(***************************************************************************)
ReleaseLast(t, o) ==
  /\ phase[o] = "finished"
  /\ t \notin completed
  /\ phase' = [phase EXCEPT ![o] = "released"]
  /\ \A i \in 1..Len(Program[t]) : phase'[Program[t][i]] = "released"
  /\ completed' = completed \cup {t}

Complete(t) ==
  /\ t \notin completed
  /\ \A i \in 1..Len(Program[t]) : phase[Program[t][i]] = "released"
  /\ completed' = completed \cup {t}
  /\ UNCHANGED phase

TaskAwareNext ==
  \/ \E t \in Tasks : \E i \in 1..Len(Program[t]) : Start(t, i)
  \/ \E o \in Ops : FinishOperation(o) \/ Release(o)
  \/ \E t \in Tasks, o \in Ops : ReleaseLast(t, o)
  \/ \E t \in Tasks : Complete(t)

TaskAwareSpec == TaskAwareInit /\ [][TaskAwareNext]_taskAwareVars

=============================================================================
