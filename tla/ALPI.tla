-------------------------------- MODULE ALPI --------------------------------
(***************************************************************************)
(* The tasking runtime behind the ALPI interface, as far as the library    *)
(* relies on it (src/common/TaskingModel.hpp and TaskContext.hpp call it): *)
(* a task runs, blocks, finishes its body, and completes once its body is  *)
(* finished and its external events have all been fulfilled.  The runtime  *)
(* itself is external; the operators below are what TaskingModel's         *)
(* wrappers make it do.                                                    *)
(***************************************************************************)
EXTENDS Integers

CONSTANT Tasks

VARIABLES
  task,     \* the runtime's state of each task
  events,   \* the external events each task still waits for
  token     \* whether an unblock arrived before the block it answers

alpiVars == <<task, events, token>>

TaskState == {"running", "blocked", "finished", "completed"}

ALPIType ==
  /\ task \in [Tasks -> TaskState]
  /\ events \in [Tasks -> Nat]
  /\ token \in [Tasks -> BOOLEAN]

ALPIInit ==
  /\ task = [t \in Tasks |-> "running"]
  /\ events = [t \in Tasks |-> 0]
  /\ token = [t \in Tasks |-> FALSE]

(***************************************************************************)
(* alpi_task_events_increase: only the task itself calls it.               *)
(***************************************************************************)
IncreaseEvents(t) ==
  /\ events' = [events EXCEPT ![t] = @ + 1]
  /\ UNCHANGED <<task, token>>

(***************************************************************************)
(* alpi_task_events_decrease: fulfilling the last event of a task whose    *)
(* body has finished completes the task.                                   *)
(***************************************************************************)
DecreaseEvents(t) ==
  /\ events' = [events EXCEPT ![t] = @ - 1]
  /\ task' = [task EXCEPT ![t] =
                IF @ = "finished" /\ events[t] = 1 THEN "completed" ELSE @]
  /\ UNCHANGED token

(***************************************************************************)
(* alpi_task_block: returns at once if the unblock came first.             *)
(***************************************************************************)
BlockTask(t) ==
  /\ task' = [task EXCEPT ![t] = IF token[t] THEN @ ELSE "blocked"]
  /\ token' = [token EXCEPT ![t] = FALSE]
  /\ UNCHANGED events

(***************************************************************************)
(* alpi_task_unblock: resumes the task, or leaves the token its block will *)
(* find.                                                                   *)
(***************************************************************************)
UnblockTask(t) ==
  /\ IF task[t] = "blocked"
       THEN task' = [task EXCEPT ![t] = "running"] /\ UNCHANGED token
       ELSE token' = [token EXCEPT ![t] = TRUE] /\ UNCHANGED task
  /\ UNCHANGED events

(***************************************************************************)
(* The end of a task's body.                                               *)
(***************************************************************************)
FinishBody(t) ==
  /\ task[t] = "running"
  /\ task' = [task EXCEPT ![t] = IF events[t] = 0 THEN "completed" ELSE "finished"]
  /\ UNCHANGED <<events, token>>

=============================================================================
