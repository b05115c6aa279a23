------------------------- MODULE BoostLockFreeQueue -------------------------
(***************************************************************************)
(* BoostLockFreeQueue as the pre-queue of the collectives, together with   *)
(* the pool its operations come from and the CPUs.  A task allocates an    *)
(* operation (module Allocator) and pushes it; the polling task pops,      *)
(* issues and frees it.  The queue is a ring with a read and a write       *)
(* index; _adderMutex makes its producers one.  A producer that finds the  *)
(* ring full spins, with the mutex, on its CPU (SpinWait only pauses), so  *)
(* the polling task can make room only if it gets a CPU.                   *)
(***************************************************************************)
EXTENDS Allocator, Sequences

CONSTANTS
  None,          \* content of a ring cell never written
  Size,          \* elements the queue holds at most
  FullFailure,   \* TAMPI_QUEUES_FULL_FAILURE
  MaxPush        \* bound on the operations processed

ASSUME QueueAssumption ==
  /\ Size \in Nat \ {0} /\ MaxPush \in Nat
  /\ FullFailure \in BOOLEAN /\ None \notin Objects

VARIABLES
  ring,      \* _queue's cells, one more than it holds elements
  readIdx, writeIdx,
  adder,     \* the CPU that holds _adderMutex
  step,      \* where each CPU is in push
  op,        \* the object it is pushing
  pollCPU,   \* the CPU the polling task runs on
  polling,   \* where the polling task is
  popped,    \* the operations of its pop under way
  taken,     \* all the operations taken so far
  pushes     \* operations begun

pushVars == <<adder, step, op>>
popVars == <<pollCPU, polling, popped, taken>>
allVars == <<vars, ring, readIdx, writeIdx, pushVars, popVars, pushes>>

Cells == Size + 1

QueueInit ==
  /\ Init
  /\ ring = [i \in 0..Size |-> None]
  /\ readIdx = 0 /\ writeIdx = 0
  /\ adder = NoCPU
  /\ step = [c \in CPUs |-> "out"]
  /\ op = [c \in CPUs |-> None]
  /\ pollCPU = NoCPU /\ polling = "out"
  /\ popped = <<>> /\ taken = <<>>
  /\ pushes = 0

\* The elements between two indices of the ring.
Segment(from, to) == [i \in 1..((to - from) % Cells) |-> ring[(from + i - 1) % Cells]]

Full == (writeIdx + 1) % Cells = readIdx

Idle(c) == pc[c] = "out" /\ step[c] = "out" /\ pollCPU # c

(***************************************************************************)
(* A task on CPU c: alloc, and the push of what it returns.                *)
(***************************************************************************)
At(c, there) == ~ failed /\ step[c] = there

StepTo(c, there) == step' = [step EXCEPT ![c] = there]

AllocForPush(c) ==
  /\ Alloc(c)
  /\ IF inUse' = inUse
     THEN UNCHANGED <<op, step>>
     ELSE /\ op' = [op EXCEPT ![c] = CHOOSE o \in inUse' \ inUse : TRUE]
          /\ StepTo(c, "lock")
  /\ UNCHANGED <<ring, readIdx, writeIdx, adder, popVars>>

Begin(c) == Idle(c) /\ pushes < MaxPush /\ AllocForPush(c) /\ pushes' = pushes + 1

GoOn(c) == pc[c] # "out" /\ AllocForPush(c) /\ UNCHANGED pushes

LockAdderAnyway(c) ==   \* mutant
  /\ At(c, "lock")
  /\ adder' = c
  /\ StepTo(c, "write")
  /\ UNCHANGED <<vars, ring, readIdx, writeIdx, op, popVars, pushes>>

LockAdder(c) ==
  /\ At(c, "lock")
  /\ adder = NoCPU
  /\ adder' = c
  /\ StepTo(c, "write")
  /\ UNCHANGED <<vars, ring, readIdx, writeIdx, op, popVars, pushes>>

\* One attempt of pushCont or pushOrFail: write the cell, then move the index.
\* On a full ring the former tries again and the latter aborts.
PushWrite(c) ==
  /\ At(c, "write")
  /\ IF Full
     THEN /\ FullFailure
          /\ failed' = TRUE
          /\ UNCHANGED <<ring, step>>
     ELSE /\ ring' = [ring EXCEPT ![writeIdx] = op[c]]
          /\ StepTo(c, "publish")
          /\ UNCHANGED failed
  /\ UNCHANGED <<central, cache, holder, pc, got, inUse, readIdx, writeIdx, adder, op,
                 popVars, pushes>>

PushPublish(c) ==
  /\ At(c, "publish")
  /\ writeIdx' = (writeIdx + 1) % Cells
  /\ StepTo(c, "unlock")
  /\ UNCHANGED <<vars, ring, readIdx, adder, op, popVars, pushes>>

UnlockAdderNot(c) ==   \* mutant
  /\ At(c, "unlock")
  /\ op' = [op EXCEPT ![c] = None]
  /\ StepTo(c, "out")
  /\ UNCHANGED <<vars, ring, readIdx, writeIdx, adder, popVars, pushes>>

UnlockAdder(c) ==
  /\ At(c, "unlock")
  /\ adder' = NoCPU
  /\ op' = [op EXCEPT ![c] = None]
  /\ StepTo(c, "out")
  /\ UNCHANGED <<vars, ring, readIdx, writeIdx, popVars, pushes>>

Push(c) == LockAdder(c) \/ PushWrite(c) \/ PushPublish(c) \/ UnlockAdder(c)

(***************************************************************************)
(* The polling task: pop copies the elements and then moves the index;     *)
(* the operations go back to the pool once they are issued.                *)
(***************************************************************************)
TakeCopy ==
  /\ ~ failed /\ polling = "out"
  /\ \E c \in CPUs : Idle(c) /\ pollCPU' = c
  /\ \E n \in 1..((writeIdx - readIdx) % Cells) :
       popped' = Segment(readIdx, (readIdx + n) % Cells)
  /\ polling' = "popped"
  /\ UNCHANGED <<vars, ring, readIdx, writeIdx, pushVars, taken, pushes>>

TakePublish ==
  /\ ~ failed /\ polling = "popped"
  /\ readIdx' = (readIdx + Len(popped)) % Cells
  /\ taken' = taken \o popped
  /\ polling' = "issue"
  /\ UNCHANGED <<vars, ring, writeIdx, pushVars, pollCPU, popped, pushes>>

IssueAndFree ==
  /\ polling = "issue"
  /\ Free
  /\ inUse \ inUse' = {popped[i] : i \in DOMAIN popped}
  /\ popped' = <<>>
  /\ pollCPU' = NoCPU /\ polling' = "out"
  /\ UNCHANGED <<ring, readIdx, writeIdx, pushVars, taken, pushes>>

Polling == TakeCopy \/ TakePublish \/ IssueAndFree

Run(c) == GoOn(c) \/ Push(c)

QueueNext == (\E c \in CPUs : Begin(c) \/ Run(c)) \/ Polling

\* Running code goes on, the SpinLocks serve their waiters in turn, and the
\* runtime runs the polling task again and again when a CPU is idle.
QueueSpec ==
  /\ QueueInit /\ [][QueueNext]_allVars
  /\ \A c \in CPUs : SF_allVars(Run(c))
  /\ SF_allVars(Polling)

(***************************************************************************)
(* Properties.                                                             *)
(***************************************************************************)
Fifo == INSTANCE FifoQueues WITH
          Queues <- {"coll"}, Elements <- Objects, Bound <- Size,
          contents <- [q \in {"coll"} |-> Segment(readIdx, writeIdx)],
          taken <- [q \in {"coll"} |-> taken]

(***************************************************************************)
(* ImplementsFifo: the ring with its two indices, written by many tasks    *)
(* under _adderMutex and read by the polling task, is a FIFO of at most    *)
(* Size collectives, as module TicketManager assumes: none is lost,        *)
(* duplicated or reordered.                                                *)
(***************************************************************************)
ImplementsFifo == Fifo!FifoSpec

(***************************************************************************)
(* PushReturns: alloc and the push of a collective end, even when tasks    *)
(* occupy every CPU: the pool has no more objects than the queue has room, *)
(* so alloc aborts before a push could find the queue full and spin on the *)
(* CPU that the polling task needs.                                        *)
(***************************************************************************)
PushReturns ==
  \A c \in CPUs : (pc[c] # "out" \/ step[c] # "out")
                    ~> ((pc[c] = "out" /\ step[c] = "out") \/ failed)

=============================================================================
