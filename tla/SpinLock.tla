------------------------------ MODULE SpinLock ------------------------------
(***************************************************************************)
(* SpinLock, the ticket-array lock that serialises the consumers of the    *)
(* allocator's central queue.  A thread draws a ticket from _head and      *)
(* spins on its own cell of _buffer until the previous holder writes the   *)
(* ticket there.  Every atomic access is a step.                           *)
(***************************************************************************)
EXTENDS Integers

CONSTANTS
  Threads,
  Size,        \* cells of _buffer
  MaxTicket    \* bound on the tickets drawn (the code's are 64 bits wide)

ASSUME SizeAssumption == Size \in Nat \ {0} /\ MaxTicket \in Nat

VARIABLES
  buffer,   \* _buffer
  nextIn,   \* _head: the next ticket to be drawn
  nextOut,  \* _next: the ticket of the holder
  pc,       \* where each thread is
  ticket    \* the local variable head of lock and try_lock

vars == <<buffer, nextIn, nextOut, pc, ticket>>

TypeOK ==
  /\ buffer \in [0..(Size - 1) -> Nat]
  /\ nextIn \in Nat
  /\ nextOut \in 0..nextIn
  /\ pc \in [Threads -> {"out", "spin", "try", "cas", "in", "store"}]
  /\ ticket \in [Threads -> Nat]

Init ==
  /\ buffer = [i \in 0..(Size - 1) |-> 0]
  /\ nextIn = 0
  /\ nextOut = 0
  /\ pc = [t \in Threads |-> "out"]
  /\ ticket = [t \in Threads |-> 0]

Goto(t, there) == pc' = [pc EXCEPT ![t] = there]

(***************************************************************************)
(* lock: draw a ticket, then spin on the ticket's cell.                    *)
(***************************************************************************)
Draw(t) ==
  /\ pc[t] = "out"
  /\ nextIn < MaxTicket
  /\ ticket' = [ticket EXCEPT ![t] = nextIn]
  /\ nextIn' = nextIn + 1
  /\ Goto(t, "spin")
  /\ UNCHANGED <<buffer, nextOut>>

MyTurnEarly(t) == buffer[ticket[t] % Size] <= ticket[t]   \* mutant

MyTurn(t) == buffer[ticket[t] % Size] = ticket[t]

Acquire(t) ==
  /\ pc[t] = "spin"
  /\ MyTurn(t)
  /\ Goto(t, "in")
  /\ UNCHANGED <<buffer, nextIn, nextOut, ticket>>

(***************************************************************************)
(* try_lock: read the next ticket, look at its cell, and draw it only if   *)
(* nobody has in the meantime.                                             *)
(***************************************************************************)
TryLoad(t) ==
  /\ pc[t] = "out"
  /\ nextIn < MaxTicket
  /\ ticket' = [ticket EXCEPT ![t] = nextIn]
  /\ Goto(t, "try")
  /\ UNCHANGED <<buffer, nextIn, nextOut>>

TryLook(t) ==
  /\ pc[t] = "try"
  /\ Goto(t, IF MyTurn(t) THEN "cas" ELSE "out")
  /\ UNCHANGED <<buffer, nextIn, nextOut, ticket>>

TryDraw(t) ==
  IF nextIn = ticket[t]
    THEN nextIn' = nextIn + 1 /\ Goto(t, "in")
    ELSE Goto(t, "out") /\ UNCHANGED nextIn

TryExchange(t) ==
  /\ pc[t] = "cas"
  /\ TryDraw(t)
  /\ UNCHANGED <<buffer, nextOut, ticket>>

(***************************************************************************)
(* unlock: the holder advances _next, which is not atomic, and publishes   *)
(* it in the cell of the next ticket.                                      *)
(***************************************************************************)
Advance(t) ==
  /\ pc[t] = "in"
  /\ nextOut' = nextOut + 1
  /\ Goto(t, "store")
  /\ UNCHANGED <<buffer, nextIn, ticket>>

CellSame == (nextOut - 1) % Size   \* mutant

Cell == nextOut % Size

Publish(t) ==
  /\ pc[t] = "store"
  /\ buffer' = [buffer EXCEPT ![Cell] = nextOut]
  /\ Goto(t, "out")
  /\ UNCHANGED <<nextIn, nextOut, ticket>>

Step(t) ==
  \/ Draw(t) \/ Acquire(t)
  \/ TryLoad(t) \/ TryLook(t) \/ TryExchange(t)
  \/ Advance(t) \/ Publish(t)

Next == \E t \in Threads : Step(t)

Spec == Init /\ [][Next]_vars

(***************************************************************************)
(* A thread that is spinning or holds the lock keeps running.              *)
(***************************************************************************)
Fairness == \A t \in Threads : WF_vars(Acquire(t) \/ Advance(t) \/ Publish(t))

FairSpec == Spec /\ Fairness

-----------------------------------------------------------------------------
Holding == {t \in Threads : pc[t] \in {"in", "store"}}

(***************************************************************************)
(* At most one thread is between a successful lock or try_lock and the end *)
(* of its unlock: the plain variable _next has one user at a time.         *)
(***************************************************************************)
MutualExclusion == \A t, u \in Holding : t = u

(***************************************************************************)
(* The lock is fair: nobody who draws a ticket is overtaken.               *)
(***************************************************************************)
NoOvertaking ==
  \A t, u \in Threads : pc[t] = "in" /\ pc[u] = "spin" => ticket[t] < ticket[u]

(***************************************************************************)
(* A thread that called lock gets the lock, although threads that share    *)
(* its cell wait too.                                                      *)
(***************************************************************************)
Served == \A t \in Threads : pc[t] = "spin" ~> pc[t] = "in"
=============================================================================
