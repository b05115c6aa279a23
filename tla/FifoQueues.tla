----------------------------- MODULE FifoQueues -----------------------------
(***************************************************************************)
(* What module TicketManager takes the P2P pre-queues for: a bounded FIFO  *)
(* per CPU.                                                                *)
(***************************************************************************)
EXTENDS Integers, Sequences

CONSTANTS Queues, Elements, Bound

VARIABLES
  contents,  \* what each queue holds
  taken      \* what was taken from each queue so far

fifoVars == <<contents, taken>>

FifoInit ==
  /\ contents = [q \in Queues |-> <<>>]
  /\ taken = [q \in Queues |-> <<>>]

Put(q, e) ==
  /\ Len(contents[q]) < Bound
  /\ contents' = [contents EXCEPT ![q] = Append(@, e)]
  /\ UNCHANGED taken

Take(q, n) ==
  /\ contents' = [contents EXCEPT ![q] = SubSeq(@, n + 1, Len(@))]
  /\ taken' = [taken EXCEPT ![q] = @ \o SubSeq(contents[q], 1, n)]

FifoNext ==
  \E q \in Queues :
    \/ \E e \in Elements : Put(q, e)
    \/ \E n \in 1..Len(contents[q]) : Take(q, n)

FifoSpec == FifoInit /\ [][FifoNext]_fifoVars
=============================================================================
