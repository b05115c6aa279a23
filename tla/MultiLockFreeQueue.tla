------------------------- MODULE MultiLockFreeQueue -------------------------
(***************************************************************************)
(* MultiLockFreeQueue: a ring for each CPU, filled by the task that runs   *)
(* there and emptied by the polling task.  Each side keeps a count of the  *)
(* cells it may use and looks at the other side's index only when that is  *)
(* used up.  Every access to an index that the other side reads is a step. *)
(***************************************************************************)
EXTENDS Integers, Sequences

CONSTANTS
  NumQueues,    \* _queues
  Capacity,     \* _capacity: cells of a ring
  Requested,    \* how many elements a pop may ask for
  MaxPush       \* bound: elements pushed on a queue

Queues == 0..(NumQueues - 1)
Cells == 0..(Capacity - 1)
Elements == 1..MaxPush

ASSUME QueuesAssumption ==
  /\ NumQueues \in Nat \ {0} /\ Capacity \in Nat \ {0} /\ MaxPush \in Nat
  /\ Requested \subseteq Nat

VARIABLES
  policy,          \* MultiQueuePopPolicy, the template argument
  fullFailure,     \* TAMPI_QUEUES_FULL_FAILURE
  data,            \* _data
  head,            \* _head: the cell that is filled next
  tail,            \* _tail: the cell that is emptied next
  available,       \* _available: free cells as far as the producer knows
  remaining,       \* _remaining: filled cells as far as the consumer knows
  totalRemaining,  \* _totalRemaining
  current,         \* _current
  ppc,             \* where the producer of each queue is
  pushed,          \* how many elements it has pushed
  aborted,         \* ErrorHandler::fail was called
  cpc,             \* where the consumer is
  n,               \* the locals of pop
  queue,
  total,           \* the local of updateRemaining
  left,            \* the local array remaining
  perQueue,
  round,           \* the local q of the loop over the queues
  missing,
  i,
  values,          \* what unsafePop has copied
  taken            \* what the consumer has got from each queue

settings == <<policy, fullFailure>>
producerVars == <<available, ppc, pushed, aborted>>
cacheVars == <<remaining, totalRemaining, current>>
localVars == <<left, perQueue, round, missing>>
popVars == <<cpc, n, queue, total, i, values, taken>>
multiVars == <<settings, data, head, tail, producerVars, cacheVars, localVars, popVars>>

MultiInit ==
  /\ policy \in {"CyclicRoundRobin", "BlockRoundRobin"} /\ fullFailure \in BOOLEAN
  /\ data = [q \in Queues |-> [c \in Cells |-> 0]]
  /\ head = [q \in Queues |-> 0] /\ tail = [q \in Queues |-> 0]
  /\ available = [q \in Queues |-> 0] /\ remaining = [q \in Queues |-> 0]
  /\ totalRemaining = 0 /\ current = 0
  /\ ppc = [q \in Queues |-> "idle"]
  /\ pushed = [q \in Queues |-> 0] /\ aborted = FALSE
  /\ cpc = "idle" /\ n = 0 /\ queue = 0 /\ total = 0
  /\ left = [q \in Queues |-> 0] /\ perQueue = 0 /\ round = 0 /\ missing = 0
  /\ i = 0 /\ values = <<>> /\ taken = [q \in Queues |-> <<>>]

-----------------------------------------------------------------------------
Lesser(a, b) == IF a <= b THEN a ELSE b

GetRemaining(q) ==
  IF tail[q] <= head[q] THEN head[q] - tail[q] ELSE head[q] - tail[q] + Capacity

GetAvailableAll(q) == Capacity - GetRemaining(q)   \* mutant

GetAvailable(q) == Capacity - (GetRemaining(q) + 1)

Forward(cell, m) == (cell + m) % Capacity

NextQueue(q) == (q + 1) % NumQueues

(***************************************************************************)
(* push: when the cached count is used up, look at the tail.  A push on a  *)
(* full queue fails or spins.                                              *)
(***************************************************************************)
Push(q) ==
  /\ ppc[q] = "idle" /\ pushed[q] < MaxPush
  /\ available' = [available EXCEPT ![q] = IF @ = 0 THEN GetAvailable(q) ELSE @]
  /\ IF available'[q] = 0
       THEN aborted' = fullFailure /\ UNCHANGED ppc
       ELSE ppc' = [ppc EXCEPT ![q] = "write"] /\ UNCHANGED aborted
  /\ UNCHANGED <<data, head, tail, pushed, cacheVars, localVars, popVars>>

(***************************************************************************)
(* unsafePush of one element: fill the cell, then publish the head.        *)
(***************************************************************************)
FillCell(q) ==
  /\ ppc[q] = "write"
  /\ available' = [available EXCEPT ![q] = @ - 1]
  /\ data' = [data EXCEPT ![q][head[q]] = pushed[q] + 1]
  /\ ppc' = [ppc EXCEPT ![q] = "store"]
  /\ UNCHANGED <<head, tail, pushed, aborted, cacheVars, localVars, popVars>>

StoreHead(q) ==
  /\ ppc[q] = "store"
  /\ head' = [head EXCEPT ![q] = Forward(@, 1)]
  /\ pushed' = [pushed EXCEPT ![q] = @ + 1]
  /\ ppc' = [ppc EXCEPT ![q] = "idle"]
  /\ UNCHANGED <<data, tail, available, aborted, cacheVars, localVars, popVars>>

Produce(q) == Push(q) \/ FillCell(q) \/ StoreHead(q)

-----------------------------------------------------------------------------
(***************************************************************************)
(* Both policies, once it is known how many elements there are.            *)
(***************************************************************************)
PerQueueAll(m) == m   \* mutant

PerQueue(m) == IF m >= NumQueues THEN m \div NumQueues ELSE 1

BeginShare(m) ==
  /\ n' = m
  /\ i' = 0
  /\ queue' = current
  /\ IF policy = "CyclicRoundRobin"
       THEN /\ cpc' = "share"
            /\ left' = remaining' /\ missing' = m
            /\ perQueue' = PerQueue(m) /\ round' = 0
       ELSE cpc' = "pop" /\ UNCHANGED localVars

Deducted(count, m) == count - m

Pop(m) ==
  /\ cpc = "idle" /\ m > 0
  /\ UNCHANGED remaining
  /\ IF totalRemaining < m
       THEN cpc' = "update" /\ n' = m /\ queue' = 0 /\ UNCHANGED <<i, totalRemaining, localVars>>
       ELSE BeginShare(m) /\ totalRemaining' = Deducted(totalRemaining, m)
  /\ UNCHANGED <<data, head, tail, producerVars, current, total, values, taken>>

(***************************************************************************)
(* updateRemaining, one head at a time.                                    *)
(***************************************************************************)
ClampedNever(m, count) == m   \* mutant

Clamped(m, count) == Lesser(m, count)

UpdateRemaining ==
  /\ cpc = "update"
  /\ LET val == GetRemaining(queue)
         sum == total + val
     IN  /\ remaining' = [remaining EXCEPT ![queue] = val]
         /\ IF queue + 1 \in Queues
              THEN /\ queue' = queue + 1 /\ total' = sum
                   /\ UNCHANGED <<totalRemaining, cpc, n, i, localVars>>
              ELSE /\ total' = 0
                   /\ IF sum = 0
                        THEN /\ cpc' = "idle" /\ totalRemaining' = 0
                             /\ UNCHANGED <<n, queue, i, localVars>>
                        ELSE /\ BeginShare(Clamped(n, sum))
                             /\ totalRemaining' = Deducted(sum, Clamped(n, sum))
  /\ UNCHANGED <<data, head, tail, producerVars, current, values, taken>>

(***************************************************************************)
(* cyclicRoundRobinPop shares the elements out: rounds over the queues,    *)
(* each of which gives up to perQueue elements in a round.                 *)
(***************************************************************************)
Share ==
  /\ cpc = "share"
  /\ IF missing = 0
       THEN cpc' = "pop" /\ UNCHANGED <<current, localVars>>
       ELSE IF round = NumQueues
         THEN perQueue' = PerQueue(missing) /\ round' = 0 /\ UNCHANGED <<current, left, missing, cpc>>
         ELSE LET avail == Lesser(left[current], perQueue)
              IN  /\ left' = [left EXCEPT ![current] = @ - avail]
                  /\ missing' = missing - avail
                  /\ current' = NextQueue(current)
                  /\ round' = round + 1
                  /\ UNCHANGED <<perQueue, cpc>>
  /\ UNCHANGED <<data, head, tail, producerVars, remaining, totalRemaining, n, queue, total, i, values, taken>>

(***************************************************************************)
(* The elements that the queue at hand gives.                              *)
(***************************************************************************)
Assigned ==
  IF policy = "CyclicRoundRobin"
    THEN remaining[queue] - left[queue]
    ELSE Lesser(remaining[queue], n - i)

(***************************************************************************)
(* unsafePop: copy the cells, then publish the tail.                       *)
(***************************************************************************)
CopyCells ==
  /\ cpc = "pop"
  /\ IF i < n
       THEN IF Assigned = 0
         THEN queue' = NextQueue(queue) /\ UNCHANGED <<remaining, values, cpc>>
         ELSE /\ remaining' = [remaining EXCEPT ![queue] = @ - Assigned]
              /\ values' = [j \in 1..Assigned |-> data[queue][Forward(tail[queue], j - 1)]]
              /\ cpc' = "store"
              /\ UNCHANGED queue
       ELSE cpc' = "idle" /\ UNCHANGED <<remaining, values, queue>>
  /\ current' = IF policy = "BlockRoundRobin" THEN queue' ELSE current
  /\ UNCHANGED <<data, head, tail, producerVars, totalRemaining, localVars, n, total, i, taken>>

StoreTail ==
  /\ cpc = "store"
  /\ tail' = [tail EXCEPT ![queue] = Forward(@, Len(values))]
  /\ i' = i + Len(values)
  /\ taken' = [taken EXCEPT ![queue] = @ \o values]
  /\ values' = <<>>
  /\ queue' = IF policy = "CyclicRoundRobin" THEN NextQueue(queue) ELSE queue
  /\ cpc' = "pop"
  /\ UNCHANGED <<data, head, producerVars, cacheVars, localVars, n, total>>

Consume ==
  /\ ~aborted
  /\ UpdateRemaining \/ Share \/ CopyCells \/ StoreTail
  /\ UNCHANGED settings

MultiNext ==
  /\ ~aborted
  /\ UNCHANGED settings
  /\ \/ \E q \in Queues : Produce(q)
     \/ \E m \in Requested : Pop(m)
     \/ Consume

MultiSpec == MultiInit /\ [][MultiNext]_multiVars

(***************************************************************************)
(* The polling task keeps running while it is in pop.                      *)
(***************************************************************************)
FairMultiSpec == MultiSpec /\ WF_multiVars(Consume)

-----------------------------------------------------------------------------
(***************************************************************************)
(* A stale count is too small, never too large: the consumer copies filled *)
(* cells only and the producer fills free cells only, one cell always      *)
(* staying free.                                                           *)
(***************************************************************************)
StaleIsSafe ==
  \A q \in Queues :
    LET copying == IF cpc = "store" /\ queue = q THEN Len(values) ELSE 0
        filling == IF ppc[q] = "store" THEN 1 ELSE 0
    IN  /\ remaining[q] + copying <= GetRemaining(q)
        /\ available[q] + filling + GetRemaining(q) < Capacity

(***************************************************************************)
(* The cyclic policy is fair: a queue that has elements left has given at  *)
(* most one less than any other.                                           *)
(***************************************************************************)
CyclicFair ==
  policy = "CyclicRoundRobin" /\ cpc = "pop" /\ i = 0 /\ values = <<>> =>
    \A p, q \in Queues : left[q] > 0 => remaining[p] - left[p] <= remaining[q] - left[q] + 1

(***************************************************************************)
(* A pop returns: its loops find the elements that the counts promise.     *)
(***************************************************************************)
PopReturns == cpc # "idle" ~> cpc = "idle" \/ aborted

(***************************************************************************)
(* Every ring is a FIFO of Capacity - 1 elements, whatever the producers   *)
(* and the consumer do at the same time.                                   *)
(***************************************************************************)
Contents == [q \in Queues |-> [j \in 1..GetRemaining(q) |-> data[q][Forward(tail[q], j - 1)]]]

Fifos == INSTANCE FifoQueues WITH Bound <- Capacity - 1, contents <- Contents

ImplementsFifos == Fifos!FifoSpec
=============================================================================
