--------------------------- MODULE LockFreeProofs ---------------------------
(***************************************************************************)
(* The structures that are shared without a mutex: the ticket lock of      *)
(* SpinLock excludes and is fair, and the rings of MultiLockFreeQueue are  *)
(* FIFOs although either side works with stale counts.                     *)
(***************************************************************************)
EXTENDS SpinLock, MultiLockFreeQueue, TLAPS

\* Zenon is tried first, briefly, and both provers get more time than by default.
USE ZenonT(4), SMTT(20), ZenonT(20)

(***************************************************************************)
(* Thread t has drawn a ticket and has not advanced _next for it.          *)
(***************************************************************************)
Drawn(t) == pc[t] \in {"spin", "in"}

(***************************************************************************)
(* The tickets drawn and not served are distinct and between _next and     *)
(* _head; no cell is ahead of _next, and while the holder has advanced     *)
(* _next without publishing it every cell is behind.                       *)
(***************************************************************************)
LockInv ==
  /\ TypeOK
  /\ \A t \in Threads : Drawn(t) => nextOut <= ticket[t] /\ ticket[t] < nextIn
  /\ \A t, u \in Threads : Drawn(t) /\ Drawn(u) /\ ticket[t] = ticket[u] => t = u
  /\ \A t \in Threads : pc[t] = "in" => ticket[t] = nextOut
  /\ \A t \in Threads : pc[t] = "cas" => ticket[t] <= nextOut
  /\ \A x \in 0..(Size - 1) : buffer[x] <= nextOut
  /\ \A t \in Threads : pc[t] = "store" =>
       /\ \A x \in 0..(Size - 1) : buffer[x] < nextOut
       /\ \A u \in Threads : pc[u] = "cas" => ticket[u] < nextOut
       /\ \A u \in Threads : pc[u] \in {"in", "store"} => u = t

(***************************************************************************)
(* A ticket has a cell of _buffer (the index head % Size of lock).         *)
(***************************************************************************)
LEMMA CellInRange ==
  ASSUME NEW m \in Nat
  PROVE  m % Size \in 0..(Size - 1)
BY SizeAssumption

(***************************************************************************)
(* The constructor establishes the invariant.                              *)
(***************************************************************************)
LEMMA LockInit == Init => LockInv
BY SizeAssumption DEF Init, LockInv, TypeOK, Drawn

(***************************************************************************)
(* Every atomic access of lock, try_lock and unlock preserves it.          *)
(***************************************************************************)
LEMMA LockStep ==
  ASSUME LockInv, [Next]_vars
  PROVE  LockInv'
<1> USE SizeAssumption DEF LockInv, TypeOK, Drawn, Goto
<1>1. ASSUME NEW t \in Threads, Draw(t) PROVE LockInv'
  BY <1>1 DEF Draw
<1>2. ASSUME NEW t \in Threads, Acquire(t) PROVE LockInv'
  <2>1. buffer[ticket[t] % Size] <= nextOut /\ (\A u \in Threads : pc[u] = "store" => buffer[ticket[t] % Size] < nextOut)
    BY CellInRange
  <2>2. ticket[t] = nextOut /\ (\A u \in Threads : pc[u] # "store")
    BY <1>2, <2>1 DEF Acquire, MyTurn
  <2>3. QED
    BY <1>2, <2>2 DEF Acquire
<1>3. ASSUME NEW t \in Threads, TryLoad(t) PROVE LockInv'
  BY <1>3 DEF TryLoad
<1>4. ASSUME NEW t \in Threads, TryLook(t) PROVE LockInv'
  <2>1. buffer[ticket[t] % Size] <= nextOut /\ (\A u \in Threads : pc[u] = "store" => buffer[ticket[t] % Size] < nextOut)
    BY CellInRange
  <2>2. QED
    BY <1>4, <2>1 DEF TryLook, MyTurn
<1>5. ASSUME NEW t \in Threads, TryExchange(t) PROVE LockInv'
  <2>1. CASE nextIn = ticket[t]
    <3>1. nextOut = nextIn /\ (\A u \in Threads : ~Drawn(u) /\ pc[u] # "store")
      BY <1>5, <2>1 DEF TryExchange
    <3>2. QED
      BY <1>5, <2>1, <3>1 DEF TryExchange, TryDraw
  <2>2. CASE nextIn # ticket[t]
    <3>1. UNCHANGED <<buffer, nextIn, nextOut, ticket>> /\ pc' = [pc EXCEPT ![t] = "out"]
      BY <1>5, <2>2 DEF TryExchange, TryDraw
    <3>2. QED
      BY <3>1
  <2>3. QED
    BY <2>1, <2>2
<1>6. ASSUME NEW t \in Threads, Advance(t) PROVE LockInv'
  BY <1>6 DEF Advance
<1>7. ASSUME NEW t \in Threads, Publish(t) PROVE LockInv'
  <2>1. Cell \in 0..(Size - 1)
    BY CellInRange DEF Cell
  <2>2. QED
    BY <1>7, <2>1 DEF Publish
<1>8. CASE UNCHANGED vars
  BY <1>8 DEF vars
<1>9. QED
  BY <1>1, <1>2, <1>3, <1>4, <1>5, <1>6, <1>7, <1>8 DEF Next, Step

(***************************************************************************)
(* The invariant holds in every reachable state of the lock.               *)
(***************************************************************************)
THEOREM LockInvariant == Spec => []LockInv
BY LockInit, LockStep, PTL DEF Spec

(***************************************************************************)
(* At most one thread is between lock (or a successful try_lock) and the   *)
(* end of unlock.                                                          *)
(***************************************************************************)
THEOREM LockExcludes == Spec => []MutualExclusion
<1>1. LockInv => MutualExclusion
  BY DEF LockInv, TypeOK, Drawn, MutualExclusion, Holding
<1>2. QED
  BY <1>1, LockInvariant, PTL

(***************************************************************************)
(* lock serves the threads in the order of their fetch_add.                *)
(***************************************************************************)
THEOREM LockIsFifo == Spec => []NoOvertaking
<1>1. LockInv => NoOvertaking
  BY DEF LockInv, TypeOK, Drawn, NoOvertaking
<1>2. QED
  BY <1>1, LockInvariant, PTL

-----------------------------------------------------------------------------
(***************************************************************************)
(* The rings of MultiLockFreeQueue.                                        *)
(*                                                                         *)
(* RingsInv: neither side's count promises more than the indices give, the *)
(* cell a producer has filled is beyond the elements in the queue, and     *)
(* what the consumer has copied are the oldest of them.  With the cyclic   *)
(* policy no queue is asked for more than it has.                          *)
(***************************************************************************)
PopSteps == {"idle", "update", "share", "pop", "store"}

RingsType ==
  /\ policy \in {"CyclicRoundRobin", "BlockRoundRobin"}
  /\ data \in [Queues -> [Cells -> Nat]]
  /\ head \in [Queues -> Cells] /\ tail \in [Queues -> Cells]
  /\ available \in [Queues -> Nat] /\ remaining \in [Queues -> Nat]
  /\ ppc \in [Queues -> {"idle", "write", "store"}] /\ pushed \in [Queues -> Nat]
  /\ cpc \in PopSteps
  /\ totalRemaining \in Int /\ total \in Nat /\ n \in Int /\ i \in Nat
  /\ queue \in Queues /\ current \in Queues
  /\ left \in [Queues -> Nat] /\ perQueue \in Nat /\ missing \in Int

Filling(q) == IF ppc[q] = "store" THEN 1 ELSE 0

Copying(q) == IF cpc = "store" /\ queue = q THEN Len(values) ELSE 0

ProducersInv ==
  \A q \in Queues :
    /\ ppc[q] = "write" => available[q] > 0
    /\ ppc[q] # "idle" => pushed[q] < MaxPush
    /\ ppc[q] = "store" => data[q][head[q]] = pushed[q] + 1
    /\ available[q] + Filling(q) + GetRemaining(q) < Capacity

ConsumerInv ==
  /\ \A q \in Queues :
       /\ remaining[q] + Copying(q) <= GetRemaining(q)
       /\ policy = "CyclicRoundRobin" /\ cpc \in {"share", "pop", "store"}
            => left[q] <= remaining[q]
  /\ cpc = "store" =>
       /\ values = [j \in 1..Len(values) |-> data[queue][Forward(tail[queue], j - 1)]]
       /\ Len(values) \in Nat \ {0}

RingsInv == RingsType /\ ProducersInv /\ ConsumerInv

(***************************************************************************)
(* ShareInv: within a round of cyclicRoundRobinPop the queues that still   *)
(* have elements have all given the same, a round's worth more if they     *)
(* were visited, and no queue has given more than they have; a round of    *)
(* more than one element per queue is never cut short.                     *)
(***************************************************************************)
Turn(q) == IF q >= queue THEN q - queue ELSE (q - queue) + NumQueues

Visited(q) == Turn(q) < round

GivenUpTo(level, q) == level + IF Visited(q) THEN perQueue ELSE 0

Levelled ==
  \E level \in Nat :
    \A q \in Queues :
      /\ remaining[q] - left[q] <= GivenUpTo(level, q)
      /\ left[q] > 0 => remaining[q] - left[q] = GivenUpTo(level, q)

ShareInv ==
  /\ policy = "CyclicRoundRobin" /\ cpc = "share" =>
       /\ round \in 0..NumQueues
       /\ current = (queue + round) % NumQueues
       /\ Levelled
       /\ perQueue > 1 => missing >= perQueue * (NumQueues - round)
  /\ CyclicFair

(***************************************************************************)
(* Indices of the rings and of the queues wrap at most once.               *)
(***************************************************************************)
LEMMA RemainderWraps ==
  ASSUME NEW d \in Nat \ {0}, NEW x \in Nat, x < 2 * d
  PROVE  x % d = IF x < d THEN x ELSE x - d
<1> DEFINE y == x % d
           k == x \div d
<1>1. y \in 0..(d - 1) /\ k \in Int /\ x = d * k + y
  OBVIOUS
<1> HIDE DEF y, k
<1>2. ASSUME k >= 2 PROVE FALSE
  <2>1. d * k >= d * 2
    BY <1>1, <1>2
  <2> QED
    BY <1>1, <2>1
<1>3. ASSUME k <= -1 PROVE FALSE
  <2>1. d * k <= d * (-1)
    BY <1>1, <1>3
  <2> QED
    BY <1>1, <2>1
<1>4. k = 0 \/ k = 1
  BY <1>1, <1>2, <1>3
<1>5. y = IF x < d THEN x ELSE x - d
  BY <1>1, <1>4
<1> QED
  BY <1>5 DEF y

(***************************************************************************)
(* Advancing an index by at most a turn of the ring: the remainder is a    *)
(* comparison and a subtraction.                                           *)
(***************************************************************************)
LEMMA ForwardIs ==
  ASSUME NEW cell \in Cells, NEW m \in 0..Capacity
  PROVE  /\ Forward(cell, m) = IF cell + m < Capacity THEN cell + m ELSE (cell + m) - Capacity
         /\ Forward(cell, m) \in Cells
<1> DEFINE x == cell + m
<1>1. x \in Nat /\ x < 2 * Capacity /\ Capacity \in Nat \ {0}
  BY QueuesAssumption DEF Cells
<1> HIDE DEF x
<1>2. x % Capacity = IF x < Capacity THEN x ELSE x - Capacity
  BY <1>1, RemainderWraps
<1>3. x % Capacity \in Cells
  BY <1>1, <1>2 DEF Cells
<1> QED
  BY <1>2, <1>3 DEF Forward, x

(***************************************************************************)
(* The queue after the last one is the first one.                          *)
(***************************************************************************)
LEMMA NextQueueIs ==
  ASSUME NEW q \in Queues
  PROVE  NextQueue(q) = (IF q + 1 = NumQueues THEN 0 ELSE q + 1) /\ NextQueue(q) \in Queues
<1> DEFINE x == q + 1
<1>1. x \in Nat /\ x < 2 * NumQueues /\ NumQueues \in Nat \ {0} /\ (x < NumQueues \/ x = NumQueues)
  BY QueuesAssumption DEF Queues
<1> HIDE DEF x
<1>2. x % NumQueues = IF x = NumQueues THEN 0 ELSE x
  <2>1. x % NumQueues = IF x < NumQueues THEN x ELSE x - NumQueues
    BY <1>1, RemainderWraps
  <2> QED
    BY <1>1, <2>1
<1>3. x % NumQueues \in Queues
  BY <1>1, <1>2 DEF Queues
<1> QED
  BY <1>2, <1>3 DEF NextQueue, x

(***************************************************************************)
(* getRemaining counts the cells from the tail up to the head.             *)
(***************************************************************************)
LEMMA RemainingIs ==
  ASSUME RingsType, NEW q \in Queues
  PROVE  /\ GetRemaining(q) \in 0..(Capacity - 1)
         /\ head[q] \in Cells /\ tail[q] \in Cells
         /\ Forward(tail[q], GetRemaining(q)) = head[q]
         /\ \A j \in 1..GetRemaining(q) : Forward(tail[q], j - 1) \in Cells \ {head[q]}
<1> USE QueuesAssumption
<1>1. head[q] \in 0..(Capacity - 1) /\ tail[q] \in 0..(Capacity - 1) /\ Capacity \in Nat \ {0}
  BY DEF RingsType, Cells
<1>2. GetRemaining(q) \in 0..(Capacity - 1)
  BY <1>1 DEF GetRemaining
<1>3. Forward(tail[q], GetRemaining(q)) = head[q]
  <2>1. GetRemaining(q) \in 0..Capacity /\ tail[q] \in Cells
    BY <1>1, <1>2 DEF Cells
  <2>2. Forward(tail[q], GetRemaining(q)) =
          IF tail[q] + GetRemaining(q) < Capacity THEN tail[q] + GetRemaining(q)
          ELSE (tail[q] + GetRemaining(q)) - Capacity
    BY <2>1, ForwardIs
  <2> QED
    BY <1>1, <1>2, <2>2 DEF GetRemaining
<1>4. ASSUME NEW j \in 1..GetRemaining(q) PROVE Forward(tail[q], j - 1) \in Cells \ {head[q]}
  <2> DEFINE k == j - 1
  <2>1. k \in 0..Capacity /\ k < GetRemaining(q) /\ tail[q] \in Cells
    BY <1>1, <1>2 DEF Cells
  <2> HIDE DEF k
  <2>2. /\ Forward(tail[q], k) \in Cells
        /\ Forward(tail[q], k) = IF tail[q] + k < Capacity THEN tail[q] + k
                                 ELSE (tail[q] + k) - Capacity
    BY <2>1, ForwardIs
  <2>3. Forward(tail[q], k) # head[q]
    BY <1>1, <1>2, <2>1, <2>2 DEF GetRemaining
  <2> QED
    BY <2>2, <2>3 DEF k
<1> QED
  BY <1>1, <1>2, <1>3, <1>4 DEF Cells

(***************************************************************************)
(* The constructed queues are empty and satisfy both invariants.           *)
(***************************************************************************)
LEMMA RingsInit == MultiInit => RingsInv /\ ShareInv
<1> SUFFICES ASSUME MultiInit PROVE RingsInv /\ ShareInv
  OBVIOUS
<1> USE QueuesAssumption
<1>1. 0 \in Cells /\ 0 \in Queues
  BY DEF Cells, Queues
<1>2. RingsType
  BY <1>1 DEF MultiInit, RingsType, PopSteps
<1>3. \A q \in Queues : GetRemaining(q) = 0
  BY DEF MultiInit, GetRemaining
<1>4. ProducersInv
  BY <1>3 DEF MultiInit, ProducersInv, Filling
<1>5. ConsumerInv
  BY <1>3 DEF MultiInit, ConsumerInv, Copying
<1>6. ShareInv
  BY DEF MultiInit, ShareInv, CyclicFair
<1> QED
  BY <1>2, <1>4, <1>5, <1>6 DEF RingsInv

(***************************************************************************)
(* push takes the tail as it is now: the cells it counts are free, and the *)
(* consumer can only free more.                                            *)
(***************************************************************************)
LEMMA PushRings ==
  ASSUME RingsInv, UNCHANGED settings, NEW q \in Queues, Push(q)
  PROVE  RingsInv'
<1> USE QueuesAssumption
<1>1. /\ ppc[q] = "idle" /\ pushed[q] < MaxPush
      /\ available' = [available EXCEPT ![q] = IF @ = 0 THEN GetAvailable(q) ELSE @]
      /\ IF available'[q] = 0 THEN UNCHANGED ppc ELSE ppc' = [ppc EXCEPT ![q] = "write"]
  BY DEF Push
<1>2. UNCHANGED <<policy, data, head, tail, pushed, remaining, totalRemaining, current, left,
                  perQueue, missing, cpc, n, queue, total, i, values>>
  BY DEF Push, settings, cacheVars, localVars, popVars
<1>3. \A p \in Queues : GetRemaining(p)' = GetRemaining(p) /\ Copying(p)' = Copying(p)
  BY <1>2 DEF GetRemaining, Copying
<1>4. GetRemaining(q) \in 0..(Capacity - 1) /\ available[q] \in Nat
  BY RemainingIs DEF RingsInv, RingsType
<1>5. /\ available'[q] = (IF available[q] = 0 THEN Capacity - (GetRemaining(q) + 1) ELSE available[q])
      /\ \A p \in Queues \ {q} : available'[p] = available[p]
  BY <1>1 DEF RingsInv, RingsType, GetAvailable
<1>6. available'[q] \in Nat /\ available'[q] + GetRemaining(q) < Capacity
  BY <1>1, <1>4, <1>5 DEF RingsInv, ProducersInv, Filling
<1>7. /\ ppc'[q] \in {"idle", "write"} /\ (ppc'[q] = "write" => available'[q] # 0)
      /\ \A p \in Queues \ {q} : ppc'[p] = ppc[p]
  BY <1>1 DEF RingsInv, RingsType
<1>8. RingsType'
  <2>1. available' \in [Queues -> Nat]
    BY <1>1, <1>5, <1>6 DEF RingsInv, RingsType
  <2>2. ppc' \in [Queues -> {"idle", "write", "store"}]
    BY <1>1 DEF RingsInv, RingsType
  <2> QED
    BY <1>2, <2>1, <2>2 DEF RingsInv, RingsType
<1>9. ProducersInv'
  <2> SUFFICES ASSUME NEW p \in Queues
               PROVE  /\ ppc'[p] = "write" => available'[p] > 0
                      /\ ppc'[p] # "idle" => pushed[p] < MaxPush
                      /\ ppc'[p] = "store" => data[p][head[p]] = pushed[p] + 1
                      /\ available'[p] + Filling(p)' + GetRemaining(p) < Capacity
    BY <1>2, <1>3 DEF ProducersInv
  <2>1. CASE p = q
    <3>1. Filling(p)' = 0
      BY <1>7, <2>1 DEF Filling
    <3> QED
      BY <1>1, <1>4, <1>6, <1>7, <2>1, <3>1
  <2>2. CASE p # q
    <3>1. Filling(p)' = Filling(p)
      BY <1>7, <2>2 DEF Filling
    <3> QED
      BY <1>5, <1>7, <2>2, <3>1 DEF RingsInv, ProducersInv
  <2> QED
    BY <2>1, <2>2
<1>10. ConsumerInv'
  BY <1>2, <1>3 DEF RingsInv, ConsumerInv
<1> QED
  BY <1>8, <1>9, <1>10 DEF RingsInv

(***************************************************************************)
(* The cell that unsafePush fills is none of those in the queue.           *)
(***************************************************************************)
LEMMA FillCellRings ==
  ASSUME RingsInv, UNCHANGED settings, NEW q \in Queues, FillCell(q)
  PROVE  RingsInv' /\ Contents' = Contents
<1> USE QueuesAssumption
<1>1. /\ ppc[q] = "write" /\ ppc' = [ppc EXCEPT ![q] = "store"]
      /\ available' = [available EXCEPT ![q] = @ - 1]
      /\ data' = [data EXCEPT ![q][head[q]] = pushed[q] + 1]
  BY DEF FillCell
<1>2. UNCHANGED <<policy, head, tail, pushed, remaining, totalRemaining, current, left,
                  perQueue, missing, cpc, n, queue, total, i, values>>
  BY DEF FillCell, settings, cacheVars, localVars, popVars
<1>3. \A p \in Queues : GetRemaining(p)' = GetRemaining(p) /\ Copying(p)' = Copying(p)
  BY <1>2 DEF GetRemaining, Copying
<1>4. /\ GetRemaining(q) \in 0..(Capacity - 1) /\ available[q] \in Nat /\ available[q] > 0
      /\ pushed[q] \in Nat /\ pushed[q] < MaxPush /\ head[q] \in Cells
      /\ available[q] + GetRemaining(q) < Capacity
  BY <1>1, RemainingIs DEF RingsInv, RingsType, ProducersInv, Filling
<1>5. /\ available'[q] = available[q] - 1 /\ ppc'[q] = "store"
      /\ \A p \in Queues \ {q} : available'[p] = available[p] /\ ppc'[p] = ppc[p]
  BY <1>1 DEF RingsInv, RingsType
<1>6. /\ data'[q][head[q]] = pushed[q] + 1
      /\ \A c \in Cells \ {head[q]} : data'[q][c] = data[q][c]
      /\ \A p \in Queues \ {q} : data'[p] = data[p]
  BY <1>1, <1>4 DEF RingsInv, RingsType
<1>7. RingsType'
  <2>1. available' \in [Queues -> Nat]
    BY <1>1, <1>4 DEF RingsInv, RingsType
  <2>2. ppc' \in [Queues -> {"idle", "write", "store"}]
    BY <1>1 DEF RingsInv, RingsType
  <2>3. data' \in [Queues -> [Cells -> Nat]]
    BY <1>1, <1>4 DEF RingsInv, RingsType
  <2> QED
    BY <1>2, <2>1, <2>2, <2>3 DEF RingsInv, RingsType
<1>8. ProducersInv'
  <2> SUFFICES ASSUME NEW p \in Queues
               PROVE  /\ ppc'[p] = "write" => available'[p] > 0
                      /\ ppc'[p] # "idle" => pushed[p] < MaxPush
                      /\ ppc'[p] = "store" => data'[p][head[p]] = pushed[p] + 1
                      /\ available'[p] + Filling(p)' + GetRemaining(p) < Capacity
    BY <1>2, <1>3 DEF ProducersInv
  <2>1. CASE p = q
    <3>1. Filling(p)' = 1
      BY <1>5, <2>1 DEF Filling
    <3> QED
      BY <1>4, <1>5, <1>6, <2>1, <3>1
  <2>2. CASE p # q
    <3>1. Filling(p)' = Filling(p)
      BY <1>5, <2>2 DEF Filling
    <3> QED
      BY <1>5, <1>6, <2>2, <3>1 DEF RingsInv, ProducersInv
  <2> QED
    BY <2>1, <2>2
<1>9. ASSUME NEW p \in Queues, NEW j \in 1..GetRemaining(p)
      PROVE  data'[p][Forward(tail[p], j - 1)] = data[p][Forward(tail[p], j - 1)]
  <2>1. Forward(tail[p], j - 1) \in Cells \ {head[p]}
    BY RemainingIs DEF RingsInv
  <2> QED
    BY <1>6, <2>1
<1>10. ConsumerInv'
  <2>1. ASSUME cpc = "store"
        PROVE  [j \in 1..Len(values) |-> data'[queue][Forward(tail[queue], j - 1)]]
                 = [j \in 1..Len(values) |-> data[queue][Forward(tail[queue], j - 1)]]
    <3>1. /\ queue \in Queues /\ remaining[queue] \in Nat /\ Len(values) \in Nat
          /\ remaining[queue] + Len(values) <= GetRemaining(queue)
          /\ GetRemaining(queue) \in Nat
      <4>1. queue \in Queues
        BY DEF RingsInv, RingsType
      <4>2. GetRemaining(queue) \in 0..(Capacity - 1)
        BY <4>1, RemainingIs DEF RingsInv
      <4> QED
        BY <2>1, <4>1, <4>2 DEF RingsInv, RingsType, ConsumerInv, Copying
    <3>2. \A j \in 1..Len(values) : j \in 1..GetRemaining(queue)
      BY <3>1
    <3> QED
      BY <1>9, <3>1, <3>2
  <2> QED
    BY <1>2, <1>3, <2>1 DEF RingsInv, ConsumerInv
<1>11. Contents' = Contents
  <2>1. \A p \in Queues :
          [j \in 1..GetRemaining(p) |-> data'[p][Forward(tail[p], j - 1)]]
            = [j \in 1..GetRemaining(p) |-> data[p][Forward(tail[p], j - 1)]]
    BY <1>9
  <2> QED
    BY <1>2, <1>3, <2>1 DEF Contents
<1> QED
  BY <1>7, <1>8, <1>10, <1>11 DEF RingsInv

(***************************************************************************)
(* What a ring holds, as a sequence with one element per cell between tail *)
(* and head.                                                               *)
(***************************************************************************)
LEMMA ContentsOf ==
  ASSUME RingsType, NEW q \in Queues
  PROVE  /\ Contents[q] = [j \in 1..GetRemaining(q) |-> data[q][Forward(tail[q], j - 1)]]
         /\ Contents[q] \in Seq(Nat) /\ Len(Contents[q]) = GetRemaining(q)
<1>1. Contents[q] = [j \in 1..GetRemaining(q) |-> data[q][Forward(tail[q], j - 1)]]
  BY DEF Contents
<1>2. GetRemaining(q) \in Nat
  BY RemainingIs, QueuesAssumption
<1>3. \A j \in 1..GetRemaining(q) : data[q][Forward(tail[q], j - 1)] \in Nat
  <2>1. \A j \in 1..GetRemaining(q) : Forward(tail[q], j - 1) \in Cells
    BY RemainingIs
  <2>2. \A c \in Cells : data[q][c] \in Nat
    BY DEF RingsType
  <2> QED
    BY <2>1, <2>2
<1> QED
  BY <1>1, <1>2, <1>3

(***************************************************************************)
(* Publishing the head puts the element at the end of its queue.           *)
(***************************************************************************)
LEMMA StoreHeadRings ==
  ASSUME RingsInv, UNCHANGED settings, NEW q \in Queues, StoreHead(q)
  PROVE  /\ RingsInv'
         /\ pushed[q] + 1 \in Elements /\ Len(Contents[q]) < Capacity - 1
         /\ Contents' = [Contents EXCEPT ![q] = Append(@, pushed[q] + 1)]
<1> USE QueuesAssumption
<1>1. /\ ppc[q] = "store" /\ ppc' = [ppc EXCEPT ![q] = "idle"]
      /\ head' = [head EXCEPT ![q] = Forward(@, 1)]
      /\ pushed' = [pushed EXCEPT ![q] = @ + 1]
  BY DEF StoreHead
<1>2. UNCHANGED <<policy, data, tail, available, remaining, totalRemaining, current, left,
                  perQueue, missing, cpc, n, queue, total, i, values>>
  BY DEF StoreHead, settings, cacheVars, localVars, popVars
<1>3. /\ GetRemaining(q) \in 0..(Capacity - 1) /\ available[q] \in Nat
      /\ available[q] + 1 + GetRemaining(q) < Capacity
      /\ pushed[q] \in Nat /\ pushed[q] < MaxPush /\ data[q][head[q]] = pushed[q] + 1
      /\ head[q] \in Cells /\ tail[q] \in Cells /\ Forward(tail[q], GetRemaining(q)) = head[q]
  BY <1>1, RemainingIs DEF RingsInv, RingsType, ProducersInv, Filling
<1>4. /\ head'[q] = Forward(head[q], 1) /\ ppc'[q] = "idle" /\ pushed'[q] = pushed[q] + 1
      /\ \A p \in Queues \ {q} : head'[p] = head[p] /\ ppc'[p] = ppc[p] /\ pushed'[p] = pushed[p]
  BY <1>1 DEF RingsInv, RingsType
<1>5. head'[q] \in Cells /\ GetRemaining(q)' = GetRemaining(q) + 1
  <2>1. 1 \in 0..Capacity
    OBVIOUS
  <2>2. /\ head'[q] \in Cells
        /\ head'[q] = IF head[q] + 1 < Capacity THEN head[q] + 1 ELSE (head[q] + 1) - Capacity
    <3>1. head[q] \in Cells /\ head'[q] = Forward(head[q], 1)
      BY <1>3, <1>4, Zenon
    <3>2. /\ Forward(head[q], 1) \in Cells
          /\ Forward(head[q], 1) = IF head[q] + 1 < Capacity THEN head[q] + 1
                                   ELSE (head[q] + 1) - Capacity
      BY <2>1, <3>1, ForwardIs, Zenon
    <3> QED
      BY <3>1, <3>2, Zenon
  <2>3. tail'[q] = tail[q]
    BY <1>2
  <2> QED
    BY <1>3, <2>2, <2>3 DEF GetRemaining, Cells
<1>6. \A p \in Queues \ {q} : GetRemaining(p)' = GetRemaining(p)
  BY <1>2, <1>4 DEF GetRemaining
<1>7. RingsType'
  <2>1. head' \in [Queues -> Cells]
    BY <1>1, <1>4, <1>5 DEF RingsInv, RingsType
  <2>2. ppc' \in [Queues -> {"idle", "write", "store"}] /\ pushed' \in [Queues -> Nat]
    BY <1>1, <1>3 DEF RingsInv, RingsType
  <2> QED
    BY <1>2, <2>1, <2>2 DEF RingsInv, RingsType
<1>8. ProducersInv'
  <2> SUFFICES ASSUME NEW p \in Queues
               PROVE  /\ ppc'[p] = "write" => available[p] > 0
                      /\ ppc'[p] # "idle" => pushed'[p] < MaxPush
                      /\ ppc'[p] = "store" => data[p][head'[p]] = pushed'[p] + 1
                      /\ available[p] + Filling(p)' + GetRemaining(p)' < Capacity
    BY <1>2 DEF ProducersInv
  <2>1. CASE p = q
    <3>1. Filling(p)' = 0
      BY <1>4, <2>1 DEF Filling
    <3> QED
      BY <1>3, <1>4, <1>5, <2>1, <3>1
  <2>2. CASE p # q
    <3>1. Filling(p)' = Filling(p)
      BY <1>4, <2>2 DEF Filling
    <3> QED
      BY <1>4, <1>6, <2>2, <3>1 DEF RingsInv, ProducersInv
  <2> QED
    BY <2>1, <2>2
<1>9. ConsumerInv'
  <2>1. ASSUME NEW p \in Queues PROVE remaining[p] + Copying(p) <= GetRemaining(p)'
    <3>1. remaining[p] + Copying(p) <= GetRemaining(p) /\ remaining[p] \in Nat
      BY DEF RingsInv, RingsType, ConsumerInv
    <3>2. Copying(p) \in Nat
      BY DEF Copying, RingsInv, ConsumerInv
    <3>3. GetRemaining(p)' = GetRemaining(p) \/ GetRemaining(p)' = GetRemaining(p) + 1
      BY <1>5, <1>6
    <3>4. GetRemaining(p) \in Nat
      BY RemainingIs DEF RingsInv
    <3> QED
      BY <3>1, <3>2, <3>3, <3>4
  <2>2. \A p \in Queues : Copying(p)' = Copying(p)
    BY <1>2 DEF Copying
  <2> QED
    BY <1>2, <2>1, <2>2 DEF RingsInv, ConsumerInv
<1>10. Contents' = [Contents EXCEPT ![q] = Append(@, pushed[q] + 1)]
  <2> DEFINE r == GetRemaining(q)
             cell(j) == data[q][Forward(tail[q], j - 1)]
  <2>1. Contents[q] = [j \in 1..r |-> cell(j)] /\ Contents[q] \in Seq(Nat) /\ Len(Contents[q]) = r
    BY ContentsOf DEF RingsInv
  <2>2. r \in Nat /\ cell(r + 1) = pushed[q] + 1
    BY <1>3
  <2>3. Contents'[q] = [j \in 1..(r + 1) |-> cell(j)]
    BY <1>2, <1>5 DEF Contents
  <2> HIDE DEF cell, r
  <2>4. Append(Contents[q], pushed[q] + 1) = [j \in 1..(r + 1) |-> cell(j)]
    <3>1. Append(Contents[q], pushed[q] + 1) = [j \in 1..(r + 1) |->
            IF j \in 1..r THEN Contents[q][j] ELSE pushed[q] + 1]
      BY <2>1, <2>2
    <3>2. ASSUME NEW j \in 1..(r + 1)
          PROVE  cell(j) = IF j \in 1..r THEN Contents[q][j] ELSE pushed[q] + 1
      <4>1. j \in 1..r \/ j = r + 1
        BY <2>2
      <4>2. r + 1 \notin 1..r
        BY <2>2
      <4> QED
        BY <2>1, <2>2, <4>1, <4>2
    <3> QED
      BY <3>1, <3>2
  <2>5. \A p \in Queues \ {q} : Contents'[p] = Contents[p]
    BY <1>2, <1>6 DEF Contents
  <2> QED
    BY <2>3, <2>4, <2>5 DEF Contents
<1>11. pushed[q] + 1 \in Elements /\ Len(Contents[q]) < Capacity - 1
  <2>1. Len(Contents[q]) = GetRemaining(q)
    BY ContentsOf DEF RingsInv
  <2> QED
    BY <1>3, <2>1 DEF Elements
<1> QED
  BY <1>7, <1>8, <1>9, <1>10, <1>11 DEF RingsInv

(***************************************************************************)
(* A step of the consumer that publishes nothing leaves the producers and  *)
(* the indices alone.                                                      *)
(***************************************************************************)
LEMMA ConsumerQuiet ==
  ASSUME RingsInv, UNCHANGED <<data, head, tail, producerVars>>
  PROVE  /\ ProducersInv' /\ (\A q \in Queues : GetRemaining(q)' = GetRemaining(q))
         /\ UNCHANGED <<available, ppc, pushed>> /\ Contents' = Contents
<1>1. UNCHANGED <<available, ppc, pushed>>
  BY DEF producerVars
<1>2. \A q \in Queues : GetRemaining(q)' = GetRemaining(q) /\ Filling(q)' = Filling(q)
  BY <1>1 DEF GetRemaining, Filling
<1>3. ProducersInv'
  BY <1>1, <1>2 DEF RingsInv, ProducersInv
<1>4. Contents' = Contents
  BY <1>2 DEF Contents
<1> QED
  BY <1>1, <1>2, <1>3, <1>4

(***************************************************************************)
(* A round asks for at least one element per queue, and for more than one  *)
(* only when a whole round of that size fits in what is missing.           *)
(***************************************************************************)
LEMMA PerQueueIs ==
  ASSUME NEW m \in Int
  PROVE  PerQueue(m) \in Nat \ {0} /\ (PerQueue(m) > 1 => m >= PerQueue(m) * NumQueues)
<1> DEFINE N == NumQueues
<1>1. N \in Nat \ {0}
  BY QueuesAssumption
<1>2. CASE m >= N
  <2> DEFINE k == m \div N
  <2>1. PerQueue(m) = k
    BY <1>2 DEF PerQueue
  <2>2. k \in Int /\ m % N \in 0..(N - 1) /\ m = N * k + (m % N)
    BY <1>1
  <2> HIDE DEF k
  <2>3. ASSUME k <= 0 PROVE FALSE
    <3>1. N * k <= 0
      BY <1>1, <2>2, <2>3
    <3> QED
      BY <1>1, <1>2, <2>2, <3>1
  <2>4. N * k = k * N /\ N * k \in Int
    BY <1>1, <2>2
  <2> QED
    BY <2>1, <2>2, <2>3, <2>4
<1>3. CASE ~(m >= N)
  BY <1>3 DEF PerQueue
<1> QED
  BY <1>2, <1>3

(***************************************************************************)
(* What pop knows when it starts to share out m elements: the counts are   *)
(* those of the queues, and nobody has given anything.                     *)
(***************************************************************************)
LEMMA BeginShareInv ==
  ASSUME RingsInv, NEW m \in Int, UNCHANGED <<policy, current, data, head, tail, producerVars>>,
         remaining' \in [Queues -> Nat], \A q \in Queues : remaining'[q] <= GetRemaining(q),
         totalRemaining' \in Int, total' \in Nat, BeginShare(m)
  PROVE  RingsInv' /\ ShareInv'
<1> USE QueuesAssumption
<1>1. n' = m /\ i' = 0 /\ queue' = current /\ current \in Queues
  BY DEF BeginShare, RingsInv, RingsType
<1>2. /\ ProducersInv' /\ (\A q \in Queues : GetRemaining(q)' = GetRemaining(q))
      /\ UNCHANGED <<available, ppc, pushed>>
  BY ConsumerQuiet
<1>3. CASE policy = "CyclicRoundRobin"
  <2>1. /\ cpc' = "share" /\ left' = remaining' /\ missing' = m
        /\ perQueue' = PerQueue(m) /\ round' = 0
    BY <1>3 DEF BeginShare
  <2>2. RingsType'
    BY <1>1, <1>2, <2>1, PerQueueIs DEF RingsInv, RingsType, PopSteps
  <2>3. \A q \in Queues : Copying(q)' = 0 /\ remaining'[q] \in Nat
    BY <2>1 DEF Copying
  <2>4. ConsumerInv'
    BY <1>2, <2>1, <2>3 DEF ConsumerInv
  <2>5. \A q \in Queues : remaining'[q] - left'[q] = 0
    BY <2>1, <2>3
  <2>6. \A q \in Queues : ~Visited(q)'
    BY <1>1, <2>1 DEF Visited, Turn, Queues
  <2>7. Levelled'
    <3>1. \A q \in Queues : GivenUpTo(0, q)' = 0
      BY <2>6 DEF GivenUpTo
    <3>2. \A q \in Queues : /\ remaining'[q] - left'[q] <= GivenUpTo(0, q)'
                            /\ left'[q] > 0 => remaining'[q] - left'[q] = GivenUpTo(0, q)'
      BY <2>5, <3>1
    <3> QED
      BY <3>2 DEF Levelled
  <2>8. current' = (queue' + round') % NumQueues
    <3>1. current \in Nat /\ current < NumQueues /\ current < 2 * NumQueues /\ current + 0 = current
      BY <1>1 DEF Queues
    <3>2. current % NumQueues = current
      BY <3>1, RemainderWraps
    <3> QED
      BY <1>1, <2>1, <3>1, <3>2
  <2>9. perQueue' > 1 => missing' >= perQueue' * (NumQueues - round')
    <3>1. NumQueues - round' = NumQueues
      BY <2>1
    <3> QED
      BY <2>1, <3>1, PerQueueIs
  <2>10. ShareInv'
    BY <2>1, <2>7, <2>8, <2>9 DEF ShareInv, CyclicFair
  <2> QED
    BY <1>2, <2>2, <2>4, <2>10 DEF RingsInv
<1>4. CASE policy # "CyclicRoundRobin"
  <2>1. cpc' = "pop" /\ UNCHANGED <<left, perQueue, round, missing>>
    BY <1>4 DEF BeginShare, localVars
  <2>2. RingsType'
    BY <1>1, <1>2, <2>1 DEF RingsInv, RingsType, PopSteps
  <2>3. \A q \in Queues : Copying(q)' = 0 /\ remaining'[q] \in Nat
    BY <2>1 DEF Copying
  <2>4. ConsumerInv'
    BY <1>2, <1>4, <2>1, <2>3 DEF ConsumerInv
  <2>5. ShareInv'
    BY <1>4 DEF ShareInv, CyclicFair
  <2> QED
    BY <1>2, <2>2, <2>4, <2>5 DEF RingsInv
<1> QED
  BY <1>3, <1>4

(***************************************************************************)
(* A pop begins with the distribution when the cached total is enough for  *)
(* it, and with a refresh of the counts otherwise.                         *)
(***************************************************************************)
LEMMA PopInv ==
  ASSUME RingsInv, ShareInv, UNCHANGED settings, NEW m \in Requested, Pop(m)
  PROVE  RingsInv' /\ ShareInv'
<1> USE QueuesAssumption
<1>1. /\ cpc = "idle" /\ m \in Int
      /\ UNCHANGED <<policy, remaining, data, head, tail, producerVars, current, total, values>>
  BY DEF Pop, settings
<1>2. /\ ProducersInv' /\ (\A q \in Queues : GetRemaining(q)' = GetRemaining(q))
      /\ UNCHANGED <<available, ppc, pushed>>
  BY <1>1, ConsumerQuiet
<1>3. \A q \in Queues : remaining[q] \in Nat /\ remaining[q] <= GetRemaining(q)
  BY <1>1 DEF RingsInv, RingsType, ConsumerInv, Copying
<1>4. CASE totalRemaining < m
  <2>1. cpc' = "update" /\ n' = m /\ queue' = 0 /\ 0 \in Queues
        /\ UNCHANGED <<i, totalRemaining, left, perQueue, missing>>
    BY <1>4 DEF Pop, localVars, Queues
  <2>2. RingsType'
    BY <1>1, <1>2, <2>1 DEF RingsInv, RingsType, PopSteps
  <2>3. ConsumerInv'
    BY <1>1, <1>2, <1>3, <2>1 DEF ConsumerInv, Copying
  <2> QED
    BY <1>2, <2>1, <2>2, <2>3 DEF RingsInv, ShareInv, CyclicFair
<1>5. CASE ~(totalRemaining < m)
  <2>1. BeginShare(m) /\ totalRemaining' = totalRemaining - m
    BY <1>5 DEF Pop, Deducted
  <2>2. totalRemaining' \in Int /\ total' \in Nat /\ remaining' \in [Queues -> Nat]
    BY <1>1, <2>1 DEF RingsInv, RingsType
  <2>3. \A q \in Queues : remaining'[q] <= GetRemaining(q)
    BY <1>1, <1>3
  <2> QED
    BY <1>1, <2>1, <2>2, <2>3, BeginShareInv
<1> QED
  BY <1>4, <1>5

(***************************************************************************)
(* A count that updateRemaining takes can only become too small.           *)
(***************************************************************************)
LEMMA UpdateRemainingInv ==
  ASSUME RingsInv, ShareInv, UNCHANGED settings, UpdateRemaining
  PROVE  RingsInv' /\ ShareInv'
<1> USE QueuesAssumption
<1> DEFINE val == GetRemaining(queue)
           sum == total + val
<1>1. /\ cpc = "update" /\ remaining' = [remaining EXCEPT ![queue] = val]
      /\ UNCHANGED <<policy, data, head, tail, producerVars, current, values>>
  BY DEF UpdateRemaining, settings
<1>2. /\ ProducersInv' /\ (\A q \in Queues : GetRemaining(q)' = GetRemaining(q))
      /\ UNCHANGED <<available, ppc, pushed>>
  BY <1>1, ConsumerQuiet
<1>3. queue \in Queues /\ val \in Nat /\ sum \in Nat
  <2>1. queue \in Queues /\ total \in Nat
    BY DEF RingsInv, RingsType
  <2>2. val \in 0..(Capacity - 1)
    BY <2>1, RemainingIs DEF RingsInv
  <2> QED
    BY <2>1, <2>2
<1>4. remaining' \in [Queues -> Nat] /\ \A q \in Queues : remaining'[q] <= GetRemaining(q)
  <2>1. remaining'[queue] = val /\ \A q \in Queues \ {queue} : remaining'[q] = remaining[q]
    BY <1>1, <1>3 DEF RingsInv, RingsType
  <2>2. \A q \in Queues : remaining[q] \in Nat /\ remaining[q] <= GetRemaining(q)
    BY <1>1 DEF RingsInv, RingsType, ConsumerInv, Copying
  <2>3. remaining' \in [Queues -> Nat]
    BY <1>1, <1>3 DEF RingsInv, RingsType
  <2> QED
    BY <1>3, <2>1, <2>2, <2>3
<1>5. \A q \in Queues : remaining'[q] \in Nat
  BY <1>4
<1> HIDE DEF val, sum
<1>6. CASE queue + 1 \in Queues
  <2>1. queue' = queue + 1 /\ total' = sum
        /\ UNCHANGED <<totalRemaining, cpc, n, i, left, perQueue, missing>>
    BY <1>6 DEF UpdateRemaining, localVars, val, sum
  <2>2. RingsType'
    BY <1>1, <1>2, <1>3, <1>4, <1>6, <2>1 DEF RingsInv, RingsType
  <2>3. ConsumerInv'
    BY <1>1, <1>2, <1>4, <1>5, <2>1 DEF ConsumerInv, Copying
  <2> QED
    BY <1>1, <1>2, <2>1, <2>2, <2>3 DEF RingsInv, ShareInv, CyclicFair
<1>7. CASE queue + 1 \notin Queues /\ sum = 0
  <2>1. total' = 0 /\ cpc' = "idle" /\ totalRemaining' = 0
        /\ UNCHANGED <<n, queue, i, left, perQueue, missing>>
    BY <1>7 DEF UpdateRemaining, localVars, val, sum
  <2>2. RingsType'
    BY <1>1, <1>2, <1>3, <1>4, <2>1 DEF RingsInv, RingsType, PopSteps
  <2>3. ConsumerInv'
    <3>1. \A q \in Queues : Copying(q)' = 0
      BY <2>1 DEF Copying
    <3>2. \A q \in Queues : remaining'[q] + Copying(q)' <= GetRemaining(q)'
      BY ONLY <1>2, <1>4, <1>5, <3>1
    <3>3. cpc' # "store" /\ cpc' \notin {"share", "pop", "store"}
      BY <2>1
    <3> QED
      BY <3>2, <3>3, Zenon DEF ConsumerInv
  <2> QED
    BY <1>2, <2>1, <2>2, <2>3 DEF RingsInv, ShareInv, CyclicFair
<1>8. CASE queue + 1 \notin Queues /\ sum # 0
  <2> DEFINE m == Clamped(n, sum)
  <2>1. total' = 0 /\ BeginShare(m) /\ totalRemaining' = sum - m
    BY <1>8 DEF UpdateRemaining, Deducted, val, sum
  <2>2. m \in Int
    BY <1>3 DEF Clamped, Lesser, RingsInv, RingsType
  <2> HIDE DEF m
  <2>3. totalRemaining' \in Int /\ total' \in Nat
    BY <1>3, <2>1, <2>2
  <2> QED
    BY <1>1, <1>4, <2>1, <2>2, <2>3, BeginShareInv
<1> QED
  BY <1>6, <1>7, <1>8

(***************************************************************************)
(* The queue at hand in a round is the one whose turn it is.               *)
(***************************************************************************)
LEMMA TurnIs ==
  ASSUME RingsType, round \in 0..NumQueues, current = (queue + round) % NumQueues
  PROVE  /\ \A q \in Queues : Turn(q) \in 0..(NumQueues - 1)
         /\ round = NumQueues => current = queue
         /\ round # NumQueues =>
              /\ Turn(current) = round
              /\ \A q \in Queues \ {current} : Turn(q) # round
              /\ NextQueue(current) = (queue + (round + 1)) % NumQueues
<1> USE QueuesAssumption
<1>1. /\ queue \in 0..(NumQueues - 1) /\ current \in 0..(NumQueues - 1)
      /\ NumQueues \in Nat \ {0} /\ Queues = 0..(NumQueues - 1)
  BY DEF RingsType, Queues
<1>2. \A q \in Queues : Turn(q) \in 0..(NumQueues - 1)
  BY <1>1 DEF Turn
<1>3. current = IF queue + round < NumQueues THEN queue + round ELSE (queue + round) - NumQueues
  <2> DEFINE x == queue + round
  <2>1. x \in Nat /\ x < 2 * NumQueues
    BY <1>1
  <2> HIDE DEF x
  <2>2. x % NumQueues = IF x < NumQueues THEN x ELSE x - NumQueues
    BY <1>1, <2>1, RemainderWraps
  <2> QED
    BY <2>2 DEF x
<1>4. round = NumQueues => current = queue
  BY <1>1, <1>3
<1>5. ASSUME round # NumQueues
      PROVE  /\ Turn(current) = round
             /\ \A q \in Queues \ {current} : Turn(q) # round
             /\ NextQueue(current) = (queue + (round + 1)) % NumQueues
  <2>1. Turn(current) = round
    BY <1>1, <1>3, <1>5 DEF Turn
  <2>2. ASSUME NEW q \in Queues \ {current} PROVE Turn(q) # round
    BY <1>1, <1>3, <1>5, <2>2 DEF Turn
  <2>3. NextQueue(current) = (queue + (round + 1)) % NumQueues
    <3> DEFINE x == queue + (round + 1)
    <3>1. x \in Nat /\ x < 2 * NumQueues
      BY <1>1, <1>5
    <3>2. NextQueue(current) = IF current + 1 = NumQueues THEN 0 ELSE current + 1
      BY <1>1, NextQueueIs
    <3>3. NextQueue(current) = IF x < NumQueues THEN x ELSE x - NumQueues
      BY <1>1, <1>3, <1>5, <3>2
    <3> HIDE DEF x
    <3>4. x % NumQueues = IF x < NumQueues THEN x ELSE x - NumQueues
      BY <1>1, <3>1, RemainderWraps
    <3> QED
      BY <3>3, <3>4 DEF x
  <2> QED
    BY <2>1, <2>2, <2>3
<1> QED
  BY <1>2, <1>4, <1>5

(***************************************************************************)
(* cyclicRoundRobinPop asks no queue for more than it has.                 *)
(***************************************************************************)
LEMMA ShareRings ==
  ASSUME RingsInv, UNCHANGED settings, Share
  PROVE  RingsInv'
<1>1. /\ cpc = "share"
      /\ UNCHANGED <<policy, data, head, tail, producerVars, remaining, totalRemaining, n, queue,
                     total, i, values>>
  BY DEF Share, settings
<1>2. /\ ProducersInv' /\ (\A q \in Queues : GetRemaining(q)' = GetRemaining(q))
      /\ UNCHANGED <<available, ppc, pushed>>
  BY <1>1, ConsumerQuiet
<1>3. \A q \in Queues : left[q] \in Nat /\ remaining[q] \in Nat /\ Copying(q) = 0
  BY <1>1 DEF RingsInv, RingsType, Copying
<1>4. /\ left' \in [Queues -> Nat] /\ perQueue' \in Nat /\ missing' \in Int /\ current' \in Queues
      /\ \A q \in Queues : left'[q] <= left[q]
      /\ cpc' \in {"share", "pop"}
  <2>1. CASE missing = 0 \/ round = NumQueues
    <3>1. UNCHANGED <<current, left, missing>> /\ cpc' \in {"share", "pop"}
      BY <1>1, <2>1 DEF Share, localVars
    <3>2. perQueue' \in Nat
      BY <2>1, PerQueueIs DEF Share, localVars, RingsInv, RingsType
    <3> QED
      BY <1>3, <3>1, <3>2 DEF RingsInv, RingsType
  <2>2. CASE missing # 0 /\ round # NumQueues
    <3> DEFINE avail == Lesser(left[current], perQueue)
    <3>1. /\ left' = [left EXCEPT ![current] = @ - avail] /\ missing' = missing - avail
          /\ current' = NextQueue(current) /\ UNCHANGED <<perQueue, cpc>>
      BY <2>2 DEF Share
    <3>2. current \in Queues /\ perQueue \in Nat /\ missing \in Int /\ left[current] \in Nat
      BY DEF RingsInv, RingsType
    <3>3. avail \in Nat /\ avail <= left[current]
      BY <3>2 DEF Lesser
    <3> HIDE DEF avail
    <3>4. /\ left'[current] = left[current] - avail
          /\ \A q \in Queues \ {current} : left'[q] = left[q]
      BY <3>1, <3>2 DEF RingsInv, RingsType
    <3>5. left' \in [Queues -> Nat]
      BY <3>1, <3>2, <3>3 DEF RingsInv, RingsType
    <3> QED
      BY <1>1, <1>3, <3>1, <3>2, <3>3, <3>4, <3>5, NextQueueIs
  <2> QED
    BY <2>1, <2>2
<1>5. RingsType'
  BY <1>1, <1>2, <1>4 DEF RingsInv, RingsType, PopSteps
<1>6. ConsumerInv'
  <2>1. \A q \in Queues : Copying(q)' = 0 /\ left'[q] \in Nat
    BY <1>4 DEF Copying
  <2>2. \A q \in Queues : policy = "CyclicRoundRobin" => left'[q] <= remaining[q]
    BY <1>1, <1>3, <1>4, <2>1 DEF RingsInv, ConsumerInv
  <2>3. \A q \in Queues : remaining[q] <= GetRemaining(q)
    BY <1>3 DEF RingsInv, ConsumerInv
  <2> QED
    <3>1. \A q \in Queues : remaining[q] \in Nat
      BY DEF RingsInv, RingsType
    <3>2. /\ remaining' = remaining /\ policy' = policy /\ cpc' # "store"
          /\ \A q \in Queues : GetRemaining(q)' = GetRemaining(q)
      BY <1>1, <1>2, <1>4
    <3>3. \A q \in Queues : remaining'[q] + Copying(q)' <= GetRemaining(q)'
      BY ONLY <2>1, <2>3, <3>1, <3>2
    <3> QED
      BY <2>2, <3>2, <3>3, Zenon DEF ConsumerInv
<1> QED
  BY <1>2, <1>5, <1>6 DEF RingsInv

(***************************************************************************)
(* When the sharing ends, a round of more than one element per queue has   *)
(* come to its end, so that nobody is more than one element ahead.         *)
(***************************************************************************)
LEMMA ShareEnds ==
  ASSUME RingsInv, ShareInv, policy = "CyclicRoundRobin", cpc = "share", missing = 0
  PROVE  \A p, q \in Queues : left[q] > 0 => remaining[p] - left[p] <= remaining[q] - left[q] + 1
<1> USE QueuesAssumption
<1>1. /\ round \in 0..NumQueues /\ current = (queue + round) % NumQueues /\ NumQueues \in Nat
      /\ perQueue > 1 => missing >= perQueue * (NumQueues - round)
      /\ perQueue \in Nat /\ RingsType
  BY DEF ShareInv, RingsInv, RingsType
<1>2. PICK level \in Nat :
        \A q \in Queues :
          /\ remaining[q] - left[q] <= GivenUpTo(level, q)
          /\ left[q] > 0 => remaining[q] - left[q] = GivenUpTo(level, q)
  BY DEF ShareInv, Levelled
<1>3. \A q \in Queues : remaining[q] \in Nat /\ left[q] \in Nat
  BY DEF RingsInv, RingsType
<1>4. CASE perQueue > 1
  <2>1. round = NumQueues
    <3>1. SUFFICES ASSUME round # NumQueues PROVE FALSE
      OBVIOUS
    <3> DEFINE d == NumQueues - round
    <3>2. d \in Nat \ {0}
      BY <1>1, <3>1
    <3> HIDE DEF d
    <3>3. perQueue * d >= perQueue
      BY <1>1, <3>2
    <3> QED
      BY <1>1, <1>4, <3>2, <3>3 DEF d
  <2>2. \A q \in Queues : GivenUpTo(level, q) = level + perQueue
    <3>1. \A q \in Queues : Turn(q) \in 0..(NumQueues - 1)
      BY <1>1, TurnIs
    <3>2. \A q \in Queues : Visited(q)
      BY <1>1, <2>1, <3>1 DEF Visited
    <3> QED
      BY <3>2 DEF GivenUpTo
  <2> QED
    BY <1>1, <1>2, <1>3, <2>2
<1>5. CASE ~(perQueue > 1)
  <2>1. \A q \in Queues : GivenUpTo(level, q) \in {level, level + 1}
    <3>1. perQueue = 0 \/ perQueue = 1
      BY <1>1, <1>5
    <3> QED
      BY <3>1 DEF GivenUpTo
  <2> QED
    BY <1>2, <1>3, <2>1
<1> QED
  BY <1>4, <1>5

(***************************************************************************)
(* A step of the distribution loop takes no more than a round's worth from *)
(* the queue it visits, so the queues stay level.                          *)
(***************************************************************************)
LEMMA ShareFair ==
  ASSUME RingsInv, ShareInv, UNCHANGED settings, Share
  PROVE  ShareInv'
<1> USE QueuesAssumption
<1>1. cpc = "share" /\ UNCHANGED <<policy, remaining, queue, i, values>>
  BY DEF Share, settings
<1>2. CASE policy # "CyclicRoundRobin"
  BY <1>1, <1>2 DEF ShareInv, CyclicFair
<1>3. CASE policy = "CyclicRoundRobin" /\ missing = 0
  <2>1. cpc' = "pop" /\ UNCHANGED left
    BY <1>3 DEF Share, localVars
  <2>2. \A p, q \in Queues : left[q] > 0 => remaining[p] - left[p] <= remaining[q] - left[q] + 1
    BY <1>1, <1>3, ShareEnds
  <2> QED
    BY <1>1, <2>1, <2>2 DEF ShareInv, CyclicFair
<1>4. ASSUME policy = "CyclicRoundRobin", missing # 0 PROVE ShareInv'
  <2>1. /\ round \in 0..NumQueues /\ current = (queue + round) % NumQueues
        /\ NumQueues \in Nat \ {0} /\ RingsType /\ perQueue \in Nat /\ missing \in Int
        /\ perQueue > 1 => missing >= perQueue * (NumQueues - round)
    BY <1>1, <1>4 DEF ShareInv, RingsInv, RingsType
  <2>2. PICK level \in Nat :
          \A q \in Queues :
            /\ remaining[q] - left[q] <= GivenUpTo(level, q)
            /\ left[q] > 0 => remaining[q] - left[q] = GivenUpTo(level, q)
    BY <1>1, <1>4 DEF ShareInv, Levelled
  <2>3. \A q \in Queues : Turn(q)' = Turn(q) /\ Turn(q) \in 0..(NumQueues - 1)
    BY <1>1, <2>1, TurnIs DEF Turn
  <2>4. CASE round = NumQueues
    <3>1. perQueue' = PerQueue(missing) /\ round' = 0 /\ UNCHANGED <<current, left, missing, cpc>>
      BY <1>4, <2>4 DEF Share
    <3>2. /\ round' \in 0..NumQueues
          /\ perQueue' > 1 => missing' >= perQueue' * (NumQueues - round')
      <4>1. NumQueues - round' = NumQueues
        BY <3>1
      <4>2. perQueue' > 1 => missing' >= perQueue' * NumQueues
        BY <2>1, <3>1, PerQueueIs
      <4> QED
        BY <3>1, <4>1, <4>2
    <3>3. current' = (queue' + round') % NumQueues
      <4>1. queue \in Nat /\ queue < NumQueues /\ queue < 2 * NumQueues /\ queue + 0 = queue
        BY <2>1 DEF RingsType, Queues
      <4>2. queue % NumQueues = queue
        BY <2>1, <4>1, RemainderWraps
      <4>3. current = queue
        BY <2>1, <2>4, TurnIs
      <4> QED
        BY <1>1, <3>1, <4>1, <4>2, <4>3
    <3>4. Levelled'
      <4>2. PICK up \in Nat : up = level + perQueue
        BY <2>1
      <4>1. \A q \in Queues : GivenUpTo(level, q) = up
        BY <2>1, <2>3, <2>4, <4>2 DEF GivenUpTo, Visited
      <4>3. \A q \in Queues : GivenUpTo(up, q)' = up
        <5>1. \A q \in Queues : ~Visited(q)'
          BY <2>3, <3>1 DEF Visited
        <5> QED
          BY <4>2, <5>1 DEF GivenUpTo
      <4>4. \A q \in Queues :
              /\ remaining'[q] - left'[q] <= GivenUpTo(up, q)'
              /\ left'[q] > 0 => remaining'[q] - left'[q] = GivenUpTo(up, q)'
        BY <1>1, <2>2, <3>1, <4>1, <4>3
      <4> QED
        BY <4>2, <4>4 DEF Levelled
    <3> QED
      BY <1>1, <3>1, <3>2, <3>3, <3>4 DEF ShareInv, CyclicFair
  <2>5. CASE round # NumQueues
    <3> DEFINE avail == Lesser(left[current], perQueue)
    <3>1. /\ left' = [left EXCEPT ![current] = @ - avail] /\ missing' = missing - avail
          /\ current' = NextQueue(current) /\ round' = round + 1 /\ UNCHANGED <<perQueue, cpc>>
      BY <1>4, <2>5 DEF Share
    <3>2. current \in Queues /\ left[current] \in Nat /\ remaining[current] \in Nat
      BY DEF RingsInv, RingsType
    <3>3. /\ avail \in Nat /\ avail <= left[current] /\ avail <= perQueue
          /\ left[current] - avail > 0 => avail = perQueue
      BY <2>1, <3>2 DEF Lesser
    <3> HIDE DEF avail
    <3>4. /\ left'[current] = left[current] - avail
          /\ \A q \in Queues \ {current} : left'[q] = left[q]
      BY <3>1, <3>2 DEF RingsInv, RingsType
    <3>5. /\ Turn(current) = round /\ \A q \in Queues \ {current} : Turn(q) # round
          /\ current' = (queue' + round') % NumQueues
      BY <1>1, <2>1, <2>5, <3>1, TurnIs
    <3>6. /\ round' \in 0..NumQueues
          /\ perQueue' > 1 => missing' >= perQueue' * (NumQueues - round')
      <4> DEFINE d == NumQueues - (round + 1)
      <4>1. d \in Nat /\ NumQueues - round = d + 1
        BY <2>1, <2>5
      <4> HIDE DEF d
      <4>2. perQueue * (d + 1) = perQueue * d + perQueue /\ perQueue * d \in Nat
        BY <2>1, <4>1
      <4>3. perQueue > 1 => missing - avail >= perQueue * d
        BY <2>1, <3>3, <4>1, <4>2
      <4> QED
        BY <2>1, <2>5, <3>1, <4>3 DEF d
    <3>7. /\ ~Visited(current) /\ \A q \in Queues \ {current} : Visited(q)' = Visited(q)
          /\ \A q \in Queues : q = current => Turn(q)' < round'
      BY <2>1, <2>3, <3>1, <3>2, <3>5 DEF Visited
    <3>8. \A q \in Queues \ {current} : GivenUpTo(level, q)' = GivenUpTo(level, q)
      BY <3>1, <3>7 DEF GivenUpTo
    <3>9. GivenUpTo(level, current) = level
      BY <3>7 DEF GivenUpTo
    <3>10. \A q \in Queues : q = current => GivenUpTo(level, q)' = level + perQueue
      BY <3>1, <3>7 DEF GivenUpTo, Visited
    <3>11. ASSUME NEW q \in Queues
           PROVE  /\ remaining'[q] - left'[q] <= GivenUpTo(level, q)'
                  /\ left'[q] > 0 => remaining'[q] - left'[q] = GivenUpTo(level, q)'
      <4>1. CASE q = current
        <5>1. /\ remaining[q] - left[q] <= level
              /\ left[q] > 0 => remaining[q] - left[q] = level
          BY <2>2, <3>9, <4>1
        <5>2. remaining'[q] = remaining[q] /\ left'[q] = left[q] - avail
          BY <1>1, <3>4, <4>1
        <5>3. GivenUpTo(level, q)' = level + perQueue
          BY <3>10, <4>1
        <5> QED
          BY <2>1, <3>2, <3>3, <4>1, <5>1, <5>2, <5>3
      <4>2. CASE q # current
        BY <1>1, <2>2, <3>4, <3>8, <4>2
      <4> QED
        BY <4>1, <4>2
    <3>12. Levelled'
      BY <3>11 DEF Levelled
    <3> QED
      BY <1>1, <3>1, <3>5, <3>6, <3>12 DEF ShareInv, CyclicFair
  <2> QED
    BY <2>4, <2>5
<1> QED
  BY <1>2, <1>3, <1>4

(***************************************************************************)
(* unsafePop copies cells between the tail and the head only.              *)
(***************************************************************************)
LEMMA CopyCellsInv ==
  ASSUME RingsInv, ShareInv, UNCHANGED settings, CopyCells
  PROVE  RingsInv' /\ ShareInv'
<1> USE QueuesAssumption
<1>1. /\ cpc = "pop"
      /\ UNCHANGED <<policy, data, head, tail, producerVars, totalRemaining, left, perQueue,
                     missing, n, total, i>>
      /\ current' = IF policy = "BlockRoundRobin" THEN queue' ELSE current
  BY DEF CopyCells, settings, localVars
<1>2. /\ ProducersInv' /\ (\A q \in Queues : GetRemaining(q)' = GetRemaining(q))
      /\ UNCHANGED <<available, ppc, pushed>>
  BY <1>1, ConsumerQuiet
<1>3. \A q \in Queues : /\ remaining[q] \in Nat /\ left[q] \in Nat
                        /\ remaining[q] <= GetRemaining(q) /\ GetRemaining(q) \in Nat
                        /\ policy = "CyclicRoundRobin" => left[q] <= remaining[q]
  <2>1. \A q \in Queues : GetRemaining(q) \in Nat
    BY RemainingIs DEF RingsInv
  <2>2. \A q \in Queues : remaining[q] \in Nat /\ left[q] \in Nat /\ Copying(q) = 0
    BY <1>1 DEF RingsInv, RingsType, Copying
  <2>3. \A q \in Queues : /\ remaining[q] + Copying(q) <= GetRemaining(q)
                          /\ policy = "CyclicRoundRobin" => left[q] <= remaining[q]
    BY <1>1 DEF RingsInv, ConsumerInv
  <2> QED
    BY ONLY <2>1, <2>2, <2>3
<1>4. queue \in Queues /\ NextQueue(queue) \in Queues /\ n \in Int /\ i \in Int
  BY NextQueueIs DEF RingsInv, RingsType
<1>5. CASE ~(i < n) \/ (i < n /\ Assigned = 0)
  <2>1. /\ UNCHANGED <<remaining, values>>
        /\ \/ cpc' = "pop" /\ queue' = NextQueue(queue)
           \/ cpc' = "idle" /\ queue' = queue
    BY <1>1, <1>5 DEF CopyCells
  <2>2. RingsType'
    BY <1>1, <1>2, <1>4, <2>1 DEF RingsInv, RingsType, PopSteps
  <2>3. ConsumerInv'
    <3>1. \A q \in Queues : Copying(q)' = 0
      BY <2>1 DEF Copying
    <3>2. \A q \in Queues : remaining[q] + 0 <= GetRemaining(q)
      BY <1>3
    <3> QED
      BY <1>1, <1>2, <1>3, <2>1, <3>1, <3>2 DEF ConsumerInv
  <2>4. ShareInv'
    BY <1>1, <2>1 DEF ShareInv, CyclicFair
  <2> QED
    BY <1>2, <2>2, <2>3, <2>4 DEF RingsInv
<1>6. CASE i < n /\ Assigned # 0
  <2> DEFINE k == Assigned
  <2>1. /\ remaining' = [remaining EXCEPT ![queue] = @ - k]
        /\ values' = [j \in 1..k |-> data[queue][Forward(tail[queue], j - 1)]]
        /\ cpc' = "store" /\ queue' = queue
    BY <1>6 DEF CopyCells
  <2>2. /\ k \in Nat \ {0} /\ k <= remaining[queue]
        /\ policy = "CyclicRoundRobin" => remaining[queue] - k = left[queue]
    BY <1>3, <1>4, <1>6 DEF Assigned, Lesser
  <2> HIDE DEF k
  <2>3. /\ remaining'[queue] = remaining[queue] - k
        /\ \A q \in Queues \ {queue} : remaining'[q] = remaining[q]
    BY <1>4, <2>1 DEF RingsInv, RingsType
  <2>4. remaining' \in [Queues -> Nat]
    <3>1. remaining[queue] - k \in Nat
      BY <1>3, <1>4, <2>2
    <3> QED
      BY <1>4, <2>1, <3>1 DEF RingsInv, RingsType
  <2>5. RingsType'
    BY <1>1, <1>2, <1>4, <2>1, <2>4 DEF RingsInv, RingsType, PopSteps
  <2>6. Len(values') = k
    BY <2>1, <2>2
  <2>7. ASSUME NEW q \in Queues
        PROVE  /\ remaining'[q] + Copying(q)' <= GetRemaining(q)
               /\ policy = "CyclicRoundRobin" => left[q] <= remaining'[q]
    <3>1. CASE q = queue
      <4>1. Copying(q)' = k
        BY <2>1, <2>6, <3>1 DEF Copying
      <4> QED
        BY <1>3, <1>4, <2>2, <2>3, <3>1, <4>1
    <3>2. CASE q # queue
      <4>1. Copying(q)' = 0
        BY <2>1, <3>2 DEF Copying
      <4> QED
        BY <1>3, <2>3, <3>2, <4>1
    <3> QED
      BY <3>1, <3>2
  <2>8. ConsumerInv'
    <3>1. values' = [j \in 1..Len(values') |-> data'[queue'][Forward(tail'[queue'], j - 1)]]
      BY <1>1, <2>1, <2>6
    <3> QED
      BY <1>1, <1>2, <2>2, <2>6, <2>7, <3>1 DEF ConsumerInv
  <2>9. ShareInv'
    BY <2>1 DEF ShareInv, CyclicFair
  <2> QED
    BY <1>2, <2>5, <2>8, <2>9 DEF RingsInv
<1> QED
  BY <1>5, <1>6

(***************************************************************************)
(* The first k elements of a sequence, and the others.                     *)
(***************************************************************************)
LEMMA SubSeqFirst ==
  ASSUME NEW S, NEW s \in Seq(S), NEW k \in 1..Len(s)
  PROVE  SubSeq(s, 1, k) = [j \in 1..k |-> s[j]]
OBVIOUS

(***************************************************************************)
(* What SubSeq leaves of a sequence when its first k elements are taken.   *)
(***************************************************************************)
LEMMA SubSeqRest ==
  ASSUME NEW S, NEW s \in Seq(S), NEW k \in 1..Len(s)
  PROVE  SubSeq(s, k + 1, Len(s)) = [j \in 1..(Len(s) - k) |-> s[k + j]]
OBVIOUS

(***************************************************************************)
(* Publishing the tail removes the elements that were copied from the      *)
(* front of their queue.                                                   *)
(***************************************************************************)
LEMMA StoreTailInv ==
  ASSUME RingsInv, ShareInv, UNCHANGED settings, StoreTail
  PROVE  /\ RingsInv' /\ ShareInv'
         /\ Len(values) \in 1..Len(Contents[queue])
         /\ Contents' = [Contents EXCEPT ![queue] = SubSeq(@, Len(values) + 1, Len(@))]
         /\ values = SubSeq(Contents[queue], 1, Len(values))
<1> USE QueuesAssumption
<1> DEFINE k == Len(values)
           r == GetRemaining(queue)
<1>1. /\ cpc = "store" /\ cpc' = "pop"
      /\ tail' = [tail EXCEPT ![queue] = Forward(@, k)] /\ i' = i + k
      /\ queue' = IF policy = "CyclicRoundRobin" THEN NextQueue(queue) ELSE queue
      /\ UNCHANGED <<policy, data, head, available, ppc, pushed, remaining, totalRemaining, current,
                     left, perQueue, missing, n, total>>
  BY DEF StoreTail, settings, producerVars, cacheVars, localVars
<1>2. queue \in Queues /\ NextQueue(queue) \in Queues /\ i \in Nat
  BY NextQueueIs DEF RingsInv, RingsType
<1>3. /\ k \in Nat \ {0} /\ r \in 0..(Capacity - 1) /\ remaining[queue] + k <= r
      /\ remaining[queue] \in Nat
      /\ head[queue] \in Cells /\ tail[queue] \in Cells
  BY <1>1, <1>2, RemainingIs DEF RingsInv, RingsType, ConsumerInv, Copying
<1>4. values = [j \in 1..k |-> data[queue][Forward(tail[queue], j - 1)]]
  BY <1>1 DEF RingsInv, ConsumerInv
<1> HIDE DEF k
<1>5. /\ tail'[queue] = Forward(tail[queue], k)
      /\ \A q \in Queues \ {queue} : tail'[q] = tail[q]
  BY <1>1, <1>2 DEF RingsInv, RingsType
<1>6. /\ Forward(tail[queue], k) = IF tail[queue] + k < Capacity THEN tail[queue] + k
                                   ELSE (tail[queue] + k) - Capacity
      /\ tail'[queue] \in Cells
  <2>1. k \in 0..Capacity
    BY <1>3
  <2> QED
    BY <1>3, <1>5, <2>1, ForwardIs
<1>7. \A q \in Queues : GetRemaining(q)' = IF q = queue THEN r - k ELSE GetRemaining(q)
  <2>1. ASSUME NEW q \in Queues, q = queue PROVE GetRemaining(q)' = r - k
    <3>1. tail'[q] = Forward(tail[queue], k) /\ head'[q] = head[queue]
      BY <1>1, <1>5, <2>1
    <3>2. /\ r = IF tail[queue] <= head[queue] THEN head[queue] - tail[queue]
                  ELSE (head[queue] - tail[queue]) + Capacity
          /\ GetRemaining(q)' = IF tail'[q] <= head[queue] THEN head[queue] - tail'[q]
                                ELSE (head[queue] - tail'[q]) + Capacity
      BY <3>1, Zenon DEF GetRemaining
    <3>3. tail'[q] = IF tail[queue] + k < Capacity THEN tail[queue] + k
                     ELSE (tail[queue] + k) - Capacity
      BY <1>6, <3>1, Zenon
    <3>4. /\ tail[queue] \in 0..(Capacity - 1) /\ head[queue] \in 0..(Capacity - 1)
          /\ k \in Nat /\ remaining[queue] \in Nat /\ remaining[queue] + k <= r /\ Capacity \in Nat
      BY <1>3, Zenon DEF Cells
    <3> QED
      BY ONLY <3>2, <3>3, <3>4
  <2>2. ASSUME NEW q \in Queues, q # queue PROVE GetRemaining(q)' = GetRemaining(q)
    BY <1>1, <1>5, <2>2 DEF GetRemaining
  <2> QED
    BY <2>1, <2>2
<1>8. \A j \in 1..(r - k) : Forward(tail'[queue], j - 1) = Forward(tail[queue], (k + j) - 1)
  <2> SUFFICES ASSUME NEW j \in 1..(r - k)
               PROVE  Forward(tail'[queue], j - 1) = Forward(tail[queue], (k + j) - 1)
    OBVIOUS
  <2> DEFINE a == j - 1
             b == (k + j) - 1
  <2>1. a \in 0..Capacity /\ b \in 0..Capacity /\ b = k + a /\ b < Capacity
    BY <1>3
  <2> HIDE DEF a, b
  <2>2. Forward(tail'[queue], a) = IF tail'[queue] + a < Capacity THEN tail'[queue] + a
                                   ELSE (tail'[queue] + a) - Capacity
    BY <1>6, <2>1, ForwardIs
  <2>3. Forward(tail[queue], b) = IF tail[queue] + b < Capacity THEN tail[queue] + b
                                  ELSE (tail[queue] + b) - Capacity
    BY <1>3, <2>1, ForwardIs
  <2>4. Forward(tail'[queue], a) = Forward(tail[queue], b)
    BY <1>3, <1>5, <1>6, <2>1, <2>2, <2>3 DEF Cells
  <2> QED
    BY <2>4 DEF a, b
<1>9. RingsType'
  <2>1. tail' \in [Queues -> Cells]
    BY <1>1, <1>5, <1>6 DEF RingsInv, RingsType
  <2>2. i' \in Nat /\ queue' \in Queues
    BY <1>1, <1>2, <1>3
  <2> QED
    BY <1>1, <2>1, <2>2 DEF RingsInv, RingsType, PopSteps
<1>10. ProducersInv'
  <2> SUFFICES ASSUME NEW q \in Queues
               PROVE  available[q] + Filling(q)' + GetRemaining(q)' < Capacity
    BY <1>1 DEF RingsInv, ProducersInv
  <2>1. /\ available[q] \in Nat /\ Filling(q) \in Nat /\ Filling(q)' = Filling(q)
        /\ available[q] + Filling(q) + GetRemaining(q) < Capacity
    <3>1. ppc' = ppc
      BY <1>1, Zenon
    <3>2. Filling(q) \in Nat /\ Filling(q)' = Filling(q)
      BY ONLY <3>1 DEF Filling
    <3> QED
      BY <3>2, Zenon DEF RingsInv, RingsType, ProducersInv
  <2>2. CASE q = queue
    BY <1>3, <1>7, <2>1, <2>2
  <2>3. CASE q # queue
    BY <1>7, <2>1, <2>3
  <2> QED
    BY <2>2, <2>3
<1>11. ConsumerInv'
  <2>1. ASSUME NEW q \in Queues PROVE remaining[q] + 0 <= GetRemaining(q)'
    <3>1. CASE q = queue
      BY <1>3, <1>7, <3>1
    <3>2. CASE q # queue
      <4>1. Copying(q) = 0
        BY <3>2 DEF Copying
      <4> QED
        BY <1>7, <3>2, <4>1 DEF RingsInv, ConsumerInv
    <3> QED
      BY <3>1, <3>2
  <2>2. \A q \in Queues : Copying(q)' = 0
    BY <1>1 DEF Copying
  <2> QED
    BY <1>1, <2>1, <2>2 DEF RingsInv, ConsumerInv
<1>12. ShareInv'
  <2>1. i' # 0
    BY <1>1, <1>2, <1>3
  <2> QED
    BY <1>1, <2>1 DEF ShareInv, CyclicFair
<1>13. /\ Contents[queue] = [j \in 1..r |-> data[queue][Forward(tail[queue], j - 1)]]
       /\ Contents[queue] \in Seq(Nat) /\ Len(Contents[queue]) = r
  BY <1>2, ContentsOf DEF RingsInv
<1>14. k \in 1..Len(Contents[queue])
  <2>1. Len(Contents[queue]) = r
    BY <1>13, Zenon
  <2>2. k \in 1..r
    BY <1>3
  <2> QED
    BY <2>1, <2>2, Zenon
<1>15. values = SubSeq(Contents[queue], 1, k)
  <2>1. SubSeq(Contents[queue], 1, k) = [j \in 1..k |-> Contents[queue][j]]
    BY <1>13, <1>14, SubSeqFirst, Zenon
  <2>2. \A j \in 1..k : j \in 1..r
    BY <1>3
  <2> QED
    BY <1>4, <1>13, <2>1, <2>2
<1>16. ASSUME NEW q \in Queues, q = queue
       PROVE  Contents'[q] = SubSeq(Contents[q], k + 1, Len(Contents[q]))
  <2>1. Contents'[q] = [j \in 1..(r - k) |-> data[queue][Forward(tail'[queue], j - 1)]]
    <3>1. /\ data' = data /\ GetRemaining(q)' = r - k
      BY <1>1, <1>7, <1>16, Zenon
    <3>2. Contents'[q] = [j \in 1..GetRemaining(q)' |-> data'[q][Forward(tail'[q], j - 1)]]
      BY Zenon DEF Contents
    <3> QED
      BY <1>16, <3>1, <3>2, Zenon
  <2>2. SubSeq(Contents[q], k + 1, Len(Contents[q])) = [j \in 1..(r - k) |-> Contents[q][k + j]]
    <3>1. Contents[q] \in Seq(Nat) /\ Len(Contents[q]) = r /\ k \in 1..Len(Contents[q])
      BY <1>13, <1>14, <1>16, Zenon
    <3>2. SubSeq(Contents[q], k + 1, Len(Contents[q]))
            = [j \in 1..(Len(Contents[q]) - k) |-> Contents[q][k + j]]
      BY <3>1, SubSeqRest, Zenon
    <3> QED
      BY <3>1, <3>2, Zenon
  <2>3. ASSUME NEW j \in 1..(r - k)
        PROVE  data[queue][Forward(tail'[queue], j - 1)] = Contents[q][k + j]
    <3>1. k + j \in 1..r
      BY <1>3
    <3>2. Contents[q][k + j] = data[queue][Forward(tail[queue], (k + j) - 1)]
      BY <1>13, <1>16, <3>1
    <3> QED
      BY <1>8, <3>2
  <2>4. [j \in 1..(r - k) |-> data[queue][Forward(tail'[queue], j - 1)]]
          = [j \in 1..(r - k) |-> Contents[q][k + j]]
    BY ONLY <2>3, SMTT(20)
  <2> QED
    BY <2>1, <2>2, <2>4, Zenon
<1>17. \A q \in Queues \ {queue} : Contents'[q] = Contents[q]
  <2> SUFFICES ASSUME NEW q \in Queues \ {queue} PROVE Contents'[q] = Contents[q]
    OBVIOUS
  <2>1. /\ data' = data /\ tail'[q] = tail[q] /\ GetRemaining(q)' = GetRemaining(q)
    BY <1>1, <1>5, <1>7, Zenon
  <2>2. /\ Contents[q] = [j \in 1..GetRemaining(q) |-> data[q][Forward(tail[q], j - 1)]]
        /\ Contents'[q] = [j \in 1..GetRemaining(q)' |-> data'[q][Forward(tail'[q], j - 1)]]
    BY Zenon DEF Contents
  <2> QED
    BY ONLY <2>1, <2>2
<1>18. Contents' = [Contents EXCEPT ![queue] = SubSeq(@, k + 1, Len(@))]
  <2>1. /\ Contents = [q \in Queues |-> Contents[q]]
        /\ Contents' = [q \in Queues |-> Contents'[q]]
    BY DEF Contents
  <2> QED
    BY <1>2, <1>16, <1>17, <2>1
<1> QED
  BY <1>9, <1>10, <1>11, <1>12, <1>14, <1>15, <1>18 DEF RingsInv, k

(***************************************************************************)
(* Every step of the producers and of the consumer keeps both invariants.  *)
(***************************************************************************)
LEMMA MultiStep ==
  ASSUME RingsInv, ShareInv, [MultiNext]_multiVars
  PROVE  RingsInv' /\ ShareInv'
<1>1. CASE UNCHANGED multiVars
  <2>1. UNCHANGED <<policy, data, head, tail, available, ppc, pushed, remaining, totalRemaining,
                    current, left, perQueue, round, missing, cpc, n, queue, total, i, values>>
    BY <1>1 DEF multiVars, settings, producerVars, cacheVars, localVars, popVars
  <2>2. RingsInv'
    BY <2>1 DEF RingsInv, RingsType, ProducersInv, ConsumerInv, GetRemaining, Filling, Copying
  <2>3. ShareInv'
    BY <2>1 DEF ShareInv, CyclicFair, Levelled, GivenUpTo, Visited, Turn
  <2> QED
    BY <2>2, <2>3
<1>2. ASSUME UNCHANGED settings, NEW q \in Queues, Produce(q) PROVE RingsInv' /\ ShareInv'
  <2>1. RingsInv'
    BY <1>2, PushRings, FillCellRings, StoreHeadRings DEF Produce
  <2>2. UNCHANGED <<policy, remaining, current, left, perQueue, round, missing, cpc, queue, i, values>>
    BY <1>2 DEF settings, Produce, Push, FillCell, StoreHead, cacheVars, localVars, popVars
  <2>3. ShareInv'
    BY <2>2 DEF ShareInv, CyclicFair, Levelled, GivenUpTo, Visited, Turn
  <2> QED
    BY <2>1, <2>3
<1>3. ASSUME UNCHANGED settings, NEW m \in Requested, Pop(m) PROVE RingsInv' /\ ShareInv'
  BY <1>3, PopInv
<1>4. CASE Consume
  BY <1>4, UpdateRemainingInv, ShareRings, ShareFair, CopyCellsInv, StoreTailInv DEF Consume
<1> QED
  BY <1>1, <1>2, <1>3, <1>4 DEF MultiNext

(***************************************************************************)
(* The invariants of the rings and of the distribution hold in every       *)
(* reachable state.                                                        *)
(***************************************************************************)
LEMMA RingsAlways == MultiSpec => [](RingsInv /\ ShareInv)
<1>1. RingsInv /\ ShareInv /\ [MultiNext]_multiVars => RingsInv' /\ ShareInv'
  BY MultiStep
<1> QED
  BY <1>1, RingsInit, PTL DEF MultiSpec

(***************************************************************************)
(* _remaining and _available may be out of date, but never promise more    *)
(* than the indices give: no cell is read before it is filled or filled    *)
(* before it is read, for any number of queues and any capacity.           *)
(***************************************************************************)
THEOREM StaleCountsAreSafe == MultiSpec => []StaleIsSafe
<1>1. RingsInv => StaleIsSafe
  BY DEF RingsInv, ProducersInv, ConsumerInv, StaleIsSafe, Filling, Copying
<1> QED
  BY <1>1, RingsAlways, PTL

(***************************************************************************)
(* With the cyclic policy of pop no queue gives two elements more than one *)
(* that has some left (cyclicRoundRobinPop), however the elements to pop   *)
(* divide among the queues.                                                *)
(***************************************************************************)
THEOREM CyclicPopIsFair == MultiSpec => []CyclicFair
<1>1. ShareInv => CyclicFair
  BY DEF ShareInv
<1> QED
  BY <1>1, RingsAlways, PTL

(***************************************************************************)
(* Each step of the producers and the consumer is a step of the FIFOs or   *)
(* leaves them alone: publishing a head is a Put, publishing a tail a Take.*)
(***************************************************************************)
LEMMA FifosStep ==
  ASSUME RingsInv, ShareInv, [MultiNext]_multiVars
  PROVE  [Fifos!FifoNext]_(Fifos!fifoVars)
<1>0. ASSUME Contents' = Contents, taken' = taken PROVE UNCHANGED Fifos!fifoVars
  BY <1>0 DEF Fifos!fifoVars
<1>1. CASE UNCHANGED multiVars
  BY <1>0, <1>1 DEF multiVars, popVars, Contents, GetRemaining
<1>2. ASSUME UNCHANGED settings, NEW q \in Queues, Push(q) PROVE UNCHANGED Fifos!fifoVars
  BY <1>0, <1>2 DEF Push, popVars, Contents, GetRemaining
<1>3. ASSUME UNCHANGED settings, NEW q \in Queues, FillCell(q) PROVE UNCHANGED Fifos!fifoVars
  BY <1>0, <1>3, FillCellRings DEF FillCell, popVars
<1>4. ASSUME UNCHANGED settings, NEW q \in Queues, StoreHead(q) PROVE Fifos!FifoNext
  <2>1. /\ pushed[q] + 1 \in Elements /\ Len(Contents[q]) < Capacity - 1
        /\ Contents' = [Contents EXCEPT ![q] = Append(@, pushed[q] + 1)] /\ taken' = taken
    BY <1>4, StoreHeadRings DEF StoreHead, popVars
  <2>2. Fifos!Put(q, pushed[q] + 1)
    BY <2>1 DEF Fifos!Put
  <2> QED
    BY <2>1, <2>2 DEF Fifos!FifoNext
<1>5. ASSUME NEW m \in Requested, Pop(m) PROVE UNCHANGED Fifos!fifoVars
  BY <1>0, <1>5, ConsumerQuiet DEF Pop
<1>6. CASE UpdateRemaining \/ Share \/ CopyCells
  BY <1>0, <1>6, ConsumerQuiet DEF UpdateRemaining, Share, CopyCells
<1>7. ASSUME UNCHANGED settings, StoreTail PROVE Fifos!FifoNext
  <2>1. /\ Len(values) \in 1..Len(Contents[queue])
        /\ Contents' = [Contents EXCEPT ![queue] = SubSeq(@, Len(values) + 1, Len(@))]
        /\ values = SubSeq(Contents[queue], 1, Len(values))
        /\ taken' = [taken EXCEPT ![queue] = @ \o values] /\ queue \in Queues
    BY <1>7, StoreTailInv DEF StoreTail, RingsInv, RingsType
  <2>2. Fifos!Take(queue, Len(values))
    BY <2>1 DEF Fifos!Take
  <2> QED
    BY <2>1, <2>2 DEF Fifos!FifoNext
<1> QED
  BY <1>1, <1>2, <1>3, <1>4, <1>5, <1>6, <1>7 DEF MultiNext, Produce, Consume

(***************************************************************************)
(* Every ring of MultiLockFreeQueue, filled by the tasks of its CPU and    *)
(* emptied by the polling task through stale counts, is a FIFO of at most  *)
(* Capacity - 1 elements: none is lost, duplicated or reordered, for any   *)
(* number of queues, any capacity and either policy of pop.                *)
(***************************************************************************)
THEOREM RingsImplementFifos == MultiSpec => ImplementsFifos
<1>1. MultiInit => Fifos!FifoInit
  <2> SUFFICES ASSUME MultiInit PROVE Fifos!FifoInit
    OBVIOUS
  <2>1. \A q \in Queues : GetRemaining(q) = 0
    BY DEF MultiInit, GetRemaining
  <2>2. Contents = [q \in Queues |-> <<>>]
    BY <2>1 DEF Contents
  <2> QED
    BY <2>2 DEF MultiInit, Fifos!FifoInit
<1>2. RingsInv /\ ShareInv /\ [MultiNext]_multiVars => [Fifos!FifoNext]_(Fifos!fifoVars)
  BY FifosStep
<1> QED
  BY <1>1, <1>2, RingsAlways, PTL DEF MultiSpec, ImplementsFifos, Fifos!FifoSpec

=============================================================================
