------------------------- MODULE RequestArraysProofs ------------------------
(***************************************************************************)
(* The smart replacement is right for arrays and batches of any size, and  *)
(* the arrays implement the set of requests of module RequestSet.          *)
(***************************************************************************)
EXTENDS RequestArrays, TLAPS, FiniteSetTheorems

\* Zenon is tried first, briefly, and both provers get more time than by default.
USE ZenonT(4), SMTT(20), ZenonT(20)

(***************************************************************************)
(* Requests still in flight after the pass.                                *)
(***************************************************************************)
Left == pending - Len(indices)

(***************************************************************************)
(* The replacement while holes may be left: they are at Index(c), ...,     *)
(* Index(reverse), and filling them with the requests behind leaves        *)
(* exactly Left positions.                                                 *)
(***************************************************************************)
Open ==
  /\ c <= reverse + 1 /\ reverse < Len(indices)
  /\ replacement < pending
  /\ replacement - reverse + c = Left
  /\ \A k \in c..(Len(indices) - 1) : Index(k) <= replacement <=> k <= reverse
  /\ \A p \in 0..replacement :
       requests[p] = NullRequest <=> \E k \in c..reverse : Index(k) = p

(***************************************************************************)
(* The replacement once the first Left positions are filled.               *)
(***************************************************************************)
Closed ==
  /\ c <= Len(indices)
  /\ \A k \in c..(Len(indices) - 1) : Index(k) >= replacement
  /\ \A p \in 0..(Left - 1) : requests[p] # NullRequest
  /\ \/ replacement = Left - 1
     \/ replacement = Left /\ Left < pending /\ requests[Left] = NullRequest

(***************************************************************************)
(* The invariant of internalCheckRequests: the indices are ascending, in   *)
(* the test loop exactly the reported positions are null, the replacement  *)
(* is in one of its two states, no request is there twice, and each has    *)
(* its ticket at its own position.                                         *)
(***************************************************************************)
ArraysInv ==
  /\ TypeOK
  /\ Ascending(indices)
  /\ \A k \in 1..Len(indices) : indices[k] < IF pc = "test" THEN checked ELSE pending
  /\ pc = "test" => checked < pending /\ Len(indices) <= checked
  /\ pc = "test" => \A p \in 0..(pending - 1) :
       requests[p] = NullRequest <=> \E k \in 1..Len(indices) : indices[k] = p
  /\ pc = "idle" => indices = <<>> /\ \A p \in 0..(pending - 1) : requests[p] # NullRequest
  /\ pc = "replace" => Len(indices) <= pending /\ (Open \/ Closed)
  /\ \A p, q \in Live : requests[p] = requests[q] => p = q
  /\ \A p \in Live : mappings[p] = p /\ tickets[p] = requests[p]

(***************************************************************************)
(* The constructor establishes the invariant.                              *)
(***************************************************************************)
LEMMA ArraysInit == Init => ArraysInv
BY ArraysAssumption
   DEF Init, ArraysInv, TypeOK, Positions, Slot, Ascending, Live, Top

(***************************************************************************)
(* The list MPI reports for positions R is a sequence with one entry for   *)
(* each.                                                                   *)
(***************************************************************************)
LEMMA ListType ==
  ASSUME NEW R \in SUBSET Positions, IsFiniteSet(R), NEW s \in [1..Cardinality(R) -> R]
  PROVE  /\ s \in Seq(Positions)
         /\ Len(s) = Cardinality(R) /\ Len(s) \in Nat
         /\ \A i \in 1..Len(s) : s[i] \in R
<1>1. Cardinality(R) \in Nat
  BY FS_CardinalityType
<1>2. QED
  BY <1>1

(***************************************************************************)
(* What the indices of a batch appended to those before it are.            *)
(***************************************************************************)
LEMMA Concatenation ==
  ASSUME NEW S, NEW a \in Seq(S), NEW b \in Seq(S), NEW z, z = a \o b
  PROVE  /\ z \in Seq(S)
         /\ Len(a) \in Nat /\ Len(b) \in Nat /\ Len(z) = Len(a) + Len(b)
         /\ \A k \in 1..Len(a) : a[k] \in S
         /\ \A k \in 1..Len(b) : b[k] \in S
         /\ \A k \in 1..Len(a) : z[k] = a[k]
         /\ \A k \in 1..Len(b) : z[Len(a) + k] = b[k]
         /\ \A k \in 1..Len(z) :
              k \in 1..Len(a) \/ (k - Len(a) \in 1..Len(b) /\ z[k] = b[k - Len(a)])
OBVIOUS

(***************************************************************************)
(* z lists the positions in a and those in R, all below hi, in order.      *)
(***************************************************************************)
Merges(z, a, R, hi) ==
  /\ Ascending(z)
  /\ \A k \in 1..Len(z) : z[k] < hi
  /\ \A p : (\E k \in 1..Len(z) : z[k] = p) <=> p \in R \/ \E k \in 1..Len(a) : a[k] = p

(***************************************************************************)
(* Appending to indices the positions R of a later batch keeps it ordered, *)
(* and it then lists the earlier positions and R.                          *)
(***************************************************************************)
LEMMA IndicesAfterBatch ==
  ASSUME NEW a \in Seq(Positions), NEW lo \in Nat, NEW hi \in Nat, lo <= hi, Ascending(a),
         \A k \in 1..Len(a) : a[k] < lo,
         NEW R, R \subseteq lo..(hi - 1), NEW b \in Seq(Positions), Lists(b, R),
         \A k \in 1..Len(b) : b[k] \in R,
         NEW z, z = a \o b
  PROVE  Merges(z, a, R, hi)
<1>1. /\ Len(a) \in Nat /\ Len(b) \in Nat /\ Len(z) = Len(a) + Len(b)
      /\ \A k \in 1..Len(a) : z[k] = a[k] /\ a[k] \in Nat
      /\ \A k \in 1..Len(b) : z[Len(a) + k] = b[k] /\ b[k] \in Nat
      /\ \A k \in 1..Len(z) :
           k \in 1..Len(a) \/ (k - Len(a) \in 1..Len(b) /\ z[k] = b[k - Len(a)])
  <2>1. Positions \subseteq Nat
    BY DEF Positions
  <2>2. /\ \A k \in 1..Len(a) : a[k] \in Positions
        /\ \A k \in 1..Len(b) : b[k] \in Positions
    BY Concatenation
  <2>3. /\ Len(a) \in Nat /\ Len(b) \in Nat /\ Len(z) = Len(a) + Len(b)
        /\ \A k \in 1..Len(a) : z[k] = a[k]
        /\ \A k \in 1..Len(b) : z[Len(a) + k] = b[k]
        /\ \A k \in 1..Len(z) :
             k \in 1..Len(a) \/ (k - Len(a) \in 1..Len(b) /\ z[k] = b[k - Len(a)])
    BY Concatenation
  <2>4. QED
    BY <2>1, <2>2, <2>3
<1>2. \A k \in 1..Len(z) : z[k] < hi
  <2> SUFFICES ASSUME NEW k \in 1..Len(z) PROVE z[k] < hi
    OBVIOUS
  <2>1. CASE k \in 1..Len(a)
    BY <1>1, <2>1
  <2>2. CASE k - Len(a) \in 1..Len(b) /\ z[k] = b[k - Len(a)]
    <3>1. z[k] \in lo..(hi - 1)
      BY <2>2
    <3>2. QED
      BY <3>1
  <2>3. QED
    BY <1>1, <2>1, <2>2
<1>3. Ascending(z)
  <2> SUFFICES ASSUME NEW i \in 1..Len(z), NEW j \in 1..Len(z), i < j PROVE z[i] < z[j]
    BY DEF Ascending
  <2>1. CASE j \in 1..Len(a)
    BY <1>1, <2>1 DEF Ascending
  <2>2. CASE i \in 1..Len(a) /\ j \notin 1..Len(a)
    <3>1. z[i] \in Nat /\ z[i] < lo
      BY <1>1, <2>2
    <3>2. z[j] \in R
      BY <1>1, <2>2
    <3>3. z[j] \in lo..(hi - 1)
      BY <3>2
    <3>4. QED
      BY <3>1, <3>3
  <2>3. CASE i \notin 1..Len(a) /\ j \notin 1..Len(a)
    <3>1. /\ i - Len(a) \in 1..Len(b) /\ j - Len(a) \in 1..Len(b) /\ i - Len(a) < j - Len(a)
          /\ z[i] = b[i - Len(a)] /\ z[j] = b[j - Len(a)]
      BY <1>1, <2>3
    <3>2. QED
      BY <3>1 DEF Lists, Ascending
  <2>4. QED
    BY <1>1, <2>1, <2>2, <2>3
<1>4. \A p : (\E k \in 1..Len(z) : z[k] = p) <=> p \in R \/ \E k \in 1..Len(a) : a[k] = p
  <2> SUFFICES ASSUME NEW p
               PROVE  (\E k \in 1..Len(z) : z[k] = p) <=> p \in R \/ \E k \in 1..Len(a) : a[k] = p
    OBVIOUS
  <2>1. p \in R <=> \E k \in 1..Len(b) : b[k] = p
    BY DEF Lists
  <2>2. ASSUME NEW k \in 1..Len(z), z[k] = p PROVE p \in R \/ \E n \in 1..Len(a) : a[n] = p
    BY <1>1, <2>1, <2>2
  <2>3. ASSUME NEW k \in 1..Len(b), b[k] = p PROVE \E n \in 1..Len(z) : z[n] = p
    <3>1. Len(a) + k \in 1..Len(z) /\ z[Len(a) + k] = p
      BY <1>1, <2>3
    <3>2. QED
      BY <3>1
  <2>4. ASSUME NEW k \in 1..Len(a), a[k] = p PROVE \E n \in 1..Len(z) : z[n] = p
    <3>1. k \in 1..Len(z) /\ z[k] = p
      BY <1>1, <2>4
    <3>2. QED
      BY <3>1
  <2>5. QED
    BY <2>1, <2>2, <2>3, <2>4
<1>5. QED
  BY <1>2, <1>3, <1>4 DEF Merges

(***************************************************************************)
(* The numbers of internalCheckRequests while it is testing.               *)
(***************************************************************************)
LEMMA TestTypes ==
  ASSUME ArraysInv, pc = "test"
  PROVE  /\ checked \in Nat /\ pending \in Nat /\ Capacity \in Nat /\ BatchSize \in Nat \ {0}
         /\ checked < pending /\ pending <= Capacity /\ Len(indices) <= checked
         /\ Lesser(pending - checked, BatchSize) \in Nat
         /\ indices \in Seq(Positions)
         /\ \A k \in 1..Len(indices) : indices[k] \in Nat /\ indices[k] < checked
<1>1. /\ checked \in Nat /\ pending \in Nat /\ Capacity \in Nat /\ BatchSize \in Nat \ {0}
      /\ checked < pending /\ pending <= Capacity /\ Len(indices) <= checked
  BY ArraysAssumption DEF ArraysInv, TypeOK
<1>2. /\ indices \in Seq(Positions)
      /\ \A k \in 1..Len(indices) : indices[k] \in Nat /\ indices[k] < checked
  <2>1. indices \in Seq(Positions)
    BY DEF ArraysInv, TypeOK
  <2>2. \A k \in 1..Len(indices) : indices[k] \in Positions
    BY <2>1
  <2>3. \A k \in 1..Len(indices) : indices[k] < checked
    BY DEF ArraysInv
  <2>4. QED
    BY <2>1, <2>2, <2>3 DEF Positions
<1>3. Lesser(pending - checked, BatchSize) \in Nat
  BY <1>1 DEF Lesser
<1>4. QED
  BY <1>1, <1>2, <1>3

(***************************************************************************)
(* The positions in a batch of the do-while loop, and their number.        *)
(***************************************************************************)
LEMMA BatchType ==
  ASSUME ArraysInv, pc = "test"
  PROVE  /\ Batch \subseteq 0..(pending - 1) /\ Batch \subseteq Positions
         /\ \A p \in Batch : checked <= p
         /\ checked + Lesser(pending - checked, BatchSize) \in (checked + 1)..pending
         /\ \A p \in Batch : p < checked + Lesser(pending - checked, BatchSize)
         /\ \A R \in SUBSET Batch :
              IsFiniteSet(R) /\ Cardinality(R) <= Lesser(pending - checked, BatchSize)
<1>1. Lesser(pending - checked, BatchSize) \in 1..(pending - checked)
  BY ArraysAssumption DEF ArraysInv, TypeOK, Lesser
<1>2. checked \in Nat /\ pending \in 0..Capacity
  BY DEF ArraysInv, TypeOK
<1>3. /\ IsFiniteSet(Batch)
      /\ Cardinality(Batch) = Lesser(pending - checked, BatchSize)
  <2>1. PICK m \in 1..(pending - checked) : m = Lesser(pending - checked, BatchSize)
    BY <1>1
  <2>2. checked \in Int /\ checked + m - 1 \in Int
    BY <1>2, <2>1
  <2>3. IsFiniteSet(checked..(checked + m - 1)) /\ Cardinality(checked..(checked + m - 1)) = m
    BY <1>2, <2>1, <2>2, FS_Interval
  <2>4. QED
    BY <2>1, <2>3 DEF Batch
<1>4. \A R \in SUBSET Batch : IsFiniteSet(R) /\ Cardinality(R) <= Cardinality(Batch)
  BY <1>3, FS_Subset
<1>5. QED
  BY <1>1, <1>2, <1>3, <1>4, ArraysAssumption DEF Batch, Positions

(***************************************************************************)
(* A position MPI reports holds a request in flight that is complete.      *)
(***************************************************************************)
LEMMA ReportedSound ==
  ASSUME ArraysInv, pc = "test", NEW R \in Reported(Batch)
  PROVE  R \subseteq Batch /\ R \subseteq Live /\ \A p \in R : requests[p] \in complete
<1>1. R \subseteq Batch /\ \A p \in R : requests[p] \in complete
  BY DEF Reported
<1>2. \A p \in R : requests[p] # NullRequest
  BY <1>1, ArraysAssumption DEF ArraysInv, TypeOK
<1>3. QED
  BY <1>1, <1>2, BatchType DEF Live, Top

-----------------------------------------------------------------------------
(***************************************************************************)
(* transferOperations appends a request and its ticket.                    *)
(***************************************************************************)
LEMMA AssociateKeeps ==
  ASSUME ArraysInv, NEW r \in Requests, AssociateRequest(r)
  PROVE  ArraysInv'
<1> USE ArraysAssumption DEF ArraysInv, TypeOK, AssociateRequest, HasRoom, loopVars
<1>1. TypeOK'
  BY DEF Positions, Slot
<1>2. Top = pending - 1 /\ Top' = pending /\ pending \in Positions
  BY DEF Top, Positions
<1>3. \A p \in Live : p \in 0..(pending - 1) /\ requests[p] \in Inflight
  BY <1>2 DEF Live, Inflight
<1>4. \A p \in Live' : p = pending \/ p \in Live
  BY <1>2 DEF Live, Positions
<1>5. \A p \in 0..pending : requests'[p] = (IF p = pending THEN r ELSE requests[p])
                         /\ tickets'[p] = (IF p = pending THEN r ELSE tickets[p])
                         /\ mappings'[p] = (IF p = pending THEN pending ELSE mappings[p])
  <2>1. \A p \in 0..pending : p \in Positions
    BY DEF Positions
  <2>2. QED
    BY <2>1
<1>6. \A p, q \in Live' : requests'[p] = requests'[q] => p = q
  BY <1>2, <1>3, <1>4, <1>5
<1>7. \A p \in Live' : mappings'[p] = p /\ tickets'[p] = requests'[p]
  BY <1>2, <1>3, <1>4, <1>5
<1>8. \A p \in 0..(pending' - 1) : requests'[p] # NullRequest
  BY <1>5
<1>9. QED
  BY <1>1, <1>6, <1>7, <1>8 DEF Ascending

(***************************************************************************)
(* MPI completes a request.                                                *)
(***************************************************************************)
LEMMA CompleteKeeps ==
  ASSUME ArraysInv, NEW r \in Requests, Complete(r)
  PROVE  ArraysInv'
BY DEF ArraysInv, TypeOK, Complete, arrayVars, loopVars, Open, Closed, Left, Live, Top, Index, Ascending

(***************************************************************************)
(* internalCheckRequests begins with no index.                             *)
(***************************************************************************)
LEMMA CheckKeeps ==
  ASSUME ArraysInv, CheckRequests
  PROVE  ArraysInv'
<1> USE DEF ArraysInv, TypeOK, CheckRequests, arrayVars, loopVars
<1>1. TypeOK'
  BY ArraysAssumption
<1>2. Live' = Live
  BY DEF Live, Top
<1>3. QED
  BY <1>1, <1>2 DEF Ascending

(***************************************************************************)
(* A batch is tested: the holes are the positions in indices.              *)
(***************************************************************************)
LEMMA TestBatchKeeps ==
  ASSUME ArraysInv, TestBatch
  PROVE  ArraysInv'
<1>1. PICK R \in Reported(Batch) : \E s \in [1..Cardinality(R) -> R] :
        /\ Lists(s, R)
        /\ indices' = indices \o s
        /\ requests' = [p \in Positions |-> IF p \in R THEN NullRequest ELSE requests[p]]
        /\ delivered' = delivered \cup {AssociatedTicket(p) : p \in R}
  BY DEF TestBatch
<1>2. PICK s \in [1..Cardinality(R) -> R] :
        Lists(s, R) /\ indices' = indices \o s
  BY <1>1
<1>3. /\ requests' = [p \in Positions |-> IF p \in R THEN NullRequest ELSE requests[p]]
      /\ delivered' = delivered \cup {AssociatedTicket(p) : p \in R}
  BY <1>1
<1>4. /\ pc = "test" /\ checked' = checked + Lesser(pending - checked, BatchSize)
      /\ UNCHANGED <<tickets, mappings, pending, complete>>
  BY DEF TestBatch
<1>5. PICK hi \in Nat : hi = checked'
  BY <1>4, TestTypes
<1>6. /\ hi \in (checked + 1)..pending /\ hi <= pending /\ checked <= hi
      /\ R \subseteq checked..(hi - 1) /\ R \subseteq Positions /\ R \subseteq Live
      /\ IsFiniteSet(R) /\ Cardinality(R) <= hi - checked /\ Cardinality(R) \in Nat
  BY <1>4, <1>5, TestTypes, BatchType, ReportedSound, FS_CardinalityType
<1>7. /\ s \in Seq(Positions) /\ indices \in Seq(Positions)
      /\ Len(s) = Cardinality(R) /\ \A i \in 1..Len(s) : s[i] \in R
  BY <1>4, <1>6, ListType, TestTypes
<1>8. /\ Ascending(indices')
      /\ \A k \in 1..Len(indices') : indices'[k] < hi
      /\ \A p : (\E k \in 1..Len(indices') : indices'[k] = p)
                 <=> p \in R \/ \E k \in 1..Len(indices) : indices[k] = p
  <2> SUFFICES Merges(indices', indices, R, hi)
    BY Zenon DEF Merges
  <2>1. Ascending(indices) /\ \A k \in 1..Len(indices) : indices[k] < checked
    BY <1>4, TestTypes DEF ArraysInv
  <2>2. checked \in Nat
    BY <1>4, TestTypes
  <2>3. QED
    <3>1. /\ indices \in Seq(Positions) /\ s \in Seq(Positions) /\ indices' = indices \o s
          /\ checked \in Nat /\ checked <= hi /\ R \subseteq checked..(hi - 1) /\ Lists(s, R)
          /\ \A k \in 1..Len(s) : s[k] \in R
      BY <1>2, <1>6, <1>7, <2>2
    <3>2. QED
      BY <2>1, <3>1, IndicesAfterBatch
<1>9. /\ indices' \in Seq(Positions)
      /\ Len(indices') = Len(indices) + Len(s) /\ Len(indices) \in Nat /\ Len(indices') \in Nat
      /\ Len(indices') <= hi
  <2>1. /\ indices' \in Seq(Positions) /\ Len(indices) \in Nat /\ Len(s) \in Nat
        /\ Len(indices') = Len(indices) + Len(s)
    <3>1. indices \in Seq(Positions) /\ s \in Seq(Positions) /\ indices' = indices \o s
      BY <1>2, <1>7
    <3>2. QED
      BY <3>1, Concatenation
  <2>2. Len(indices) <= checked /\ checked \in Nat
    BY <1>4, TestTypes
  <2>3. Len(s) <= hi - checked
    BY <1>6, <1>7
  <2>4. Len(indices') \in Nat /\ Len(indices') <= hi
    BY <2>1, <2>2, <2>3
  <2>5. QED
    BY <2>1, <2>4
<1>10. \A p \in 0..(pending - 1) :
         requests'[p] = NullRequest <=> \E k \in 1..Len(indices') : indices'[k] = p
  <2> SUFFICES ASSUME NEW p \in 0..(pending - 1)
               PROVE  requests'[p] = NullRequest <=> \E k \in 1..Len(indices') : indices'[k] = p
    OBVIOUS
  <2>1. requests[p] = NullRequest <=> \E k \in 1..Len(indices) : indices[k] = p
    BY <1>4 DEF ArraysInv
  <2>2. p \in Positions
    BY <1>4, TestTypes DEF Positions
  <2>3. requests'[p] = NullRequest <=> p \in R \/ requests[p] = NullRequest
    BY <1>3, <2>2
  <2>4. QED
    BY <1>8, <2>1, <2>3
<1>11. TypeOK'
  <2>1. requests' \in [Positions -> Slot] /\ checked' \in 0..Capacity
    <3>1. \A p \in Positions : requests[p] \in Slot
      BY DEF ArraysInv, TypeOK
    <3>2. QED
      BY <1>3, <1>4, <1>5, <1>6, <3>1, TestTypes DEF Slot
  <2>2. delivered' \subseteq Requests
    <3>1. \A p \in R : AssociatedTicket(p) = requests[p] /\ requests[p] \in Requests
      BY <1>6, ArraysAssumption DEF ArraysInv, TypeOK, AssociatedTicket, Live, Slot
    <3>2. delivered \subseteq Requests
      BY DEF ArraysInv, TypeOK
    <3>3. QED
      BY <1>3, <3>1, <3>2
  <2>3. pc' \in {"test", "replace"} /\ c' \in Nat /\ replacement' \in Int /\ reverse' \in Int
    <3>1. pending \in Int /\ c \in Nat /\ replacement \in Int /\ reverse \in Int
      BY DEF ArraysInv, TypeOK
    <3>2. QED
      BY <1>4, <1>9, <3>1 DEF TestBatch, loopVars, LastHole
  <2>4. QED
    BY <1>4, <1>9, <2>1, <2>2, <2>3 DEF ArraysInv, TypeOK
<1>12. Top' = pending - 1 /\ Top = pending - 1
  BY <1>4 DEF TestBatch, Top
<1>13. \A p \in Live' : p \in Live /\ requests'[p] = requests[p]
  <2>1. \A p \in 0..(pending - 1) : p \in Positions
    BY <1>4, TestTypes DEF Positions
  <2>2. QED
    BY <1>3, <1>12, <2>1 DEF Live
<1>14. /\ \A p, q \in Live' : requests'[p] = requests'[q] => p = q
       /\ \A p \in Live' : mappings'[p] = p /\ tickets'[p] = requests'[p]
  BY <1>4, <1>13 DEF ArraysInv
<1>15. CASE hi < pending
  <2>1. pc' = "test"
    BY <1>4, <1>5, <1>15 DEF TestBatch
  <2>2. QED
    BY <1>4, <1>5, <1>8, <1>9, <1>10, <1>11, <1>14, <1>15, <2>1 DEF ArraysInv
<1>16. CASE ~(hi < pending)
  <2>1. pc' = "replace" /\ c' = 0 /\ replacement' = pending - 1 /\ reverse' = Len(indices') - 1
    BY <1>4, <1>5, <1>16 DEF TestBatch, LastHole
  <2>2. hi = pending /\ pending \in Nat
    BY <1>4, <1>6, <1>16, TestTypes
  <2>3. \A k \in 0..(Len(indices') - 1) : k + 1 \in 1..Len(indices') /\ indices'[k + 1] \in Nat
    <3>1. \A k \in 1..Len(indices') : indices'[k] \in Positions
      BY <1>9
    <3>2. QED
      BY <1>9, <3>1 DEF Positions
  <2>4. \A p \in 0..(pending - 1) :
          requests'[p] = NullRequest <=> \E k \in 0..(Len(indices') - 1) : indices'[k + 1] = p
    <3> SUFFICES ASSUME NEW p \in 0..(pending - 1)
                 PROVE  (\E k \in 1..Len(indices') : indices'[k] = p)
                          <=> \E k \in 0..(Len(indices') - 1) : indices'[k + 1] = p
      BY <1>10
    <3>1. ASSUME NEW k \in 1..Len(indices'), indices'[k] = p
          PROVE  \E n \in 0..(Len(indices') - 1) : indices'[n + 1] = p
      <4>1. k - 1 \in 0..(Len(indices') - 1) /\ (k - 1) + 1 = k
        BY <1>9
      <4>2. QED
        BY <3>1, <4>1
    <3>2. QED
      BY <2>3, <3>1
  <2>5. Open'
    BY <1>4, <1>8, <1>9, <2>1, <2>2, <2>3, <2>4 DEF Open, Left, Index
  <2>6. QED
    BY <1>4, <1>8, <1>9, <1>11, <1>14, <2>1, <2>2, <2>5 DEF ArraysInv
<1>17. QED
  BY <1>5, <1>6, <1>15, <1>16

-----------------------------------------------------------------------------
(***************************************************************************)
(* The numbers of the smart replacement.                                   *)
(***************************************************************************)
LEMMA ReplaceTypes ==
  ASSUME ArraysInv, pc = "replace"
  PROVE  /\ Len(indices) \in Nat /\ pending \in Nat /\ pending <= Capacity /\ Len(indices) <= pending
         /\ Capacity \in Nat /\ c \in Nat /\ replacement \in Int /\ reverse \in Int
         /\ \A k \in 0..(Len(indices) - 1) : Index(k) \in Nat /\ Index(k) < pending
         /\ \A i, j \in 0..(Len(indices) - 1) : i < j => Index(i) < Index(j)
<1>1. /\ indices \in Seq(Positions) /\ pending \in Nat /\ pending <= Capacity /\ Capacity \in Nat
      /\ c \in Nat /\ replacement \in Int /\ reverse \in Int
  BY ArraysAssumption DEF ArraysInv, TypeOK
<1>2. Len(indices) \in Nat /\ \A k \in 1..Len(indices) : indices[k] \in Positions
  BY <1>1
<1>3. /\ Len(indices) <= pending /\ Ascending(indices)
      /\ \A k \in 1..Len(indices) : indices[k] < pending
  BY DEF ArraysInv
<1>4. \A k \in 0..(Len(indices) - 1) : k + 1 \in 1..Len(indices)
  BY <1>2
<1>5. \A k \in 0..(Len(indices) - 1) : Index(k) \in Nat /\ Index(k) < pending
  BY <1>2, <1>3, <1>4 DEF Index, Positions
<1>6. \A i, j \in 0..(Len(indices) - 1) : i < j => Index(i) < Index(j)
  BY <1>3, <1>4 DEF Index, Ascending
<1>7. QED
  BY <1>1, <1>2, <1>3, <1>5, <1>6

(***************************************************************************)
(* Where the while loop of the replacement has work to do, holes are left  *)
(* and reverse is at the last of them.                                     *)
(***************************************************************************)
LEMMA WhileBody ==
  ASSUME ArraysInv, Replacing, replacement > Index(c)
  PROVE  /\ Open /\ c <= reverse
         /\ c \in 0..(Len(indices) - 1) /\ reverse \in 0..(Len(indices) - 1)
         /\ Index(c) \in 0..(replacement - 1) /\ Index(reverse) <= replacement
         /\ replacement \in 0..(pending - 1) /\ replacement \in Positions
<1>1. pc = "replace" /\ c < Len(indices)
  BY DEF Replacing
<1>2. c \in 0..(Len(indices) - 1) /\ c \in c..(Len(indices) - 1)
  BY <1>1, ReplaceTypes
<1>3. Index(c) \in Nat
  BY <1>1, <1>2, ReplaceTypes
<1>4. ~Closed
  BY <1>1, <1>2, <1>3, ReplaceTypes DEF Closed
<1>5. Open
  BY <1>1, <1>4 DEF ArraysInv
<1>6. c <= reverse /\ reverse \in 0..(Len(indices) - 1) /\ reverse \in c..(Len(indices) - 1)
  BY <1>1, <1>2, <1>3, <1>5, ReplaceTypes DEF Open
<1>7. Index(reverse) <= replacement /\ replacement < pending
  BY <1>5, <1>6 DEF Open
<1>8. QED
  BY <1>1, <1>2, <1>3, <1>5, <1>6, <1>7, ReplaceTypes DEF Positions

(***************************************************************************)
(* A hole at the end is skipped.                                           *)
(***************************************************************************)
LEMMA SkipHoleKeeps ==
  ASSUME ArraysInv, SkipHole
  PROVE  ArraysInv' /\ Inflight' = Inflight
<1>1. /\ pc = "replace" /\ Replacing /\ replacement > Index(c) /\ replacement = Index(reverse)
      /\ replacement' = replacement - 1 /\ reverse' = reverse - 1
      /\ UNCHANGED <<requests, tickets, mappings, pending, complete, delivered, pc, checked, indices, c>>
  BY DEF SkipHole, Replacing, IsHole, arrayVars
<1>2. requests[replacement] = NullRequest
  BY <1>1, WhileBody DEF Open
<1>3. Live' = Live
  <2>1. Top = replacement /\ Top' = replacement - 1 /\ replacement \in Nat
    BY <1>1, WhileBody DEF Top
  <2>2. 0..replacement = (0..(replacement - 1)) \cup {replacement}
    BY <2>1
  <2>3. QED
    BY <1>1, <1>2, <2>1, <2>2 DEF Live
<1>4. Open'
  <2>1. /\ c <= (reverse - 1) + 1 /\ reverse - 1 < Len(indices) /\ replacement - 1 < pending
        /\ (replacement - 1) - (reverse - 1) + c = Left
    <3>1. /\ c \in Nat /\ reverse \in Int /\ replacement \in Int /\ pending \in Nat
          /\ Len(indices) \in Nat /\ c <= reverse
      BY <1>1, WhileBody, ReplaceTypes
    <3>2. reverse < Len(indices) /\ replacement < pending /\ replacement - reverse + c = Left
      BY <1>1, WhileBody DEF Open
    <3>3. QED
      BY <3>1, <3>2
  <2>2. ASSUME NEW k \in c..(Len(indices) - 1)
        PROVE  Index(k) <= replacement - 1 <=> k <= reverse - 1
    <3>1. k \in 0..(Len(indices) - 1) /\ Index(k) \in Nat
      BY <1>1, ReplaceTypes
    <3>2. Index(k) <= replacement <=> k <= reverse
      BY <1>1, WhileBody DEF Open
    <3>3. k < reverse => Index(k) < Index(reverse)
      BY <1>1, <3>1, WhileBody, ReplaceTypes
    <3>4. /\ replacement = Index(reverse) /\ replacement \in Int
          /\ reverse \in Int /\ k \in Int
      BY <1>1, <3>1, WhileBody, ReplaceTypes
    <3>5. CASE k < reverse
      BY <3>1, <3>3, <3>4, <3>5
    <3>6. CASE k = reverse
      BY <3>4, <3>6
    <3>7. CASE k > reverse
      BY <3>1, <3>2, <3>4, <3>7
    <3>8. QED
      BY <3>4, <3>5, <3>6, <3>7
  <2>3. ASSUME NEW p \in 0..(replacement - 1)
        PROVE  requests[p] = NullRequest <=> \E k \in c..(reverse - 1) : Index(k) = p
    <3>1. p \in 0..replacement /\ p # replacement
      BY <1>1, WhileBody
    <3>2. requests[p] = NullRequest <=> \E k \in c..reverse : Index(k) = p
      BY <1>1, <3>1, WhileBody DEF Open
    <3>3. (\E k \in c..reverse : Index(k) = p) <=> (\E k \in c..(reverse - 1) : Index(k) = p)
      <4>1. c \in Int /\ reverse \in Int /\ c <= reverse
        BY <1>1, WhileBody, ReplaceTypes
      <4>2. c..reverse = (c..(reverse - 1)) \cup {reverse}
        BY <4>1
      <4>3. Index(reverse) # p
        BY <1>1, <3>1
      <4>4. QED
        BY <4>2, <4>3
    <3>4. QED
      BY <3>2, <3>3
  <2>4. Left' = Left /\ Len(indices)' = Len(indices) /\ \A k : Index(k)' = Index(k)
    BY <1>1 DEF Left, Index
  <2>5. QED
    BY <1>1, <2>1, <2>2, <2>3, <2>4 DEF Open
<1>5. TypeOK'
  BY <1>1 DEF ArraysInv, TypeOK
<1>6. QED
  BY <1>1, <1>3, <1>4, <1>5 DEF ArraysInv, Inflight

(***************************************************************************)
(* moveRequest fills a hole with the last request in flight, ticket and    *)
(* all.                                                                    *)
(***************************************************************************)
LEMMA FillHoleKeeps ==
  ASSUME ArraysInv, FillHole
  PROVE  ArraysInv' /\ Inflight' = Inflight
<1>1. /\ pc = "replace" /\ Replacing /\ replacement > Index(c) /\ replacement # Index(reverse)
      /\ MoveRequest(replacement, Index(c))
      /\ replacement' = replacement - 1 /\ c' = c + 1
      /\ UNCHANGED <<pending, complete, delivered, pc, checked, indices, reverse>>
  BY DEF FillHole, Replacing, IsHole
<1>2. PICK d \in 0..(replacement - 1) : d = Index(c)
  BY <1>1, WhileBody
<1>3. /\ c \in Nat /\ reverse \in Int /\ replacement \in Nat /\ pending \in Nat
      /\ Len(indices) \in Nat /\ c <= reverse /\ c < Len(indices)
      /\ reverse < Len(indices) /\ replacement < pending /\ pending <= Capacity /\ Capacity \in Nat
  BY <1>1, WhileBody, ReplaceTypes DEF Replacing
<1>4. Left' = Left /\ Len(indices)' = Len(indices) /\ \A k : Index(k)' = Index(k)
  BY <1>1 DEF Left, Index
<1>5. \A k \in c..(Len(indices) - 1) :
        /\ Index(k) \in Nat
        /\ Index(k) <= replacement <=> k <= reverse
        /\ k < reverse => Index(k) < Index(reverse)
        /\ k # c => Index(c) < Index(k)
  BY <1>1, <1>3, WhileBody, ReplaceTypes DEF Open
<1>6. \A k \in c..reverse : Index(k) < replacement
  BY <1>1, <1>3, <1>5
<1>7. \A p \in 0..replacement : requests[p] = NullRequest <=> \E k \in c..reverse : Index(k) = p
  BY <1>1, WhileBody DEF Open
<1>8. requests[replacement] # NullRequest /\ replacement \in Live
  <2>1. requests[replacement] # NullRequest
    BY <1>3, <1>5, <1>6, <1>7
  <2>2. QED
    BY <1>1, <1>3, <2>1 DEF Live, Top
<1>9. mappings[replacement] = replacement /\ tickets[replacement] = requests[replacement]
  BY <1>8 DEF ArraysInv
<1>10. /\ requests' = [requests EXCEPT ![d] = requests[replacement]]
       /\ tickets' = [tickets EXCEPT ![d] = tickets[replacement]]
       /\ mappings' = [mappings EXCEPT ![d] = d]
  BY <1>1, <1>2, <1>9 DEF MoveRequest, MoveTicket
<1>11. d \in Positions /\ replacement \in Positions
  BY <1>2, <1>3 DEF Positions
<1>12. TypeOK'
  <2>1. /\ requests \in [Positions -> Slot] /\ tickets \in [Positions -> Slot]
        /\ mappings \in [Positions -> Positions]
    BY DEF ArraysInv, TypeOK
  <2>2. /\ requests' \in [Positions -> Slot] /\ tickets' \in [Positions -> Slot]
        /\ mappings' \in [Positions -> Positions]
    BY <1>10, <1>11, <2>1
  <2>3. QED
    BY <1>1, <2>2 DEF ArraysInv, TypeOK
<1>13. Top = replacement /\ Top' = replacement - 1
  BY <1>1 DEF Top
<1>14. \A p \in 0..(replacement - 1) :
         /\ requests'[p] = IF p = d THEN requests[replacement] ELSE requests[p]
         /\ tickets'[p] = IF p = d THEN tickets[replacement] ELSE tickets[p]
         /\ mappings'[p] = IF p = d THEN d ELSE mappings[p]
  <2>1. \A p \in 0..(replacement - 1) : p \in Positions
    BY <1>3 DEF Positions
  <2>2. QED
    BY <1>10, <1>11, <2>1 DEF ArraysInv, TypeOK
<1>15. \A p \in Live' : p \in 0..(replacement - 1) /\ (p = d \/ p \in Live)
  BY <1>3, <1>13, <1>14 DEF Live
<1>16. /\ \A p, q \in Live' : requests'[p] = requests'[q] => p = q
       /\ \A p \in Live' : mappings'[p] = p /\ tickets'[p] = requests'[p]
  <2>1. \A p \in Live : requests[p] = requests[replacement] => p = replacement
    BY <1>8 DEF ArraysInv
  <2>2. /\ \A p, q \in Live : requests[p] = requests[q] => p = q
        /\ \A p \in Live : mappings[p] = p /\ tickets[p] = requests[p]
    BY DEF ArraysInv
  <2>3. QED
    BY <1>3, <1>9, <1>14, <1>15, <2>1, <2>2
<1>17. Open'
  <2>1. /\ c + 1 <= reverse + 1 /\ reverse < Len(indices) /\ replacement - 1 < pending
        /\ (replacement - 1) - reverse + (c + 1) = Left
    <3>1. replacement - reverse + c = Left
      BY <1>1, WhileBody DEF Open
    <3>2. QED
      BY <1>3, <3>1
  <2>2. \A k \in (c + 1)..(Len(indices) - 1) : Index(k) <= replacement - 1 <=> k <= reverse
    BY <1>3, <1>5, <1>6
  <2>3. ASSUME NEW p \in 0..(replacement - 1)
        PROVE  requests'[p] = NullRequest <=> \E k \in (c + 1)..reverse : Index(k) = p
    <3>1. requests[p] = NullRequest <=> \E k \in c..reverse : Index(k) = p
      BY <1>3, <1>7
    <3>2. CASE p = d
      <4>1. \A k \in (c + 1)..reverse : Index(k) # p
        BY <1>2, <1>3, <1>5, <3>2
      <4>2. QED
        BY <1>8, <1>14, <3>2, <4>1
    <3>3. CASE p # d
      <4>1. (\E k \in c..reverse : Index(k) = p) <=> (\E k \in (c + 1)..reverse : Index(k) = p)
        BY <1>2, <1>3, <3>3
      <4>2. QED
        BY <1>14, <3>1, <3>3, <4>1
    <3>4. QED
      BY <3>2, <3>3
  <2>4. QED
    BY <1>1, <1>4, <2>1, <2>2, <2>3 DEF Open
<1>18. ArraysInv'
  BY <1>1, <1>4, <1>12, <1>16, <1>17 DEF ArraysInv
<1>19. Inflight' = Inflight
  <2>1. ASSUME NEW p \in Live' PROVE requests'[p] \in Inflight
    BY <1>8, <1>14, <1>15 DEF Inflight
  <2>2. d \in Live' /\ requests'[d] = requests[replacement]
    BY <1>2, <1>8, <1>13, <1>14 DEF Live
  <2>3. ASSUME NEW p \in Live PROVE requests[p] \in Inflight'
    <3>1. CASE p = replacement
      BY <2>2, <3>1 DEF Inflight
    <3>2. CASE p # replacement
      <4>1. p \in 0..(replacement - 1) /\ requests[p] # NullRequest
        BY <1>3, <1>13, <3>2 DEF Live
      <4>2. p # d
        BY <1>2, <1>3, <1>7, <4>1
      <4>3. p \in Live' /\ requests'[p] = requests[p]
        BY <1>13, <1>14, <4>1, <4>2 DEF Live
      <4>4. QED
        BY <4>3 DEF Inflight
    <3>3. QED
      BY <3>1, <3>2
  <2>4. QED
    BY <2>1, <2>3 DEF Inflight
<1>20. QED
  BY <1>18, <1>19

(***************************************************************************)
(* A hole behind all the requests in flight stays, and so do all later     *)
(* ones: the first Left positions are filled.                              *)
(***************************************************************************)
LEMMA LeaveHoleKeeps ==
  ASSUME ArraysInv, LeaveHole
  PROVE  ArraysInv' /\ Inflight' = Inflight
<1>1. /\ pc = "replace" /\ c < Len(indices) /\ replacement <= Index(c) /\ c' = c + 1
      /\ UNCHANGED <<requests, tickets, mappings, pending, complete, delivered, pc, checked, indices,
                     replacement, reverse>>
  BY DEF LeaveHole, Replacing, arrayVars
<1>2. /\ c \in Nat /\ reverse \in Int /\ replacement \in Int /\ pending \in Nat
      /\ Len(indices) \in Nat /\ Len(indices) <= pending
      /\ \A k \in 0..(Len(indices) - 1) : Index(k) \in Nat /\ Index(k) < pending
      /\ \A i, j \in 0..(Len(indices) - 1) : i < j => Index(i) < Index(j)
  BY <1>1, ReplaceTypes
<1>3. Left' = Left /\ Len(indices)' = Len(indices) /\ (\A k : Index(k)' = Index(k)) /\ Left \in Int
  BY <1>1, <1>2 DEF Left, Index
<1>4. Live' = Live
  BY <1>1 DEF Live, Top
<1>5. TypeOK'
  BY <1>1, <1>2 DEF ArraysInv, TypeOK
<1>6. \A k \in (c + 1)..(Len(indices) - 1) : Index(k) > replacement
  <2> SUFFICES ASSUME NEW k \in (c + 1)..(Len(indices) - 1) PROVE Index(k) > replacement
    OBVIOUS
  <2>1. c \in 0..(Len(indices) - 1) /\ k \in 0..(Len(indices) - 1) /\ c < k
    BY <1>1, <1>2
  <2>2. Index(c) < Index(k) /\ Index(c) \in Nat /\ Index(k) \in Nat
    BY <1>2, <2>1
  <2>3. QED
    BY <1>1, <1>2, <2>2
<1>7. CASE Open
  <2>1. /\ c <= reverse + 1 /\ reverse < Len(indices) /\ replacement < pending
        /\ replacement - reverse + c = Left
        /\ \A k \in c..(Len(indices) - 1) : Index(k) <= replacement <=> k <= reverse
        /\ \A p \in 0..replacement :
             requests[p] = NullRequest <=> \E k \in c..reverse : Index(k) = p
    BY <1>7 DEF Open
  <2>2. reverse <= c
    <3>1. ASSUME reverse > c PROVE FALSE
      <4>1. reverse \in (c + 1)..(Len(indices) - 1) /\ reverse \in c..(Len(indices) - 1)
        BY <1>2, <2>1, <3>1
      <4>2. Index(reverse) > replacement /\ Index(reverse) <= replacement /\ Index(reverse) \in Nat
        BY <1>2, <1>6, <2>1, <4>1
      <4>3. QED
        BY <1>2, <4>2
    <3>2. QED
      BY <1>2, <3>1
  <2>3. ASSUME reverse = c PROVE Closed'
    <3>1. c \in c..(Len(indices) - 1) /\ c \in 0..(Len(indices) - 1) /\ Index(c) \in Nat
      BY <1>1, <1>2
    <3>2. Index(c) = replacement /\ replacement = Left /\ Left \in 0..replacement /\ Left < pending
      BY <1>1, <1>2, <2>1, <2>3, <3>1
    <3>3. requests[Left] = NullRequest
      BY <2>1, <2>3, <3>1, <3>2
    <3>4. \A p \in 0..(Left - 1) : requests[p] # NullRequest
      BY <1>2, <2>1, <2>3, <3>2
    <3>5. QED
      BY <1>1, <1>2, <1>3, <1>6, <3>2, <3>3, <3>4 DEF Closed
  <2>4. ASSUME reverse = c - 1 PROVE Closed'
    <3>1. replacement = Left - 1
      BY <1>2, <1>3, <2>1, <2>4
    <3>2. \A p \in 0..(Left - 1) : requests[p] # NullRequest
      BY <1>2, <2>1, <2>4, <3>1
    <3>3. QED
      BY <1>1, <1>2, <1>3, <1>6, <3>1, <3>2 DEF Closed
  <2>5. Closed'
    BY <1>2, <2>1, <2>2, <2>3, <2>4
  <2>6. QED
    BY <1>1, <1>4, <1>5, <2>5 DEF ArraysInv, Inflight
<1>8. CASE Closed
  <2>1. Closed'
    BY <1>1, <1>2, <1>3, <1>6, <1>8 DEF Closed
  <2>2. QED
    BY <1>1, <1>4, <1>5, <2>1 DEF ArraysInv, Inflight
<1>9. QED
  BY <1>1, <1>7, <1>8 DEF ArraysInv

(***************************************************************************)
(* At the end the first Left positions hold the requests in flight.        *)
(***************************************************************************)
LEMMA CheckEndKeeps ==
  ASSUME ArraysInv, CheckEnd
  PROVE  ArraysInv' /\ Inflight' = Inflight
<1>1. /\ pc = "replace" /\ c = Len(indices) /\ pending' = Left /\ pc' = "idle" /\ indices' = <<>>
      /\ checked' = 0 /\ c' = 0 /\ replacement' = 0 /\ reverse' = 0
      /\ UNCHANGED <<requests, tickets, mappings, complete, delivered>>
  BY DEF CheckEnd, arrayVars, Left
<1>2. /\ reverse \in Int /\ replacement \in Int /\ pending \in Nat /\ pending <= Capacity
      /\ Capacity \in Nat /\ Len(indices) \in Nat /\ Len(indices) <= pending
      /\ Left \in Nat /\ Left <= pending
  BY <1>1, ReplaceTypes DEF Left
<1>3. /\ \A p \in 0..(Left - 1) : requests[p] # NullRequest
      /\ \/ replacement = Left - 1
         \/ replacement = Left /\ requests[Left] = NullRequest
  <2>1. CASE Open
    <3>1. /\ c <= reverse + 1 /\ reverse < Len(indices)
          /\ replacement - reverse + c = Left
          /\ \A p \in 0..replacement :
               requests[p] = NullRequest <=> \E k \in c..reverse : Index(k) = p
      BY <2>1 DEF Open
    <3>2. reverse = c - 1 /\ replacement = Left - 1
      BY <1>1, <1>2, <3>1
    <3>3. \A k \in c..reverse : FALSE
      BY <1>1, <1>2, <3>2
    <3>4. QED
      BY <3>1, <3>2, <3>3
  <2>2. CASE Closed
    BY <2>2 DEF Closed
  <2>3. QED
    BY <1>1, <2>1, <2>2 DEF ArraysInv
<1>4. Live' = Live
  <2>1. Top = replacement /\ Top' = Left - 1
    BY <1>1 DEF Top
  <2>2. CASE replacement = Left - 1
    BY <1>1, <2>1, <2>2 DEF Live
  <2>3. CASE replacement = Left /\ requests[Left] = NullRequest
    <3>1. 0..Left = (0..(Left - 1)) \cup {Left}
      BY <1>2
    <3>2. QED
      BY <1>1, <2>1, <2>3, <3>1 DEF Live
  <2>4. QED
    BY <1>3, <2>2, <2>3
<1>5. TypeOK'
  BY <1>1, <1>2 DEF ArraysInv, TypeOK
<1>6. Ascending(indices') /\ Len(indices') = 0
  BY <1>1 DEF Ascending
<1>7. ArraysInv'
  BY <1>1, <1>3, <1>4, <1>5, <1>6 DEF ArraysInv
<1>8. QED
  BY <1>1, <1>4, <1>7 DEF Inflight

-----------------------------------------------------------------------------
(***************************************************************************)
(* Every step of the arrays' users preserves the invariant.                *)
(***************************************************************************)
LEMMA ArraysStep ==
  ASSUME ArraysInv, [Next]_vars
  PROVE  ArraysInv'
<1>1. CASE UNCHANGED vars
  BY <1>1 DEF vars, ArraysInv, TypeOK, Open, Closed, Left, Live, Top, Index, Ascending
<1>2. CASE Next
  BY <1>2, AssociateKeeps, CompleteKeeps, CheckKeeps, TestBatchKeeps, SkipHoleKeeps,
     FillHoleKeeps, LeaveHoleKeeps, CheckEndKeeps DEF Next
<1>3. QED
  BY <1>1, <1>2

(***************************************************************************)
(* The loop invariant of internalCheckRequests holds throughout.           *)
(***************************************************************************)
THEOREM ArraysInvariant == Spec => []ArraysInv
BY ArraysInit, ArraysStep, PTL DEF Spec

(***************************************************************************)
(* Between two passes the first _pending positions hold neither a null     *)
(* request nor one request twice.                                          *)
(***************************************************************************)
THEOREM CompactArrays == Spec => []ArraysCompact
<1>1. ArraysInv => ArraysCompact
  <2> SUFFICES ASSUME ArraysInv, pc = "idle" PROVE ArraysCompact
    BY DEF ArraysCompact
  <2>1. \A p \in 0..(pending - 1) : requests[p] # NullRequest /\ p \in Live
    BY DEF ArraysInv, Live, Top
  <2>2. QED
    BY <2>1 DEF ArraysInv, ArraysCompact
<1>2. QED
  BY <1>1, ArraysInvariant, PTL

(***************************************************************************)
(* getAssociatedTicket finds the ticket of the request, however often      *)
(* moveRequest has moved it.                                               *)
(***************************************************************************)
THEOREM TicketsFollow == Spec => []TicketFollowsRequest
<1>1. ArraysInv => TicketFollowsRequest
  BY DEF ArraysInv, TicketFollowsRequest, AssociatedTicket
<1>2. QED
  BY <1>1, ArraysInvariant, PTL

(***************************************************************************)
(* The replacement reads no index out of the bounds of indices.            *)
(***************************************************************************)
THEOREM ReplacementBounded == Spec => []ReplacementInBounds
<1>1. ArraysInv => ReplacementInBounds
  BY WhileBody, ReplaceTypes DEF ReplacementInBounds, Replacing
<1>2. QED
  BY <1>1, ArraysInvariant, PTL

-----------------------------------------------------------------------------
(***************************************************************************)
(* transferOperations adds one request to those in flight.                 *)
(***************************************************************************)
LEMMA AssociateEnters ==
  ASSUME ArraysInv, NEW r \in Requests, AssociateRequest(r)
  PROVE  AsSet!Enter(r)
<1>1. /\ r \notin Inflight \cup delivered /\ UNCHANGED <<complete, delivered>>
      /\ pc = "idle" /\ pc' = "idle" /\ pending' = pending + 1
      /\ requests' = [requests EXCEPT ![pending] = r]
  BY DEF AssociateRequest
<1>2. pending \in Nat /\ pending \in Positions /\ requests \in [Positions -> Slot]
  BY ArraysAssumption DEF AssociateRequest, HasRoom, ArraysInv, TypeOK, Positions
<1>3. \A p \in 0..(pending - 1) : requests'[p] = requests[p]
  BY <1>1, <1>2 DEF Positions
<1>4. requests'[pending] = r /\ r # NullRequest
  BY <1>1, <1>2, ArraysAssumption
<1>5. Live' = Live \cup {pending}
  <2>1. Top = pending - 1 /\ Top' = pending
    BY <1>1, <1>2 DEF Top
  <2>2. 0..pending = (0..(pending - 1)) \cup {pending}
    BY <1>2
  <2>3. QED
    BY <1>3, <1>4, <2>1, <2>2 DEF Live
<1>6. \A p \in Live : requests'[p] = requests[p]
  BY <1>1, <1>3 DEF Live, Top
<1>7. Inflight' = Inflight \cup {r}
  BY <1>4, <1>5, <1>6 DEF Inflight
<1>8. QED
  BY <1>1, <1>7 DEF AsSet!Enter

(***************************************************************************)
(* A batch removes from those in flight exactly the requests whose tickets *)
(* it completes, and MPI has completed them.                               *)
(***************************************************************************)
LEMMA TestBatchLeaves ==
  ASSUME ArraysInv, TestBatch
  PROVE  \E R \in SUBSET Requests : AsSet!Leave(R)
<1>1. PICK R \in Reported(Batch) :
        /\ requests' = [p \in Positions |-> IF p \in R THEN NullRequest ELSE requests[p]]
        /\ delivered' = delivered \cup {AssociatedTicket(p) : p \in R}
  BY DEF TestBatch
<1>2. pc = "test" /\ UNCHANGED <<pending, complete>> /\ Top = pending - 1 /\ Top' = pending - 1
  BY DEF TestBatch, Top
<1>3. R \subseteq Live /\ \A p \in R : requests[p] \in complete
  BY <1>2, ReportedSound
<1>4. PICK Q : Q = {requests[p] : p \in R}
  OBVIOUS
<1>5. {AssociatedTicket(p) : p \in R} = Q
  <2>1. \A p \in R : AssociatedTicket(p) = requests[p]
    BY <1>3 DEF ArraysInv, AssociatedTicket
  <2>2. QED
    BY <1>4, <2>1
<1>6. Q \subseteq Inflight \cap complete /\ Q \in SUBSET Requests
  BY <1>3, <1>4 DEF Inflight, ArraysInv, TypeOK
<1>7. Inflight' = Inflight \ Q
  <2>1. \A p \in 0..(pending - 1) : p \in Positions
    BY <1>2, TestTypes DEF Positions
  <2>2. Live' = Live \ R /\ \A p \in Live' : requests'[p] = requests[p]
    BY <1>1, <1>2, <2>1 DEF Live
  <2>3. \A p, q \in Live : requests[p] = requests[q] => p = q
    BY DEF ArraysInv
  <2>4. QED
    BY <1>3, <1>4, <2>2, <2>3 DEF Inflight
<1>8. AsSet!Leave(Q)
  BY <1>1, <1>2, <1>5, <1>6, <1>7 DEF AsSet!Leave
<1>9. QED
  BY <1>6, <1>8

(***************************************************************************)
(* The arrays with their positions, tickets and replacement implement the  *)
(* set of requests in flight that TicketManager works with: none is lost   *)
(* or completed twice, and each completes through its own ticket.          *)
(***************************************************************************)
THEOREM ArraysImplementSet == Spec => ImplementsSet
<1>1. Init => AsSet!SetInit
  BY DEF Init, AsSet!SetInit, Inflight, Live, Top
<1>2. ASSUME ArraysInv, [Next]_vars PROVE [AsSet!SetNext]_(AsSet!setVars)
  <2>1. ASSUME NEW r \in Requests, AssociateRequest(r) PROVE AsSet!SetNext
    BY <1>2, <2>1, AssociateEnters DEF AsSet!SetNext
  <2>2. ASSUME NEW r \in Requests, Complete(r) PROVE AsSet!SetNext
    <3>1. AsSet!MPICompletes(r)
      BY <2>2 DEF Complete, AsSet!MPICompletes, Inflight, Live, Top, arrayVars, loopVars
    <3>2. QED
      BY <3>1 DEF AsSet!SetNext
  <2>3. CASE CheckRequests
    BY <2>3 DEF CheckRequests, AsSet!setVars, Inflight, Live, Top, arrayVars
  <2>4. CASE TestBatch
    BY <1>2, <2>4, TestBatchLeaves DEF AsSet!SetNext
  <2>5. CASE SkipHole
    BY <1>2, <2>5, SkipHoleKeeps DEF SkipHole, AsSet!setVars
  <2>6. CASE FillHole
    BY <1>2, <2>6, FillHoleKeeps DEF FillHole, AsSet!setVars
  <2>7. CASE LeaveHole
    BY <1>2, <2>7, LeaveHoleKeeps DEF LeaveHole, AsSet!setVars
  <2>8. CASE CheckEnd
    BY <1>2, <2>8, CheckEndKeeps DEF CheckEnd, AsSet!setVars
  <2>9. CASE UNCHANGED vars
    BY <2>9 DEF vars, AsSet!setVars, Inflight, Live, Top
  <2>10. QED
    BY <1>2, <2>1, <2>2, <2>3, <2>4, <2>5, <2>6, <2>7, <2>8, <2>9 DEF Next
<1>3. QED
  BY <1>1, <1>2, ArraysInvariant, PTL DEF Spec, ImplementsSet, AsSet!SetSpec
=============================================================================
